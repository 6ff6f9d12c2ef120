-------------------------- MODULE ConfigStore_proofs --------------------------
(***************************************************************************)
(* ConfigStore implements AtomicStore: for any users, files, requests and  *)
(* concurrent handlers, the configuration on disk changes one whole        *)
(* request at a time, as long as no handler was dropped and nothing but    *)
(* the API edited the files.                                               *)
(*                                                                         *)
(* The inductive invariant says what the holder of mutation_lock knows: at *)
(* "match" it has the configuration of the disk, at "save" the outcome of  *)
(* its request on it, and at "write" a file that turns the one into the    *)
(* other.  Only the holder is at one of these steps, so a write by another *)
(* request cannot make any of it stale.                                    *)
(***************************************************************************)
EXTENDS ConfigStore, FiniteSetTheorems, TLAPS

-----------------------------------------------------------------------------
Texts == [Sections -> Rows \cup {NoTable}]
Disks == [Files -> Texts]
Steps == {"idle", "wait", "load", "match", "save", "write", "saved", "apply", "submit"}

\* A field that is still empty, or a value.
Maybe(S) == S \cup {<<>>}

Handlers ==
    [pc : Steps, op : Ops \cup {NoOp}, expected : Maybe(Disks), cfg : Maybe(Tables),
     touched : SUBSET Sections, file : Files \cup {""}, text : Maybe(Texts),
     revision : Maybe(Disks)]

Locked(q) == q.pc \in {"load", "match", "save", "write", "saved", "submit"}

\* The request asks for a mutation that succeeds on the configuration of d.
Succeeds(q, d) ==
    q.op \in Ops /\ q.op.kind # "reload" /\ Outcome(Loaded(d), q.op).code = "ok"

\* What a handler knows of the disk at each of its steps.
Knows(q, d) ==
    /\ q.pc \in {"wait", "load"} => q.op \in Ops
    /\ q.pc = "match" => /\ q.op \in Ops /\ q.op.kind \notin {"reload", "config"}
                         /\ q.cfg = Loaded(d)
    /\ q.pc = "save" => /\ Succeeds(q, d)
                        /\ q.cfg = Outcome(Loaded(d), q.op).cfg
                        /\ q.touched = Outcome(Loaded(d), q.op).touched
    /\ q.pc = "write" => /\ Succeeds(q, d)
                         /\ q.file \in Files /\ q.text \in Texts
                         /\ Loads([d EXCEPT ![q.file] = q.text])
                         /\ Loaded([d EXCEPT ![q.file] = q.text]) = Outcome(Loaded(d), q.op).cfg
                         /\ q.revision = [d EXCEPT ![q.file] = q.text]
    /\ q.pc = "submit" => q.revision = d

StoreInv ==
    /\ disk \in Disks /\ LoadOk(disk)
    /\ req \in [Reqs -> Handlers]
    /\ writes = {} /\ drops = 0 /\ edits = 0
    /\ \A r \in Reqs : Knows(req[r], disk) /\ (Locked(req[r]) => lock = r)

-----------------------------------------------------------------------------
(***************************************************************************)
(* The operators of the model.                                             *)
(***************************************************************************)
LEMMA SectionNames ==
  /\ Sections = {"users", "enabled", "limits", "general"}
  /\ \A s \in Sections : s \in {"users", "enabled", "limits", "general"}
  BY DEF Sections

(* A table of a file is told from no table by any row.                     *)
LEMMA TableIsTold ==
  ASSUME Users # {}, NEW row \in Rows
  PROVE  row # NoTable
<1>1. PICK u \in Users : TRUE
  OBVIOUS
<1>2. row[u] \in 0..2 /\ NoTable[u] = -1
  BY <1>1 DEF Rows, NoTable
<1> QED
  BY <1>2

(* A field of a patch gives a row.                                         *)
LEMMA PatchedRow ==
  ASSUME NEW row \in Rows, NEW u \in Users, NEW change \in Changes
  PROVE  PatchRow(row, u, change) \in Rows
<1>1. CASE change = Unchanged
  BY <1>1 DEF PatchRow, Unchanged, Remove
<1>2. CASE change = Remove
  BY <1>2 DEF PatchRow, Rows, Unchanged, Remove
<1>3. CASE change \in 0..2
  BY <1>3 DEF PatchRow, Rows, Unchanged, Remove
<1> QED
  BY <1>1, <1>2, <1>3 DEF Changes

(* The fields of a user's request change the tables it touches only.       *)
LEMMA PatchedTables ==
  ASSUME NEW cfg \in Tables, NEW op, op.user \in Users, op.secret \in Changes,
         op.limit \in Changes, op.enabled \in Changes
  PROVE  /\ Patched(cfg, op) \in Tables
         /\ Patched(cfg, op)["users"] = PatchRow(cfg["users"], op.user, op.secret)
         /\ Patched(cfg, op)["limits"] = PatchRow(cfg["limits"], op.user, op.limit)
         /\ Patched(cfg, op)["enabled"] = PatchRow(cfg["enabled"], op.user, op.enabled)
         /\ Patched(cfg, op)["general"] = cfg["general"]
<1>1. \A s \in Sections : cfg[s] \in Rows
  BY DEF Tables
<1>2. /\ "users" \in Sections /\ "limits" \in Sections /\ "enabled" \in Sections
      /\ "general" \in Sections
  BY DEF Sections
<1>3. /\ Patched(cfg, op)["users"] = PatchRow(cfg["users"], op.user, op.secret)
      /\ Patched(cfg, op)["limits"] = PatchRow(cfg["limits"], op.user, op.limit)
      /\ Patched(cfg, op)["enabled"] = PatchRow(cfg["enabled"], op.user, op.enabled)
      /\ Patched(cfg, op)["general"] = cfg["general"]
  BY <1>2 DEF Patched
<1>4. \A s \in Sections : Patched(cfg, op)[s] \in Rows
  BY <1>1, <1>2, <1>3, PatchedRow, SectionNames
<1>5. Patched(cfg, op) = [s \in Sections |-> Patched(cfg, op)[s]]
  BY DEF Patched
<1> QED
  BY <1>3, <1>4, <1>5 DEF Tables

(* A field that is left alone leaves its row alone.                        *)
LEMMA RowKept == \A row, u : PatchRow(row, u, Unchanged) = row
  BY DEF PatchRow, Unchanged, Remove

\* What a successful mutation makes of a configuration.
Mutates(cfg, a) ==
    /\ a.cfg \in Tables /\ a.touched \subseteq Sections
    /\ \A s \in Sections \ a.touched : a.cfg[s] = cfg[s]

LEMMA AnswerFields ==
  \A code, cfg, touched : /\ Answer(code, cfg, touched).code = code
                          /\ Answer(code, cfg, touched).cfg = cfg
                          /\ Answer(code, cfg, touched).touched = touched
  BY DEF Answer

(* The answer of a patch changes the tables it names only.                 *)
LEMMA PatchMutates ==
  ASSUME NEW cfg \in Tables, NEW op, op.user \in Users, op.secret \in Changes,
         op.limit \in Changes, op.enabled \in Changes,
         NEW touched \in SUBSET {"users", "limits", "enabled"},
         op.secret = Unchanged \/ "users" \in touched,
         op.limit = Unchanged \/ "limits" \in touched,
         op.enabled = Unchanged \/ "enabled" \in touched
  PROVE  Mutates(cfg, Answer("ok", Patched(cfg, op), touched))
<1> DEFINE p == Patched(cfg, op)
<1>1. /\ p \in Tables /\ p["general"] = cfg["general"]
      /\ p["users"] = PatchRow(cfg["users"], op.user, op.secret)
      /\ p["limits"] = PatchRow(cfg["limits"], op.user, op.limit)
      /\ p["enabled"] = PatchRow(cfg["enabled"], op.user, op.enabled)
  BY PatchedTables
<1> HIDE DEF p
<1>2. \A s \in Sections \ touched : p[s] = cfg[s]
  BY <1>1, RowKept, SectionNames
<1>3. touched \subseteq Sections
  BY SectionNames
<1>4. Mutates(cfg, Answer("ok", p, touched))
  <2> DEFINE a == Answer("ok", p, touched)
  <2>1. a.cfg = p /\ a.touched = touched
    BY AnswerFields
  <2> HIDE DEF a
  <2>2. Mutates(cfg, a)
    BY <1>1, <1>2, <1>3, <2>1 DEF Mutates
  <2> QED
    BY <2>2 DEF a
<1> QED
  BY <1>4 DEF p

(* Every handler answers with tables that differ in those it marks for     *)
(* saving only.                                                            *)
LEMMA HandleMutates ==
  ASSUME NEW cfg \in Tables, NEW op, OpOK(op), op.kind # "reload", Handle(cfg, op).code = "ok"
  PROVE  Mutates(cfg, Handle(cfg, op))
<1>1. CASE op.kind = "config"
  <2> DEFINE row == [u \in Users |-> op.value]
             c == [cfg EXCEPT !["general"] = row]
  <2>1. Handle(cfg, op) = prepare_patch(cfg, op)
    BY <1>1 DEF Handle
  <2>2. op.value \in 0..2
    BY <1>1 DEF OpOK
  <2>3. row \in Rows
    BY <2>2 DEF Rows
  <2> HIDE DEF row
  <2>4. c \in Tables /\ \A s \in Sections \ {"general"} : c[s] = cfg[s]
    BY <2>3, Zenon DEF Tables
  <2>5. prepare_patch(cfg, op) = Answer("ok", c, {"general"})
    <3>1. op.section # "access"
      <4> SUFFICES ASSUME op.section = "access" PROVE FALSE
        OBVIOUS
      <4>1. prepare_patch(cfg, op) = Answer("access_not_editable", cfg, {})
        BY DEF prepare_patch
      <4> QED
        BY <2>1, <4>1, AnswerFields
    <3>2. op.section = "general"
      <4> SUFFICES ASSUME op.section # "general" PROVE FALSE
        OBVIOUS
      <4>1. prepare_patch(cfg, op) = Answer("section_not_editable", cfg, {})
        BY <3>1 DEF prepare_patch
      <4> QED
        BY <2>1, <4>1, AnswerFields
    <3> QED
      BY <3>1, <3>2 DEF prepare_patch, row
  <2> HIDE DEF c
  <2>6. {"general"} \subseteq Sections
    BY SectionNames
  <2> QED
    BY <2>1, <2>4, <2>5, <2>6, AnswerFields DEF Mutates
<1>2. CASE op.kind # "config"
  <2>1. /\ op.kind \in {"create", "patch", "rotate", "switch", "delete"}
        /\ op.user \in Users /\ op.secret \in Changes /\ op.limit \in Changes
        /\ op.enabled \in Changes
        /\ op.kind = "rotate" => op.limit = Unchanged /\ op.enabled = Unchanged
        /\ op.kind = "switch" => op.secret = Unchanged /\ op.limit = Unchanged
    BY <1>2 DEF OpOK
  <2>2. /\ Touched(op) \in SUBSET {"users", "limits", "enabled"}
        /\ op.secret = Unchanged \/ "users" \in Touched(op)
        /\ op.limit = Unchanged \/ "limits" \in Touched(op)
        /\ op.enabled = Unchanged \/ "enabled" \in Touched(op)
    BY DEF Touched
  <2>3. Mutates(cfg, Answer("ok", Patched(cfg, op), Touched(op)))
    BY <2>1, <2>2, PatchMutates
  <2>4. CASE op.kind = "create"
    <3>1. Handle(cfg, op) = create_user(cfg, op)
      BY <2>4 DEF Handle
    <3>2. Handle(cfg, op) \in {Answer("user_exists", cfg, {}), Answer("ok", Patched(cfg, op), Touched(op))}
      BY <3>1 DEF create_user
    <3> QED
      BY <2>3, <3>2, AnswerFields
  <2>5. CASE op.kind = "patch"
    <3>1. Handle(cfg, op) = patch_user(cfg, op)
      BY <2>5 DEF Handle
    <3>2. Handle(cfg, op) \in {Answer("not_found", cfg, {}), Answer("ok", Patched(cfg, op), Touched(op))}
      BY <3>1 DEF patch_user
    <3> QED
      BY <2>3, <3>2, AnswerFields
  <2>6. CASE op.kind = "rotate"
    <3>1. Handle(cfg, op) = rotate_secret(cfg, op)
      BY <2>6 DEF Handle
    <3>2. Handle(cfg, op) \in {Answer("not_found", cfg, {}), Answer("ok", Patched(cfg, op), {"users"})}
      BY <3>1 DEF rotate_secret
    <3>3. Mutates(cfg, Answer("ok", Patched(cfg, op), {"users"}))
      BY <2>1, <2>6, PatchMutates
    <3> QED
      BY <3>2, <3>3, AnswerFields
  <2>7. CASE op.kind = "switch"
    <3>1. Handle(cfg, op) = set_user_enabled(cfg, op)
      BY <2>7 DEF Handle
    <3>2. Handle(cfg, op) \in {Answer("not_found", cfg, {}), Answer("ok", Patched(cfg, op), {"enabled"})}
      BY <3>1 DEF set_user_enabled
    <3>3. Mutates(cfg, Answer("ok", Patched(cfg, op), {"enabled"}))
      BY <2>1, <2>7, PatchMutates
    <3> QED
      BY <3>2, <3>3, AnswerFields
  <2>8. CASE op.kind = "delete"
    <3> DEFINE mine == {s \in {"users", "enabled", "limits"} : cfg[s][op.user] # 0}
               c == [s \in Sections |-> IF s \in mine THEN [cfg[s] EXCEPT ![op.user] = 0] ELSE cfg[s]]
    <3>1. Handle(cfg, op) = delete_user(cfg, op)
      BY <2>8 DEF Handle
    <3>2. Handle(cfg, op) \in {Answer("not_found", cfg, {}), Answer("last_user_forbidden", cfg, {}),
                               Answer("ok", c, mine)}
      BY <3>1 DEF delete_user
    <3>3. mine \subseteq Sections
      BY SectionNames
    <3>4. \A s \in Sections : [cfg[s] EXCEPT ![op.user] = 0] \in Rows /\ cfg[s] \in Rows
      BY <2>1 DEF Tables, Rows
    <3> HIDE DEF mine
    <3>5. c \in Tables /\ \A s \in Sections \ mine : c[s] = cfg[s]
      BY <3>4 DEF Tables
    <3> HIDE DEF c
    <3>6. Mutates(cfg, Answer("ok", c, mine))
      BY <3>3, <3>5, AnswerFields DEF Mutates
    <3> QED
      BY <3>2, <3>6, AnswerFields
  <2> QED
    BY <2>1, <2>4, <2>5, <2>6, <2>7, <2>8
<1> QED
  BY <1>1, <1>2

LEMMA OutcomeMutates ==
  ASSUME NEW cfg \in Tables, NEW op, OpOK(op), op.kind # "reload", Outcome(cfg, op).code = "ok"
  PROVE  Mutates(cfg, Outcome(cfg, op)) /\ validate(Outcome(cfg, op).cfg)
<1> DEFINE a == Handle(cfg, op)
<1>1. Outcome(cfg, op) = IF a.code = "ok" /\ ~validate(a.cfg) THEN Answer("invalid", cfg, {}) ELSE a
  BY DEF Outcome
<1> HIDE DEF a
<1>2. Outcome(cfg, op) = a /\ a.code = "ok" /\ validate(a.cfg)
  BY <1>1, AnswerFields
<1> QED
  BY <1>2, HandleMutates DEF a

(* A disk that loads has at most one file for a table, and the             *)
(* configuration is what that file says.                                   *)
LEMMA OneHolder ==
  ASSUME StoreConstants, NEW d \in Disks, Loads(d), NEW s \in Sections
  PROVE  \/ Holders(d, s) = {} /\ Loaded(d)[s] = [u \in Users |-> 0]
         \/ \E f \in Files : Holders(d, s) = {f} /\ Loaded(d)[s] = d[f][s]
<1>1. Holders(d, s) \subseteq Files
  BY DEF Holders
<1>2. IsFiniteSet(Holders(d, s))
  BY <1>1, FS_Subset DEF StoreConstants
<1>3. Cardinality(Holders(d, s)) \in Nat /\ Cardinality(Holders(d, s)) <= 1
  BY <1>2, FS_CardinalityType DEF Loads
<1>4. CASE Cardinality(Holders(d, s)) = 0
  <2>1. Holders(d, s) = {}
    BY <1>2, <1>4, FS_EmptySet
  <2> QED
    BY <2>1 DEF Loaded
<1>5. CASE Cardinality(Holders(d, s)) = 1
  <2>1. PICK f : Holders(d, s) = {f}
    BY <1>2, <1>5, FS_Singleton, Zenon
  <2>2. (CHOOSE g \in {f} : TRUE) = f
    OBVIOUS
  <2>3. Loaded(d)[s] = d[CHOOSE g \in Holders(d, s) : TRUE][s]
    BY <2>1 DEF Loaded
  <2> QED
    BY <1>1, <2>1, <2>2, <2>3
<1> QED
  BY <1>3, <1>4, <1>5

(* A disk that loads renders to tables.                                    *)
LEMMA LoadedTables ==
  ASSUME StoreConstants, NEW d \in Disks, Loads(d)
  PROVE  Loaded(d) \in Tables
<1>1. ASSUME NEW s \in Sections PROVE Loaded(d)[s] \in Rows
  <2>1. [u \in Users |-> 0] \in Rows
    BY DEF Rows
  <2>2. ASSUME NEW f \in Files, Holders(d, s) = {f}, Loaded(d)[s] = d[f][s]
        PROVE  Loaded(d)[s] \in Rows
    <3>1. d[f][s] # NoTable
      BY <2>2 DEF Holders, HasTable
    <3>2. d[f][s] \in Rows \cup {NoTable}
      BY DEF Disks, Texts
    <3> QED
      BY <2>2, <3>1, <3>2
  <2> QED
    BY <2>1, <2>2, OneHolder
<1>2. Loaded(d) = [s \in Sections |-> Loaded(d)[s]]
  BY DEF Loaded
<1> QED
  BY <1>1, <1>2 DEF Tables

LEMMA SomeUser == ASSUME StoreConstants PROVE Users # {}
  BY DEF StoreConstants, validate, Configured

(* A plan that may be written makes the disk render to the configuration   *)
(* it was made for: the tables it saves have one owner, and the tables it  *)
(* leaves out are as they were, or empty in both.                          *)
LEMMA PlanSaves ==
  ASSUME StoreConstants, disk \in Disks, Loads(disk), NEW c \in Tables,
         NEW touched \in SUBSET Sections, \A s \in Sections \ touched : c[s] = Loaded(disk)[s],
         Plan(c, touched).code = "ok"
  PROVE  /\ Plan(c, touched).file \in Files /\ Plan(c, touched).text \in Texts
         /\ Loads([disk EXCEPT ![Plan(c, touched).file] = Plan(c, touched).text])
         /\ Loaded([disk EXCEPT ![Plan(c, touched).file] = Plan(c, touched).text]) = c
<1> DEFINE kept == Saved(disk, c, touched)
           owners == OwnersOf(disk, kept)
           file == CHOOSE f \in owners : TRUE
           text == upsert(disk[file], c, kept)
           n == [disk EXCEPT ![file] = text]
<1>1. /\ kept # {} /\ Cardinality(owners) = 1 /\ LoadOk(n)
      /\ Plan(c, touched).file = file /\ Plan(c, touched).text = text
  BY DEF Plan
<1>2. kept \subseteq Sections /\ kept \subseteq touched
  BY DEF Saved
<1>3. \A s \in Sections \ kept :
         s \in touched => Holders(disk, s) = {} /\ \A u \in Users : c[s][u] = 0
  BY DEF Saved
<1> HIDE DEF kept
<1>4. owners = {file} /\ file \in Files
  <2>1. owners \subseteq Files
    BY DEF OwnersOf, Holders, StoreConstants
  <2>2. IsFiniteSet(owners)
    BY <2>1, FS_Subset DEF StoreConstants
  <2>3. PICK x : owners = {x}
    BY <1>1, <2>2, FS_Singleton
  <2>4. file = x
    BY <2>3
  <2> QED
    BY <2>1, <2>3, <2>4
<1>5. \A s \in kept : Holders(disk, s) \subseteq {file}
  <2> SUFFICES ASSUME NEW s \in kept, NEW f \in Holders(disk, s) PROVE f \in owners
    BY <1>4
  <2> QED
    BY DEF OwnersOf
<1> HIDE DEF owners, file
<1>6. \A s \in Sections : /\ c[s] \in Rows /\ c[s] # NoTable
                          /\ disk[file][s] \in Rows \cup {NoTable}
  BY <1>4, SomeUser, TableIsTold DEF Tables, Disks, Texts
<1>7. /\ text \in Texts
      /\ \A s \in Sections : text[s] = IF s \in kept THEN c[s] ELSE disk[file][s]
  BY <1>6 DEF upsert, Texts
<1> HIDE DEF text
<1>8. /\ n \in Disks /\ n[file] = text /\ \A f \in Files \ {file} : n[f] = disk[f]
  BY <1>4, <1>7 DEF Disks
<1>9. Loads(n)
  BY <1>1 DEF LoadOk
<1> HIDE DEF n
<1>10. ASSUME NEW s \in kept PROVE Loaded(n)[s] = c[s]
  <2>1. s \in Sections
    BY <1>2
  <2>2. \A f \in Files : f \in Holders(n, s) <=> n[f][s] # NoTable
    BY DEF Holders, HasTable
  <2>3. \A f \in Files \ {file} : disk[f][s] = NoTable
    BY <1>5 DEF Holders, HasTable
  <2>4. Holders(n, s) = {file}
    <3>1. file \in Holders(n, s)
      BY <1>4, <1>6, <1>7, <1>8, <2>1, <2>2
    <3>2. \A f \in Files \ {file} : f \notin Holders(n, s)
      BY <1>8, <2>2, <2>3
    <3>3. Holders(n, s) \subseteq Files
      BY DEF Holders
    <3> QED
      BY <3>1, <3>2, <3>3
  <2>5. Loaded(n)[s] = n[file][s]
    BY <1>8, <1>9, <2>1, <2>4, OneHolder
  <2> QED
    BY <1>7, <1>8, <2>1, <2>5
<1>11. ASSUME NEW s \in Sections, s \notin kept PROVE Loaded(n)[s] = c[s]
  <2>1. \A f \in Files : n[f][s] = disk[f][s]
    BY <1>4, <1>7, <1>8, <1>11
  <2>2. Holders(n, s) = Holders(disk, s)
    BY <2>1 DEF Holders, HasTable
  <2>3. Loaded(n)[s] = Loaded(disk)[s]
    BY <1>8, <1>9, <2>1, <2>2, OneHolder
  <2>4. CASE s \notin touched
    BY <2>3, <2>4
  <2>5. CASE s \in touched
    <3>1. Holders(disk, s) = {} /\ \A u \in Users : c[s][u] = 0
      BY <1>3, <1>11, <2>5
    <3>2. Loaded(disk)[s] = [u \in Users |-> 0]
      BY <3>1, OneHolder
    <3>3. c[s] = [u \in Users |-> 0]
      BY <1>6, <3>1 DEF Rows
    <3> QED
      BY <2>3, <3>2, <3>3
  <2> QED
    BY <2>4, <2>5
<1>12. Loaded(n) = c
  <2>1. \A s \in Sections : Loaded(n)[s] = c[s]
    BY <1>10, <1>11
  <2>2. Loaded(n) \in Tables
    BY <1>8, <1>9, LoadedTables
  <2> QED
    BY <2>1, <2>2 DEF Tables
<1> QED
  BY <1>1, <1>4, <1>7, <1>9, <1>12 DEF n

-----------------------------------------------------------------------------
(***************************************************************************)
(* The invariant.                                                          *)
(***************************************************************************)
LEMMA HandlerRecord ==
  ASSUME NEW q \in Handlers
  PROVE  /\ q.pc \in Steps /\ q.op \in Ops \cup {NoOp} /\ q.expected \in Maybe(Disks)
         /\ q.cfg \in Maybe(Tables) /\ q.touched \in SUBSET Sections
         /\ q.file \in Files \cup {""} /\ q.text \in Maybe(Texts)
         /\ q.revision \in Maybe(Disks)
         /\ q = [pc |-> q.pc, op |-> q.op, expected |-> q.expected, cfg |-> q.cfg,
                 touched |-> q.touched, file |-> q.file, text |-> q.text, revision |-> q.revision]
  BY Zenon DEF Handlers

(* A handler with one field changed.                                       *)
LEMMA StepSet ==
  ASSUME NEW q \in Handlers, NEW step \in Steps
  PROVE  [q EXCEPT !.pc = step] =
           [pc |-> step, op |-> q.op, expected |-> q.expected, cfg |-> q.cfg,
            touched |-> q.touched, file |-> q.file, text |-> q.text, revision |-> q.revision]
<1> DEFINE g == [q EXCEPT !.pc = step]
<1>1. g \in Handlers
  BY Zenon DEF Handlers
<1>2. /\ g.pc = step /\ g.op = q.op /\ g.expected = q.expected /\ g.cfg = q.cfg
      /\ g.touched = q.touched /\ g.file = q.file /\ g.text = q.text /\ g.revision = q.revision
  BY Zenon DEF Handlers
<1> HIDE DEF g
<1>3. g = [pc |-> g.pc, op |-> g.op, expected |-> g.expected, cfg |-> g.cfg,
           touched |-> g.touched, file |-> g.file, text |-> g.text, revision |-> g.revision]
  BY <1>1, HandlerRecord, Zenon
<1>4. g = [pc |-> step, op |-> q.op, expected |-> q.expected, cfg |-> q.cfg,
           touched |-> q.touched, file |-> q.file, text |-> q.text, revision |-> q.revision]
  BY <1>2, <1>3
<1> QED
  BY <1>4 DEF g

LEMMA ConfigSet ==
  ASSUME NEW q \in Handlers, NEW c \in Maybe(Tables)
  PROVE  [q EXCEPT !.cfg = c] =
           [pc |-> q.pc, op |-> q.op, expected |-> q.expected, cfg |-> c,
            touched |-> q.touched, file |-> q.file, text |-> q.text, revision |-> q.revision]
<1> DEFINE g == [q EXCEPT !.cfg = c]
<1>1. g \in Handlers
  BY Zenon DEF Handlers
<1>2. /\ g.pc = q.pc /\ g.op = q.op /\ g.expected = q.expected /\ g.cfg = c
      /\ g.touched = q.touched /\ g.file = q.file /\ g.text = q.text /\ g.revision = q.revision
  BY Zenon DEF Handlers
<1> HIDE DEF g
<1>3. g = [pc |-> g.pc, op |-> g.op, expected |-> g.expected, cfg |-> g.cfg,
           touched |-> g.touched, file |-> g.file, text |-> g.text, revision |-> g.revision]
  BY <1>1, HandlerRecord, Zenon
<1>4. g = [pc |-> q.pc, op |-> q.op, expected |-> q.expected, cfg |-> c,
           touched |-> q.touched, file |-> q.file, text |-> q.text, revision |-> q.revision]
  BY <1>2, <1>3
<1> QED
  BY <1>4 DEF g

LEMMA IdleHandler ==
  ASSUME NEW d
  PROVE  Idle \in Handlers /\ ~Locked(Idle) /\ Knows(Idle, d)
<1>1. \A S : <<>> \in Maybe(S)
  BY DEF Maybe
<1> QED
  BY <1>1 DEF Idle, Handlers, Steps, Locked, Knows

(* The start: the files hold the tables of the first configuration.        *)
LEMMA StoreInitInv ==
  ASSUME StoreConstants
  PROVE  StoreInit => StoreInv
<1> SUFFICES ASSUME StoreInit PROVE StoreInv
  OBVIOUS
<1>1. \A s \in Sections : Start[s] \in Rows /\ Start[s] # NoTable
  BY SomeUser, TableIsTold DEF StoreConstants, Tables
<1>2. \A f \in Files, s \in Sections : disk[f][s] = IF Owner[s] = f THEN Start[s] ELSE NoTable
  BY DEF StoreInit
<1>3. disk \in Disks
  BY <1>1 DEF StoreInit, Disks, Texts
<1>4. ASSUME NEW s \in Sections PROVE Holders(disk, s) = {Owner[s]} \cap Files
  BY <1>1, <1>2 DEF Holders, HasTable
<1>5. Loads(disk)
  <2> SUFFICES ASSUME NEW s \in Sections PROVE Cardinality(Holders(disk, s)) <= 1
    BY DEF Loads
  <2>1. CASE Owner[s] \in Files
    <3>1. Holders(disk, s) = {Owner[s]}
      BY <1>4, <2>1
    <3>2. Cardinality(Holders(disk, s)) = 1
      BY <3>1, FS_Singleton
    <3> QED
      BY <3>2
  <2>2. CASE Owner[s] \notin Files
    <3>1. Holders(disk, s) = {}
      BY <1>4, <2>2
    <3>2. Cardinality(Holders(disk, s)) = 0
      BY <3>1, FS_EmptySet
    <3> QED
      BY <3>2
  <2> QED
    BY <2>1, <2>2
<1>6. ASSUME NEW s \in Sections PROVE Loaded(disk)[s] = Start[s]
  <2>1. CASE Owner[s] \in Files
    <3>1. Holders(disk, s) = {Owner[s]}
      BY <1>4, <2>1
    <3>2. Loaded(disk)[s] = disk[Owner[s]][s]
      BY <1>3, <1>5, <3>1, OneHolder
    <3> QED
      BY <1>2, <2>1, <3>2
  <2>2. CASE Owner[s] \notin Files
    <3>1. Holders(disk, s) = {}
      BY <1>4, <2>2
    <3>2. Loaded(disk)[s] = [u \in Users |-> 0]
      BY <1>3, <1>5, <3>1, OneHolder
    <3> QED
      BY <2>2, <3>2 DEF StoreConstants
  <2> QED
    BY <2>1, <2>2
<1>7. Loaded(disk) = Start
  <2>1. Loaded(disk) \in Tables /\ Start \in Tables
    BY <1>3, <1>5, LoadedTables DEF StoreConstants
  <2> QED
    BY <1>6, <2>1 DEF Tables
<1>8. LoadOk(disk)
  BY <1>5, <1>7 DEF LoadOk, StoreConstants
<1>9. \A r \in Reqs : req[r] = Idle
  BY DEF StoreInit
<1>10. req \in [Reqs -> Handlers]
  BY IdleHandler DEF StoreInit
<1>11. \A r \in Reqs : Knows(req[r], disk) /\ (Locked(req[r]) => lock = r)
  BY <1>9, IdleHandler
<1> QED
  BY <1>3, <1>8, <1>10, <1>11 DEF StoreInv, StoreInit

(* A step of one handler that leaves the disk alone keeps what the others  *)
(* know, since it gives away no lock but its own.                          *)
LEMMA OneHandler ==
  ASSUME StoreInv, NEW r \in Reqs, NEW q \in Handlers, req' = [req EXCEPT ![r] = q],
         Knows(q, disk), UNCHANGED <<disk, writes, drops, edits>>,
         Locked(q) => lock' = r,
         lock' = lock \/ lock = r \/ lock \notin Reqs
  PROVE  StoreInv'
<1>1. req' \in [Reqs -> Handlers] /\ req'[r] = q /\ \A x \in Reqs \ {r} : req'[x] = req[x]
  BY DEF StoreInv
<1>2. \A x \in Reqs : Knows(req'[x], disk)
  BY <1>1 DEF StoreInv
<1>3. \A x \in Reqs : Locked(req'[x]) => lock' = x
  BY <1>1 DEF StoreInv
<1>4. disk' \in Disks /\ LoadOk(disk')
  BY DEF StoreInv
<1>5. \A x \in Reqs : Knows(req'[x], disk')
  BY <1>2
<1> QED
  BY <1>1, <1>3, <1>4, <1>5 DEF StoreInv

(* Ending a request gives its lock back.                                   *)
LEMMA EndsStep ==
  ASSUME StoreInv, NEW r \in Reqs, Ends(r), UNCHANGED <<disk, writes, drops, edits>>
  PROVE  StoreInv'
<1>1. req' = [req EXCEPT ![r] = Idle] /\ (lock' = lock \/ lock = r)
  BY DEF Ends
<1> QED
  BY <1>1, IdleHandler, OneHandler, Zenon

(* What the holder of the lock, and any handler, has in hand.              *)
LEMMA HandlerInHand ==
  ASSUME StoreConstants, StoreInv, NEW r \in Reqs
  PROVE  /\ req \in [Reqs -> Handlers] /\ req[r] \in Handlers /\ Knows(req[r], disk)
         /\ Locked(req[r]) => lock = r
         /\ disk \in Disks /\ Loads(disk) /\ validate(Loaded(disk)) /\ Loaded(disk) \in Tables
         /\ lock = Nobody => lock \notin Reqs
<1>1. disk \in Disks /\ Loads(disk) /\ validate(Loaded(disk))
  BY DEF StoreInv, LoadOk
<1>2. Loaded(disk) \in Tables
  BY <1>1, LoadedTables
<1> QED
  BY <1>1, <1>2 DEF StoreInv, StoreConstants

(* A new request carries what the client sent.                             *)
LEMMA HandleStep ==
  ASSUME StoreConstants, StoreInv, NEW r \in Reqs, handle(r)
  PROVE  StoreInv'
<1>1. UNCHANGED <<disk, lock, writes, drops, edits>> /\ At(r, "idle")
  BY DEF handle
<1>2. PICK gate \in Gates, op \in Ops, match \in Matches :
        req' = IF gate # "ok" THEN req
               ELSE [req EXCEPT ![r] =
                       [Idle EXCEPT !.pc = "wait", !.op = op,
                                    !.expected = IF match THEN compute_source_revision(disk) ELSE <<>>]]
  BY Zenon DEF handle
<1>3. CASE gate # "ok"
  BY <1>1, <1>2, <1>3 DEF StoreInv
<1>4. CASE gate = "ok"
  <2> DEFINE e == IF match THEN compute_source_revision(disk) ELSE <<>>
             q == [Idle EXCEPT !.pc = "wait", !.op = op, !.expected = e]
  <2>1. e \in Maybe(Disks)
    BY HandlerInHand DEF compute_source_revision, Maybe
  <2> HIDE DEF e
  <2>2. q = [pc |-> "wait", op |-> op, expected |-> e, cfg |-> Idle.cfg,
             touched |-> Idle.touched, file |-> Idle.file, text |-> Idle.text,
             revision |-> Idle.revision]
    <3> DEFINE g1 == [Idle EXCEPT !.pc = "wait"]
               g2 == [g1 EXCEPT !.op = op]
    <3>1. q = [g2 EXCEPT !.expected = e]
      OBVIOUS
    <3>2. Idle \in Handlers /\ "wait" \in Steps
      BY IdleHandler DEF Steps
    <3>3. g1 = [pc |-> "wait", op |-> Idle.op, expected |-> Idle.expected, cfg |-> Idle.cfg,
                touched |-> Idle.touched, file |-> Idle.file, text |-> Idle.text,
                revision |-> Idle.revision]
      BY <3>2, StepSet
    <3> HIDE DEF g1
    <3>4. g2 = [pc |-> "wait", op |-> op, expected |-> Idle.expected, cfg |-> Idle.cfg,
                touched |-> Idle.touched, file |-> Idle.file, text |-> Idle.text,
                revision |-> Idle.revision]
      BY <3>3
    <3> HIDE DEF g2
    <3> QED
      BY <3>1, <3>4
  <2>3. req' = [req EXCEPT ![r] = q]
    BY <1>2, <1>4 DEF e
  <2> HIDE DEF q
  <2>4. q \in Handlers /\ Knows(q, disk) /\ ~Locked(q)
    BY <2>1, <2>2, IdleHandler, HandlerRecord, Zenon DEF Handlers, Steps, Knows, Locked
  <2> QED
    BY <1>1, <2>3, <2>4, OneHandler, Zenon
<1> QED
  BY <1>3, <1>4

(* Moving on to a step that needs to know no more than the last.           *)
LEMMA GoesOn ==
  ASSUME StoreConstants, StoreInv, NEW r \in Reqs, NEW step \in {"load", "saved", "apply"}, Goes(r, step),
         step = "load" => req[r].op \in Ops,
         UNCHANGED <<disk, writes, drops, edits>>,
         step \in {"load", "saved"} => lock' = r,
         lock' = lock \/ lock = r \/ lock = Nobody
  PROVE  StoreInv'
<1> DEFINE q == [req[r] EXCEPT !.pc = step]
<1>1. req' = [req EXCEPT ![r] = q]
  BY HandlerInHand DEF Goes
<1>2. /\ q = [pc |-> step, op |-> req[r].op, expected |-> req[r].expected, cfg |-> req[r].cfg,
              touched |-> req[r].touched, file |-> req[r].file, text |-> req[r].text,
              revision |-> req[r].revision]
  BY HandlerInHand, StepSet, Zenon DEF Steps
<1> HIDE DEF q
<1>3. q \in Handlers
  BY <1>2, HandlerInHand, HandlerRecord, Zenon DEF Handlers, Steps, Maybe
<1>4. Knows(q, disk) /\ (Locked(q) => step \in {"load", "saved"})
  BY <1>2 DEF Knows, Locked
<1> QED
  BY <1>1, <1>3, <1>4, HandlerInHand, OneHandler, Zenon

LEMMA LoadStep ==
  ASSUME StoreConstants, StoreInv, NEW r \in Reqs, load_config_from_disk(r)
  PROVE  StoreInv'
<1>1. /\ At(r, "load") /\ req[r].op.kind \notin {"reload", "config"}
      /\ UNCHANGED <<disk, writes, drops, edits>>
  BY DEF load_config_from_disk
<1>2. /\ req' = [req EXCEPT ![r].cfg = Loaded(disk), ![r].pc = "match"] /\ lock' = lock
  BY DEF load_config_from_disk, StoreInv
<1> DEFINE g == [req[r] EXCEPT !.cfg = Loaded(disk)]
           q == [g EXCEPT !.pc = "match"]
<1>3. req' = [req EXCEPT ![r] = q]
  BY <1>2, HandlerInHand, Zenon
<1>4. g = [pc |-> req[r].pc, op |-> req[r].op, expected |-> req[r].expected, cfg |-> Loaded(disk),
           touched |-> req[r].touched, file |-> req[r].file, text |-> req[r].text,
           revision |-> req[r].revision]
  BY HandlerInHand, ConfigSet DEF Maybe
<1> HIDE DEF g
<1>5. q = [pc |-> "match", op |-> req[r].op, expected |-> req[r].expected, cfg |-> Loaded(disk),
           touched |-> req[r].touched, file |-> req[r].file, text |-> req[r].text,
           revision |-> req[r].revision]
  BY <1>4
<1> HIDE DEF q
<1>6. q \in Handlers
  BY <1>5, HandlerInHand, HandlerRecord, Zenon DEF Handlers, Steps, Maybe
<1>7. req[r].op \in Ops
  BY <1>1, HandlerInHand, Zenon DEF Knows, At
<1>8. Knows(q, disk) /\ lock = r
  BY <1>1, <1>5, <1>7, HandlerInHand, Zenon DEF Knows, Locked, At
<1> QED
  BY <1>1, <1>2, <1>3, <1>6, <1>8, OneHandler, Zenon

LEMMA MatchStep ==
  ASSUME StoreConstants, StoreInv, NEW r \in Reqs, ensure_expected_revision(r)
  PROVE  StoreInv'
<1> DEFINE a == Outcome(req[r].cfg, req[r].op)
           step == IF a.touched = {} THEN "saved" ELSE "save"
<1>1. At(r, "match") /\ UNCHANGED <<disk, writes, drops, edits>>
  BY DEF ensure_expected_revision
<1>2. \/ Ends(r)
      \/ /\ a.code = "ok" /\ lock' = lock
         /\ req' = [req EXCEPT ![r].cfg = a.cfg, ![r].touched = a.touched, ![r].pc = step]
  BY DEF ensure_expected_revision
<1>3. CASE Ends(r)
  BY <1>1, <1>3, EndsStep
<1>4. CASE /\ a.code = "ok" /\ lock' = lock
           /\ req' = [req EXCEPT ![r].cfg = a.cfg, ![r].touched = a.touched, ![r].pc = step]
  <2>1. /\ req[r].op \in Ops /\ req[r].op.kind # "reload" /\ req[r].cfg = Loaded(disk) /\ lock = r
    BY <1>1, HandlerInHand, Zenon DEF Knows, Locked, At
  <2>2. Mutates(Loaded(disk), a)
    BY <1>4, <2>1, HandlerInHand, OutcomeMutates DEF StoreConstants
  <2>3. a.cfg \in Tables /\ a.touched \in SUBSET Sections /\ step \in {"saved", "save"}
    BY <2>2 DEF Mutates
  <2> DEFINE g == [req[r] EXCEPT !.cfg = a.cfg]
             h == [g EXCEPT !.touched = a.touched]
             q == [h EXCEPT !.pc = step]
  <2> HIDE DEF a, step
  <2>4. req' = [req EXCEPT ![r] = q]
    BY <1>4, HandlerInHand, Zenon
  <2>5. g = [pc |-> req[r].pc, op |-> req[r].op, expected |-> req[r].expected, cfg |-> a.cfg,
             touched |-> req[r].touched, file |-> req[r].file, text |-> req[r].text,
             revision |-> req[r].revision]
    BY <2>3, HandlerInHand, ConfigSet DEF Maybe
  <2> HIDE DEF g
  <2>6. h = [pc |-> req[r].pc, op |-> req[r].op, expected |-> req[r].expected, cfg |-> a.cfg,
             touched |-> a.touched, file |-> req[r].file, text |-> req[r].text,
             revision |-> req[r].revision]
    BY <2>5
  <2> HIDE DEF h
  <2>7. q = [pc |-> step, op |-> req[r].op, expected |-> req[r].expected, cfg |-> a.cfg,
             touched |-> a.touched, file |-> req[r].file, text |-> req[r].text,
             revision |-> req[r].revision]
    BY <2>6
  <2> HIDE DEF q
  <2>8. q \in Handlers
    BY <2>3, <2>7, HandlerInHand, HandlerRecord, Zenon DEF Handlers, Steps, Maybe
  <2>9. a = Outcome(Loaded(disk), q.op)
    BY <2>1, <2>7 DEF a
  <2>10. Knows(q, disk)
    BY <1>4, <2>1, <2>3, <2>7, <2>9 DEF Knows, Succeeds
  <2> QED
    BY <1>1, <1>4, <2>1, <2>4, <2>8, <2>10, OneHandler, Zenon
<1> QED
  BY <1>2, <1>3, <1>4

(* Handing over a planned write.                                           *)
LEMMA WritesStep ==
  ASSUME StoreConstants, StoreInv, NEW r \in Reqs, NEW c, NEW touched,
         Plan(c, touched).code = "ok", Writes(r, Plan(c, touched)),
         Succeeds(req[r], disk), lock = r,
         c = Outcome(Loaded(disk), req[r].op).cfg, touched = Outcome(Loaded(disk), req[r].op).touched,
         UNCHANGED <<disk, writes, drops, edits>>
  PROVE  StoreInv'
<1> DEFINE plan == Plan(c, touched)
           f == plan.file
           x == plan.text
           n == [disk EXCEPT ![f] = x]
           v == compute_source_revision(n)
<1>1. /\ req' = [req EXCEPT ![r].pc = "write", ![r].file = f, ![r].text = x, ![r].revision = v]
      /\ lock' = lock
  BY DEF Writes
<1>2. Mutates(Loaded(disk), Outcome(Loaded(disk), req[r].op))
  BY HandlerInHand, OutcomeMutates DEF StoreConstants, Succeeds
<1>3. f \in Files /\ x \in Texts /\ Loads(n) /\ Loaded(n) = c
  BY <1>2, HandlerInHand, PlanSaves DEF Mutates
<1>4. v \in Disks
  BY <1>3, HandlerInHand DEF compute_source_revision, Disks
<1> DEFINE g1 == [req[r] EXCEPT !.pc = "write"]
           g2 == [g1 EXCEPT !.file = f]
           g3 == [g2 EXCEPT !.text = x]
           q == [g3 EXCEPT !.revision = v]
<1> HIDE DEF f, x, v
<1>5. req' = [req EXCEPT ![r] = q]
  BY <1>1, HandlerInHand, Zenon
<1>6. g1 = [pc |-> "write", op |-> req[r].op, expected |-> req[r].expected, cfg |-> req[r].cfg,
            touched |-> req[r].touched, file |-> req[r].file, text |-> req[r].text,
            revision |-> req[r].revision]
  BY HandlerInHand, StepSet, Zenon DEF Steps
<1> HIDE DEF g1
<1>7. g2 = [pc |-> "write", op |-> req[r].op, expected |-> req[r].expected, cfg |-> req[r].cfg,
            touched |-> req[r].touched, file |-> f, text |-> req[r].text,
            revision |-> req[r].revision]
  BY <1>6
<1> HIDE DEF g2
<1>8. g3 = [pc |-> "write", op |-> req[r].op, expected |-> req[r].expected, cfg |-> req[r].cfg,
            touched |-> req[r].touched, file |-> f, text |-> x, revision |-> req[r].revision]
  BY <1>7
<1> HIDE DEF g3
<1>9. q = [pc |-> "write", op |-> req[r].op, expected |-> req[r].expected, cfg |-> req[r].cfg,
           touched |-> req[r].touched, file |-> f, text |-> x, revision |-> v]
  BY <1>8
<1> HIDE DEF q, n
<1>10. q \in Handlers
  BY <1>3, <1>4, <1>9, HandlerInHand, HandlerRecord, Zenon DEF Handlers, Steps, Maybe
<1>11. /\ n = [disk EXCEPT ![q.file] = q.text] /\ q.op = req[r].op /\ q.file = f /\ q.text = x
       /\ q.pc = "write" /\ q.revision = n
  BY <1>9 DEF n, v, compute_source_revision
<1>12. Succeeds(q, disk)
  BY <1>11 DEF Succeeds
<1>13. Knows(q, disk)
  BY <1>3, <1>11, <1>12, Zenon DEF Knows
<1> QED
  BY <1>1, <1>5, <1>10, <1>13, OneHandler, Zenon

LEMMA SaveStep ==
  ASSUME StoreConstants, StoreInv, NEW r \in Reqs, save_access_sections_to_disk(r)
  PROVE  StoreInv'
<1> DEFINE plan == Plan(req[r].cfg, req[r].touched)
<1>1. At(r, "save") /\ UNCHANGED <<disk, writes, drops, edits>>
  BY DEF save_access_sections_to_disk
<1>2. \/ plan.code = "ok" /\ Writes(r, plan)
      \/ Goes(r, "saved") /\ lock' = lock
      \/ Ends(r)
  BY DEF save_access_sections_to_disk
<1>3. /\ Succeeds(req[r], disk) /\ lock = r
      /\ req[r].cfg = Outcome(Loaded(disk), req[r].op).cfg
      /\ req[r].touched = Outcome(Loaded(disk), req[r].op).touched
  BY <1>1, HandlerInHand, Zenon DEF Knows, Locked, At
<1>4. CASE plan.code = "ok" /\ Writes(r, plan)
  BY <1>1, <1>3, <1>4, WritesStep
<1>5. CASE Goes(r, "saved") /\ lock' = lock
  BY <1>1, <1>3, <1>5, GoesOn
<1>6. CASE Ends(r)
  BY <1>1, <1>6, EndsStep
<1> QED
  BY <1>2, <1>4, <1>5, <1>6

LEMMA PatchStep ==
  ASSUME StoreConstants, StoreInv, NEW r \in Reqs, patch_config(r)
  PROVE  StoreInv'
<1> DEFINE a == Outcome(Loaded(disk), req[r].op)
           plan == Plan(a.cfg, a.touched)
<1>1. At(r, "load") /\ req[r].op.kind = "config" /\ UNCHANGED <<disk, writes, drops, edits>>
  BY DEF patch_config
<1>2. (a.code = "ok" /\ plan.code = "ok" /\ Writes(r, plan)) \/ Ends(r)
  BY DEF patch_config
<1>3. CASE a.code = "ok" /\ plan.code = "ok" /\ Writes(r, plan)
  <2>1. req[r].op \in Ops /\ lock = r
    BY <1>1, HandlerInHand, Zenon DEF Knows, Locked, At
  <2>2. Succeeds(req[r], disk)
    BY <1>1, <1>3, <2>1 DEF Succeeds
  <2> QED
    BY <1>1, <1>3, <2>1, <2>2, WritesStep
<1>4. CASE Ends(r)
  BY <1>1, <1>4, EndsStep
<1> QED
  BY <1>2, <1>3, <1>4

LEMMA ReloadRevisionStep ==
  ASSUME StoreConstants, StoreInv, NEW r \in Reqs, ReloadRevision(r)
  PROVE  StoreInv'
<1> DEFINE v == compute_source_revision(disk)
           g == [req[r] EXCEPT !.revision = v]
           q == [g EXCEPT !.pc = "submit"]
<1>1. At(r, "load") /\ UNCHANGED <<disk, writes, drops, edits>>
  BY DEF ReloadRevision
<1>2. Ends(r) \/ (req' = [req EXCEPT ![r].revision = v, ![r].pc = "submit"] /\ lock' = lock)
  BY DEF ReloadRevision
<1>3. CASE Ends(r)
  BY <1>1, <1>3, EndsStep
<1>4. CASE req' = [req EXCEPT ![r].revision = v, ![r].pc = "submit"] /\ lock' = lock
  <2>1. v \in Maybe(Disks)
    BY HandlerInHand DEF compute_source_revision, Maybe
  <2> HIDE DEF v
  <2>2. req' = [req EXCEPT ![r] = q]
    BY <1>4, HandlerInHand, Zenon
  <2>3. g \in Handlers /\ g.revision = v
    BY <2>1, HandlerInHand, Zenon DEF Handlers
  <2> HIDE DEF g
  <2>4. q \in Handlers /\ q.pc = "submit" /\ q.revision = v
    BY <2>3, Zenon DEF Handlers, Steps
  <2> HIDE DEF q
  <2>5. Knows(q, disk)
    BY <2>4 DEF Knows, v, compute_source_revision
  <2>6. lock = r
    BY <1>1, HandlerInHand DEF Locked, At
  <2> QED
    BY <1>1, <1>4, <2>2, <2>4, <2>5, <2>6, OneHandler, Zenon
<1> QED
  BY <1>2, <1>3, <1>4

(* The one step that changes the disk: the file the holder of the lock has *)
(* planned turns the configuration into the outcome of its request.        *)
LEMMA WriteStep ==
  ASSUME StoreConstants, StoreInv, NEW r \in Reqs, write_atomic(r)
  PROVE  /\ StoreInv'
         /\ Succeeds(req[r], disk) /\ Loaded(disk') = Outcome(Loaded(disk), req[r].op).cfg
<1> DEFINE n == [disk EXCEPT ![req[r].file] = req[r].text]
           q == [req[r] EXCEPT !.pc = "saved"]
<1>1. /\ At(r, "write") /\ disk' = n /\ Goes(r, "saved") /\ UNCHANGED <<lock, writes, drops, edits>>
  BY DEF write_atomic
<1>2. /\ Succeeds(req[r], disk) /\ req[r].file \in Files /\ req[r].text \in Texts
      /\ Loads(n) /\ Loaded(n) = Outcome(Loaded(disk), req[r].op).cfg /\ lock = r
  BY <1>1, HandlerInHand, Zenon DEF Knows, Locked, At
<1>3. disk' \in Disks
  BY <1>1, <1>2, HandlerInHand DEF Disks
<1> HIDE DEF n
<1>4. LoadOk(disk')
  <2>1. validate(Outcome(Loaded(disk), req[r].op).cfg)
    BY <1>2, HandlerInHand, OutcomeMutates DEF StoreConstants, Succeeds
  <2> QED
    BY <1>1, <1>2, <2>1 DEF LoadOk
<1>5. req' = [req EXCEPT ![r] = q]
  BY <1>1, HandlerInHand DEF Goes
<1>6. q \in Handlers /\ q.pc = "saved"
  BY HandlerInHand, Zenon DEF Handlers, Steps
<1> HIDE DEF q
<1>7. req' \in [Reqs -> Handlers] /\ req'[r] = q /\ \A x \in Reqs \ {r} : req'[x] = req[x]
  BY <1>5, <1>6, HandlerInHand
<1>8. \A x \in Reqs \ {r} : Knows(req[x], disk) /\ ~Locked(req[x])
  BY <1>2 DEF StoreInv
<1>9. \A x \in Reqs : Knows(req'[x], disk') /\ (Locked(req'[x]) => lock' = x)
  <2> SUFFICES ASSUME NEW x \in Reqs PROVE Knows(req'[x], disk') /\ (Locked(req'[x]) => lock' = x)
    OBVIOUS
  <2>1. CASE x = r
    BY <1>1, <1>2, <1>6, <1>7, <2>1 DEF Knows
  <2>2. CASE x # r
    <3>1. Knows(req[x], disk) /\ ~Locked(req[x]) /\ req'[x] = req[x]
      BY <1>7, <1>8, <2>2
    <3> QED
      BY <3>1 DEF Knows, Locked
  <2> QED
    BY <2>1, <2>2
<1> QED
  BY <1>1, <1>2, <1>3, <1>4, <1>7, <1>9 DEF StoreInv

(* A step outside the handlers, or a stutter.                              *)
LEMMA OtherStep ==
  ASSUME StoreInv, UNCHANGED <<disk, lock, req, writes, drops, edits>>
  PROVE  StoreInv'
  BY DEF StoreInv

(* Every step keeps the invariant, and changes the configuration only as   *)
(* the outcome of a request.                                               *)
LEMMA StoreStep ==
  ASSUME StoreConstants, StoreInv, [StoreNext]_storeVars, Undisturbed'
  PROVE  /\ StoreInv'
         /\ \/ disk' = disk
            \/ \E op \in Ops : /\ op.kind # "reload" /\ Outcome(Loaded(disk), op).code = "ok"
                               /\ Loaded(disk') = Outcome(Loaded(disk), op).cfg
<1>1. ASSUME NEW r \in Reqs, handle(r) PROVE StoreInv' /\ disk' = disk
  BY <1>1, HandleStep, Zenon DEF handle
<1>2. ASSUME NEW r \in Reqs, TakeLock(r) PROVE StoreInv' /\ disk' = disk
  <2>1. /\ At(r, "wait") /\ lock = Nobody /\ lock' = r /\ Goes(r, "load")
        /\ UNCHANGED <<disk, writes, drops, edits>>
    BY <1>2 DEF TakeLock
  <2>2. req[r].op \in Ops
    BY <2>1, HandlerInHand, Zenon DEF Knows, At
  <2> QED
    BY <2>1, <2>2, GoesOn
<1>3. ASSUME NEW r \in Reqs, load_config_from_disk(r) PROVE StoreInv' /\ disk' = disk
  BY <1>3, LoadStep DEF load_config_from_disk
<1>4. ASSUME NEW r \in Reqs, ensure_expected_revision(r) PROVE StoreInv' /\ disk' = disk
  BY <1>4, MatchStep, Zenon DEF ensure_expected_revision
<1>5. ASSUME NEW r \in Reqs, save_access_sections_to_disk(r) PROVE StoreInv' /\ disk' = disk
  BY <1>5, SaveStep DEF save_access_sections_to_disk
<1>6. ASSUME NEW r \in Reqs, patch_config(r) PROVE StoreInv' /\ disk' = disk
  BY <1>6, PatchStep, Zenon DEF patch_config
<1>7. ASSUME NEW r \in Reqs, write_atomic(r)
      PROVE  /\ StoreInv'
             /\ \E op \in Ops : /\ op.kind # "reload" /\ Outcome(Loaded(disk), op).code = "ok"
                                /\ Loaded(disk') = Outcome(Loaded(disk), op).cfg
  BY <1>7, WriteStep DEF Succeeds
<1>8. ASSUME NEW r \in Reqs, WriteFails(r) PROVE StoreInv' /\ disk' = disk
  BY <1>8, EndsStep DEF WriteFails
<1>9. ASSUME NEW r \in Reqs, Unlock(r) PROVE StoreInv' /\ disk' = disk
  <2>1. /\ At(r, "saved") /\ Goes(r, "apply") /\ UNCHANGED <<disk, writes, drops, edits>>
        /\ lock' = lock \/ lock = r
    BY <1>9 DEF Unlock
  <2> QED
    BY <2>1, GoesOn
<1>10. ASSUME NEW r \in Reqs, Acknowledge(r) PROVE StoreInv' /\ disk' = disk
  BY <1>10, EndsStep DEF Acknowledge
<1>11. ASSUME NEW r \in Reqs, ReloadRevision(r) PROVE StoreInv' /\ disk' = disk
  BY <1>11, ReloadRevisionStep DEF ReloadRevision
<1>12. ASSUME NEW r \in Reqs, submit_reload_from_disk(r) PROVE StoreInv' /\ disk' = disk
  BY <1>12, EndsStep DEF submit_reload_from_disk
<1>13. ASSUME NEW r \in Reqs, Drop(r) PROVE FALSE
  BY <1>13 DEF Drop, StoreInv, Undisturbed
<1>14. ASSUME OrphanWrite \/ ExternalEdit PROVE FALSE
  BY <1>14 DEF OrphanWrite, ExternalEdit, StoreInv, Undisturbed
<1>15. ASSUME ReloadEnds \/ Watcher \/ LimitTask \/ EnabledTask \/ UNCHANGED storeVars
       PROVE  StoreInv' /\ disk' = disk
  <2>1. UNCHANGED <<disk, lock, req, writes, drops, edits>>
    BY <1>15 DEF ReloadEnds, Watcher, LimitTask, EnabledTask, storeVars
  <2> QED
    BY <2>1, OtherStep
<1> QED
  BY <1>1, <1>2, <1>3, <1>4, <1>5, <1>6, <1>7, <1>8, <1>9, <1>10, <1>11, <1>12, <1>13, <1>14,
     <1>15 DEF StoreNext, Request

-----------------------------------------------------------------------------
(***************************************************************************)
(* The refinement.                                                         *)
(***************************************************************************)
LEMMA StoreStarts ==
  ASSUME StoreConstants, StoreInv
  PROVE  Store!Init
<1>1. Loaded(disk) \in Tables /\ validate(Loaded(disk))
  BY LoadedTables DEF StoreInv, LoadOk
<1> QED
  BY <1>1 DEF Store!Init

LEMMA StoreMoves ==
  ASSUME StoreConstants, StoreInv, [StoreNext]_storeVars, Undisturbed'
  PROVE  [Store!Next]_(Loaded(disk))
<1> SUFFICES ASSUME Loaded(disk') # Loaded(disk) PROVE Store!Next
  OBVIOUS
<1>1. PICK op \in Ops : /\ op.kind # "reload" /\ Outcome(Loaded(disk), op).code = "ok"
                        /\ Loaded(disk') = Outcome(Loaded(disk), op).cfg
  BY StoreStep
<1>2. Store!Apply(op)
  BY <1>1 DEF Store!Apply
<1> QED
  BY <1>2 DEF Store!Next

(* Drops and edits are counted and never taken back.                       *)
LEMMA DisturbanceStays ==
  ASSUME drops \in Nat, edits \in Nat, [StoreNext]_storeVars
  PROVE  drops' \in Nat /\ edits' \in Nat /\ (Undisturbed' => Undisturbed)
<1>1. drops' \in {drops, drops + 1} /\ edits' \in {edits, edits + 1}
  BY Zenon DEF StoreNext, Request, storeVars, handle, TakeLock, load_config_from_disk,
         ensure_expected_revision, save_access_sections_to_disk, patch_config, write_atomic,
         WriteFails, Unlock, Acknowledge, ReloadRevision, submit_reload_from_disk, ReloadEnds,
         Drop, OrphanWrite, Watcher, LimitTask, EnabledTask, ExternalEdit
<1> QED
  BY <1>1 DEF Undisturbed

-----------------------------------------------------------------------------
(***************************************************************************)
(* Reloads.                                                                *)
(***************************************************************************)
(* The two steps that start one know what the revision they hold names.    *)
LEMMA ReloadStarts ==
  ASSUME StoreConstants, StoreInv, ReloadCarriesItsRevision, [StoreNext]_storeVars
  PROVE  ReloadCarriesItsRevision'
<1>1. ASSUME NEW r \in Reqs, write_atomic(r) PROVE ReloadCarriesItsRevision'
  <2> DEFINE n == [disk EXCEPT ![req[r].file] = req[r].text]
  <2>1. started' \subseteq started \cup {[revision |-> req[r].revision, config |-> Loaded(n)]}
    BY <1>1, Zenon DEF write_atomic, Enqueue
  <2>2. req[r].revision = n
    BY <1>1, HandlerInHand, Zenon DEF write_atomic, Knows, At
  <2> HIDE DEF n
  <2> QED
    BY <2>1, <2>2 DEF ReloadCarriesItsRevision
<1>2. ASSUME NEW r \in Reqs, submit_reload_from_disk(r) PROVE ReloadCarriesItsRevision'
  <2>1. started' \subseteq started \cup {[revision |-> req[r].revision, config |-> Loaded(disk)]}
    BY <1>2 DEF submit_reload_from_disk
  <2>2. req[r].revision = disk
    BY <1>2, HandlerInHand, Zenon DEF submit_reload_from_disk, Knows, At
  <2> QED
    BY <2>1, <2>2 DEF ReloadCarriesItsRevision
<1>3. ASSUME started' = started PROVE ReloadCarriesItsRevision'
  BY <1>3 DEF ReloadCarriesItsRevision
<1>4. \/ started' = started
      \/ \E r \in Reqs : write_atomic(r) \/ submit_reload_from_disk(r)
  BY Zenon DEF StoreNext, Request, storeVars, handle, TakeLock, load_config_from_disk, ensure_expected_revision,
         save_access_sections_to_disk, patch_config, WriteFails, Unlock, Acknowledge,
         ReloadRevision, ReloadEnds, Drop, OrphanWrite, Watcher, LimitTask, EnabledTask,
         ExternalEdit
<1> QED
  BY <1>1, <1>2, <1>3, <1>4

-----------------------------------------------------------------------------
StoreInductive ==
    /\ drops \in Nat /\ edits \in Nat
    /\ Undisturbed => StoreInv /\ ReloadCarriesItsRevision

(* For any users, files, requests and concurrent handlers, as long as no   *)
(* handler was dropped and nothing else edited the files: what is on disk  *)
(* changes one whole request at a time, each applied to what the one       *)
(* before left (mutation_lock, save_access_sections_to_disk, patch_config),*)
(* and every reload that starts runs the configuration its revision names: *)
(* neither the second read of submit_reload_from_disk nor the rename of    *)
(* write_atomic lets another request's change slip in between.             *)
THEOREM StoreImplementsAtomic == StoreSpec => StoreIsAtomic
<1>1. StoreInit => StoreInductive /\ Store!Init
  <2> SUFFICES ASSUME StoreInit PROVE StoreInductive /\ Store!Init
    OBVIOUS
  <2>1. StoreInv
    BY StoreInitInv, StoreAssumption
  <2>2. ReloadCarriesItsRevision /\ drops = 0 /\ edits = 0
    BY DEF StoreInit, ReloadCarriesItsRevision
  <2> QED
    BY <2>1, <2>2, StoreStarts, StoreAssumption DEF StoreInductive
<1>2. StoreInductive /\ [StoreNext]_storeVars => StoreInductive'
  <2> SUFFICES ASSUME StoreInductive, [StoreNext]_storeVars PROVE StoreInductive'
    OBVIOUS
  <2>1. drops' \in Nat /\ edits' \in Nat /\ (Undisturbed' => Undisturbed)
    BY DisturbanceStays DEF StoreInductive
  <2>2. Undisturbed' => StoreInv /\ ReloadCarriesItsRevision
    BY <2>1 DEF StoreInductive
  <2>3. Undisturbed' => StoreInv' /\ ReloadCarriesItsRevision'
    BY <2>2, StoreStep, ReloadStarts, StoreAssumption
  <2> QED
    BY <2>1, <2>3 DEF StoreInductive
<1>3. StoreInductive /\ [StoreNext]_storeVars => (Undisturbed' => [Store!Next]_(Loaded(disk)))
  <2> SUFFICES ASSUME StoreInductive, [StoreNext]_storeVars, Undisturbed'
               PROVE  [Store!Next]_(Loaded(disk))
    OBVIOUS
  <2>1. StoreInv
    BY DisturbanceStays DEF StoreInductive
  <2> QED
    BY <2>1, StoreMoves, StoreAssumption
<1>4. StoreInductive => (Undisturbed => ReloadCarriesItsRevision)
  BY DEF StoreInductive
<1> QED
  BY <1>1, <1>2, <1>3, <1>4, PTL DEF StoreSpec, StoreIsAtomic
=============================================================================
