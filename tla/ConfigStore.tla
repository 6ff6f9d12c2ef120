----------------------------- MODULE ConfigStore -----------------------------
(***************************************************************************)
(* The control API's way from a request to the configuration on disk and   *)
(* to the running service.  A mutation takes mutation_lock, loads the      *)
(* configuration, compares revisions, loads the sources again for saving,  *)
(* finds the one source file that owns the tables it touches, writes a     *)
(* temporary file and renames it, releases the lock and only then updates  *)
(* the running IP tracker and the set of switched-off users, which the     *)
(* config watcher also updates from the file.  A client that goes away     *)
(* drops the handler; a write already handed to a blocking thread goes on. *)
(*                                                                         *)
(* A configuration gives every table of Sections a row per user; 0 stands  *)
(* for "no row".  The user table holds secrets, "limits" the unique-IP     *)
(* limits, "enabled" holds 1 for a user that is switched off, "general"    *)
(* stands for every section PATCH /v1/config may edit (the same value in   *)
(* each row).  The operators up to Outcome say what one mutation checks,   *)
(* changes and marks for saving (api/users/*.rs, api/config_edit.rs).      *)
(***************************************************************************)
EXTENDS Integers, FiniteSets

CONSTANTS Users,       \* user names
          Ops,         \* the requests clients may send
          Files,       \* the source files, "main" and what it includes
          Owner,       \* [Sections -> Files \cup {"none"}]: where a table starts
          Start,       \* the configuration at start
          Reqs,        \* concurrent requests
          Matches,     \* subset of BOOLEAN: requests with or without If-Match
          Gates,       \* what the handler's gate may say of a request
          MaxOps,      \* requests served
          MaxDrops,    \* handlers dropped by a lost or timed-out connection
          MaxEdits     \* edits of the files by something other than the API

VARIABLES disk,        \* [Files -> [Sections -> Rows or NoTable]]
          lock,        \* holder of mutation_lock, or Nobody
          req,         \* [Reqs -> request in progress]
          writes,      \* blocking writes whose handler is gone: {[file, text]}
          reserved,    \* the reload slot: Free, a request, or Running
          started,     \* reloads handed to the supervisor: {[revision, config]}
          running,     \* what the service runs: config, tracker, disabled
          served, drops, edits

storeVars == <<disk, lock, req, writes, reserved, started, running, served, drops, edits>>

-----------------------------------------------------------------------------
Sections == {"users", "enabled", "limits", "general"}

Rows == [Users -> 0..2]

Tables == [Sections -> Rows]

Configured(cfg) == {u \in Users : cfg["users"][u] # 0}

Disabled(cfg) == {u \in Users : cfg["enabled"][u] # 0}

\* validate: the one cross-field rule a user mutation can break.
validate(cfg) == Configured(cfg) # {}

Unchanged == -2

Remove == -1

\* One field of a merge patch: leave the row, drop it, or set it.
PatchRow(table, u, change) ==
    CASE change = Unchanged -> table
      [] change = Remove    -> [table EXCEPT ![u] = 0]
      [] OTHER              -> [table EXCEPT ![u] = change]

Touched(op) ==
    {s \in {"users", "limits", "enabled"} :
        \/ s = "users" /\ op.secret # Unchanged
        \/ s = "limits" /\ op.limit # Unchanged
        \/ s = "enabled" /\ op.enabled # Unchanged}

Patched(cfg, op) ==
    [s \in Sections |->
        CASE s = "users"   -> PatchRow(cfg[s], op.user, op.secret)
          [] s = "limits"  -> PatchRow(cfg[s], op.user, op.limit)
          [] s = "enabled" -> PatchRow(cfg[s], op.user, op.enabled)
          [] OTHER         -> cfg[s]]

Answer(code, cfg, touched) == [code |-> code, cfg |-> cfg, touched |-> touched]

create_user(cfg, op) ==
    IF op.user \in Configured(cfg)
    THEN Answer("user_exists", cfg, {})
    ELSE Answer("ok", Patched(cfg, op), Touched(op))

patch_user(cfg, op) ==
    IF op.user \notin Configured(cfg)
    THEN Answer("not_found", cfg, {})
    ELSE Answer("ok", Patched(cfg, op), Touched(op))

rotate_secret(cfg, op) ==
    IF op.user \notin Configured(cfg)
    THEN Answer("not_found", cfg, {})
    ELSE Answer("ok", Patched(cfg, op), {"users"})

set_user_enabled(cfg, op) ==
    IF op.user \notin Configured(cfg)
    THEN Answer("not_found", cfg, {})
    ELSE Answer("ok", Patched(cfg, op), {"enabled"})

delete_user(cfg, op) ==
    LET mine == {s \in {"users", "enabled", "limits"} : cfg[s][op.user] # 0} IN
    IF op.user \notin Configured(cfg)
    THEN Answer("not_found", cfg, {})
    ELSE IF Cardinality(Configured(cfg)) <= 1
    THEN Answer("last_user_forbidden", cfg, {})
    ELSE Answer("ok", [s \in Sections |->
                          IF s \in mine THEN [cfg[s] EXCEPT ![op.user] = 0]
                                        ELSE cfg[s]], mine)

\* A config patch: access is refused, and so is a section that may not be
\* edited; an editable one is merged into the effective configuration.
prepare_patch(cfg, op) ==
    CASE op.section = "access"     -> Answer("access_not_editable", cfg, {})
      [] op.section \notin {"access", "general"} -> Answer("section_not_editable", cfg, {})
      [] OTHER -> Answer("ok", [cfg EXCEPT !["general"] = [u \in Users |-> op.value]],
                         {"general"})

Handle(cfg, op) ==
    CASE op.kind = "create"  -> create_user(cfg, op)
      [] op.kind = "patch"   -> patch_user(cfg, op)
      [] op.kind = "rotate"  -> rotate_secret(cfg, op)
      [] op.kind = "switch"  -> set_user_enabled(cfg, op)
      [] op.kind = "delete"  -> delete_user(cfg, op)
      [] op.kind = "config"  -> prepare_patch(cfg, op)

\* The outcome of a request against a configuration, validation included.
Outcome(cfg, op) ==
    LET a == Handle(cfg, op) IN
    IF a.code = "ok" /\ ~validate(a.cfg) THEN Answer("invalid", cfg, {}) ELSE a

-----------------------------------------------------------------------------
Nobody == "nobody"

Free == "free"

Running == "running"

NoTable == [u \in Users |-> -1]

HasTable(text, s) == text[s] # NoTable

\* The files that hold a table; a table in two files is a duplicate key.
Holders(d, s) == {f \in Files : HasTable(d[f], s)}

Loads(d) == \A s \in Sections : Cardinality(Holders(d, s)) <= 1

\* The configuration the source graph renders to.
Loaded(d) ==
    [s \in Sections |->
        IF Holders(d, s) = {} THEN [u \in Users |-> 0]
        ELSE d[CHOOSE f \in Holders(d, s) : TRUE][s]]

LoadOk(d) == Loads(d) /\ validate(Loaded(d))

\* A revision digests every source's path and content: the sources themselves.
compute_source_revision(d) == d

NoOp == [kind |-> "none"]

Idle == [pc |-> "idle", op |-> NoOp, expected |-> <<>>, cfg |-> <<>>,
         touched |-> {}, file |-> "", text |-> <<>>, revision |-> <<>>]

StoreInit ==
    /\ disk = [f \in Files |-> [s \in Sections |->
                  IF Owner[s] = f THEN Start[s] ELSE NoTable]]
    /\ lock = Nobody
    /\ req = [r \in Reqs |-> Idle]
    /\ writes = {} /\ reserved = Free /\ started = {}
    /\ running = [config |-> Start, seen |-> Start, limits |-> Start["limits"],
                  tracker |-> Start["limits"], disabled |-> Disabled(Start)]
    /\ served = 0 /\ drops = 0 /\ edits = 0

At(r, pc) == req[r].pc = pc

Ends(r) == /\ req' = [req EXCEPT ![r] = Idle]
           /\ lock' = IF lock = r THEN Nobody ELSE lock

Goes(r, pc) == req' = [req EXCEPT ![r].pc = pc]

\* The handler's gate: API enabled, peer allowed, authorised, not read-only.
handle(r) ==
    /\ At(r, "idle") /\ served < MaxOps
    /\ served' = served + 1
    /\ \E gate \in Gates, op \in Ops, match \in Matches :
          req' = IF gate # "ok" THEN req
                 ELSE [req EXCEPT ![r] =
                         [Idle EXCEPT !.pc = "wait", !.op = op,
                                      !.expected = IF match
                                                   THEN compute_source_revision(disk)
                                                   ELSE <<>>]]
    /\ UNCHANGED <<disk, lock, writes, reserved, started, running, drops, edits>>

\* Variation: the guard is taken but not kept across the handler.
LockNotHeld(r) ==
    /\ At(r, "wait")
    /\ Goes(r, "load")
    /\ UNCHANGED <<disk, lock, writes, reserved, started, running, served, drops, edits>>

TakeLock(r) ==
    /\ At(r, "wait") /\ lock = Nobody
    /\ lock' = r
    /\ Goes(r, "load")
    /\ UNCHANGED <<disk, writes, reserved, started, running, served, drops, edits>>

\* load_config_from_disk
load_config_from_disk(r) ==
    /\ At(r, "load") /\ req[r].op.kind \notin {"reload", "config"}
    /\ IF LoadOk(disk)
       THEN /\ req' = [req EXCEPT ![r].cfg = Loaded(disk), ![r].pc = "match"]
            /\ UNCHANGED lock
       ELSE Ends(r)
    /\ UNCHANGED <<disk, writes, reserved, started, running, served, drops, edits>>

\* ensure_expected_revision reads the sources once more; the mutation then
\* works on the configuration loaded before.
ensure_expected_revision(r) ==
    LET a == Outcome(req[r].cfg, req[r].op) IN
    /\ At(r, "match")
    /\ IF /\ req[r].expected \in {<<>>, compute_source_revision(disk)}
          /\ a.code = "ok"
       THEN /\ req' = [req EXCEPT ![r].cfg = a.cfg, ![r].touched = a.touched,
                                  ![r].pc = IF a.touched = {} THEN "saved" ELSE "save"]
            /\ UNCHANGED lock
       ELSE Ends(r)
    /\ UNCHANGED <<disk, writes, reserved, started, running, served, drops, edits>>

\* access_section_is_empty keeps a table out unless some source has it.
Saved(d, cfg, touched) ==
    {s \in touched : (\E u \in Users : cfg[s][u] # 0) \/ Holders(d, s) # {}}

\* resolve_single_source_owner: tables nobody owns belong to the main file.
OwnersOf(d, sections) ==
    UNION {IF Holders(d, s) = {} THEN {"main"} ELSE Holders(d, s) : s \in sections}

\* upsert_toml_table over the tables being saved.
upsert(text, cfg, sections) ==
    [s \in Sections |-> IF s \in sections THEN cfg[s] ELSE text[s]]

\* What a save of these tables would write: one owner, and a candidate that
\* loads with every other source as it was read.
Plan(cfg, touched) ==
    LET kept == Saved(disk, cfg, touched)
        owners == OwnersOf(disk, kept)
        file == CHOOSE f \in owners : TRUE
        text == upsert(disk[file], cfg, kept)
    IN IF kept = {}
       THEN [code |-> "nothing"]
       ELSE IF Cardinality(owners) # 1
       THEN [code |-> "config_patch_not_atomic"]
       ELSE IF ~LoadOk([disk EXCEPT ![file] = text])
       THEN [code |-> "invalid"]
       ELSE [code |-> "ok", file |-> file, text |-> text]

Writes(r, plan) ==
    /\ req' = [req EXCEPT ![r].pc = "write", ![r].file = plan.file, ![r].text = plan.text,
                          ![r].revision = compute_source_revision(
                                              [disk EXCEPT ![plan.file] = plan.text])]
    /\ UNCHANGED lock

\* save_access_sections_to_disk up to the write; the sources are loaded again.
save_access_sections_to_disk(r) ==
    LET plan == Plan(req[r].cfg, req[r].touched) IN
    /\ At(r, "save")
    /\ IF LoadOk(disk) /\ plan.code = "ok" THEN Writes(r, plan)
       ELSE IF LoadOk(disk) /\ plan.code = "nothing"
       THEN Goes(r, "saved") /\ UNCHANGED lock
       ELSE Ends(r)
    /\ UNCHANGED <<disk, writes, reserved, started, running, served, drops, edits>>

\* patch_config up to the write: one snapshot serves the revision, the merge
\* and the save; a reload is reserved before the write when the running
\* configuration would change.
patch_config(r) ==
    LET a == Outcome(Loaded(disk), req[r].op)
        plan == Plan(a.cfg, a.touched)
        wantsReload == /\ req[r].op.reload
                       /\ a.cfg["general"] # running.config["general"]
    IN
    /\ At(r, "load") /\ req[r].op.kind = "config"
    /\ IF /\ LoadOk(disk) /\ req[r].expected \in {<<>>, compute_source_revision(disk)}
          /\ a.code = "ok" /\ plan.code = "ok"
          /\ wantsReload => reserved = Free
       THEN /\ Writes(r, plan)
            /\ reserved' = IF wantsReload THEN r ELSE reserved
       ELSE Ends(r) /\ UNCHANGED reserved
    /\ UNCHANGED <<disk, writes, started, running, served, drops, edits>>

\* The reservation is consumed after the rename, with the candidate.
Enqueue(r) ==
    IF reserved = r
    THEN /\ started' = started \cup {[revision |-> req[r].revision,
                                      config |-> Loaded([disk EXCEPT ![req[r].file] = req[r].text])]}
         /\ reserved' = Running
    ELSE UNCHANGED <<started, reserved>>

\* write_atomic: a temporary file of its own name, synced and renamed.
write_atomic(r) ==
    /\ At(r, "write")
    /\ disk' = [disk EXCEPT ![req[r].file] = req[r].text]
    /\ Enqueue(r)
    /\ Goes(r, "saved")
    /\ UNCHANGED <<lock, writes, running, served, drops, edits>>

\* The write fails: the temporary file is removed, the reservation cancelled.
WriteFails(r) ==
    /\ At(r, "write")
    /\ Ends(r)
    /\ reserved' = IF reserved = r THEN Free ELSE reserved
    /\ UNCHANGED <<disk, writes, started, running, served, drops, edits>>

Unlock(r) ==
    /\ At(r, "saved")
    /\ lock' = IF lock = r THEN Nobody ELSE lock
    /\ Goes(r, "apply")
    /\ UNCHANGED <<disk, writes, reserved, started, running, served, drops, edits>>

\* set_user_limit / remove_user_limit, set_user_enabled, after the lock.
ApplyToRuntime(op) ==
    LET deleted == op.kind = "delete"
        limit == IF deleted THEN Remove
                 ELSE IF op.kind \in {"create", "patch"} THEN op.limit ELSE Unchanged
        switched == IF deleted THEN Remove
                    ELSE IF op.kind \in {"create", "patch", "switch"} THEN op.enabled
                    ELSE Unchanged
    IN [running EXCEPT
          !.tracker = IF op.kind \in {"config", "rotate"} THEN @
                      ELSE PatchRow(@, op.user, limit),
          !.disabled = CASE switched = Unchanged -> @
                         [] switched = Remove    -> @ \ {op.user}
                         [] OTHER                -> @ \cup {op.user}]

Acknowledge(r) ==
    /\ At(r, "apply")
    /\ running' = ApplyToRuntime(req[r].op)
    /\ Ends(r)
    /\ UNCHANGED <<disk, writes, reserved, started, served, drops, edits>>

\* submit_reload_from_disk: revision and configuration are two reads.
ReloadRevision(r) ==
    /\ At(r, "load") /\ req[r].op.kind = "reload"
    /\ IF req[r].expected \in {<<>>, compute_source_revision(disk)}
       THEN /\ req' = [req EXCEPT ![r].revision = compute_source_revision(disk),
                                  ![r].pc = "submit"]
            /\ UNCHANGED lock
       ELSE Ends(r)
    /\ UNCHANGED <<disk, writes, reserved, started, running, served, drops, edits>>

submit_reload_from_disk(r) ==
    /\ At(r, "submit")
    /\ IF LoadOk(disk) /\ reserved = Free
       THEN /\ reserved' = Running
            /\ started' = started \cup {[revision |-> req[r].revision,
                                         config |-> Loaded(disk)]}
       ELSE UNCHANGED <<reserved, started>>
    /\ Ends(r)
    /\ UNCHANGED <<disk, writes, running, served, drops, edits>>

\* The supervisor finishes a reload: the new generation runs its config.
ReloadEnds ==
    /\ reserved = Running
    /\ reserved' = Free
    /\ UNCHANGED <<disk, lock, req, writes, started, running, served, drops, edits>>

\* The connection is lost or times out: the handler's future is dropped with
\* its guard and its reservation, but a blocking write runs to its end.
Drop(r) ==
    /\ ~At(r, "idle") /\ drops < MaxDrops
    /\ drops' = drops + 1
    /\ writes' = IF At(r, "write")
                 THEN writes \cup {[file |-> req[r].file, text |-> req[r].text]}
                 ELSE writes
    /\ reserved' = IF reserved = r THEN Free ELSE reserved
    /\ Ends(r)
    /\ UNCHANGED <<disk, started, running, served, edits>>

OrphanWrite ==
    /\ \E w \in writes :
          /\ disk' = [disk EXCEPT ![w.file] = w.text]
          /\ writes' = writes \ {w}
    /\ UNCHANGED <<lock, req, reserved, started, running, served, drops, edits>>

\* The config watcher publishes a changed configuration it can load.
Watcher ==
    /\ LoadOk(disk) /\ running.config # Loaded(disk)
    /\ running' = [running EXCEPT !.config = Loaded(disk)]
    /\ UNCHANGED <<disk, lock, req, writes, reserved, started, served, drops, edits>>

\* The IP-limit task: load_limits only when the published limits changed.
LimitTask ==
    /\ running.limits # running.config["limits"]
    /\ running' = [running EXCEPT !.limits = running.config["limits"],
                                  !.tracker = running.config["limits"]]
    /\ UNCHANGED <<disk, lock, req, writes, reserved, started, served, drops, edits>>

\* The user_enabled task: every published configuration.
EnabledTask ==
    /\ running.seen # running.config
    /\ running' = [running EXCEPT !.seen = running.config,
                                  !.disabled = Disabled(running.config)]
    /\ UNCHANGED <<disk, lock, req, writes, reserved, started, served, drops, edits>>

\* Something else rewrites a row of a file.
ExternalEdit ==
    /\ edits < MaxEdits
    /\ edits' = edits + 1
    /\ \E f \in Files, s \in Sections, u \in Users, v \in 0..2 :
          /\ HasTable(disk[f], s)
          /\ disk' = [disk EXCEPT ![f][s][u] = v]
    /\ UNCHANGED <<lock, req, writes, reserved, started, running, served, drops>>

Request(r) ==
    \/ TakeLock(r) \/ load_config_from_disk(r) \/ ensure_expected_revision(r)
    \/ save_access_sections_to_disk(r) \/ patch_config(r)
    \/ write_atomic(r) \/ WriteFails(r) \/ Unlock(r) \/ Acknowledge(r)
    \/ ReloadRevision(r) \/ submit_reload_from_disk(r)

StoreNext ==
    \/ \E r \in Reqs : handle(r) \/ Request(r) \/ Drop(r)
    \/ ReloadEnds \/ OrphanWrite
    \/ Watcher \/ LimitTask \/ EnabledTask
    \/ ExternalEdit

StoreSpec == StoreInit /\ [][StoreNext]_storeVars

----------------------------------------------------------------------------
\* What a request may carry.
Changes == {Unchanged, Remove} \cup 0..2

\* The fields of a request that its handler reads.
OpOK(op) ==
    \/ op.kind = "reload"
    \/ op.kind = "config" /\ op.value \in 0..2
    \/ /\ op.kind \in {"create", "patch", "rotate", "switch", "delete"}
       /\ op.user \in Users /\ op.secret \in Changes /\ op.limit \in Changes
       /\ op.enabled \in Changes
       /\ op.kind = "rotate" => op.limit = Unchanged /\ op.enabled = Unchanged
       /\ op.kind = "switch" => op.secret = Unchanged /\ op.limit = Unchanged

StoreConstants ==
    /\ IsFiniteSet(Users) /\ IsFiniteSet(Files) /\ "main" \in Files /\ Nobody \notin Reqs
    /\ \A op \in Ops : OpOK(op)
    /\ Start \in Tables /\ validate(Start)
    /\ \A s \in Sections : Owner[s] \in Files \/ Start[s] = [u \in Users |-> 0]

ASSUME StoreAssumption == StoreConstants

\* Nobody has dropped a handler and nothing else has edited the files.
Undisturbed == drops = 0 /\ edits = 0

----------------------------------------------------------------------------
Store == INSTANCE AtomicStore WITH table <- Loaded(disk)

\* A reload runs the configuration its revision names, though the revision is
\* computed in one step and the configuration loaded, or written, in another.
ReloadCarriesItsRevision == \A s \in started : s.config = Loaded(s.revision)

\* As long as nobody drops a handler or edits the files by hand: serialised
\* behind mutation_lock, the requests change the configuration one whole
\* mutation at a time, each applied to what the one before left, so that two
\* concurrent requests never lose each other's rows, whichever files own them;
\* and a reload runs what its revision names.
StoreIsAtomic ==
    /\ Store!Init
    /\ [][Undisturbed' => [Store!Next]_(Loaded(disk))]_storeVars
    /\ [](Undisturbed => ReloadCarriesItsRevision)
=============================================================================
