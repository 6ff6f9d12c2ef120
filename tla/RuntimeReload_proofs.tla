------------------------ MODULE RuntimeReload_proofs ------------------------
(***************************************************************************)
(* Reload and shutdown of the runtime leave nothing behind and keep the    *)
(* service up, for any set of listener addresses, any number of reloads,   *)
(* sessions and accept tasks that fail.                                    *)
(***************************************************************************)
EXTENDS RuntimeReload, WellFoundedInduction, TLAPS

(* The first address a transition or a shutdown stops is one of those      *)
(* still to be stopped.                                                    *)
LEMMA MinIsIn ==
  ASSUME NEW S \in SUBSET Addrs, S # {}
  PROVE  Min(S) \in S
<1>1. S \subseteq Nat
  BY ReloadAssumption
<1>2. PICK x \in S : \A y \in S : ~(<<y, x>> \in OpToRel(<, Nat))
  BY <1>1, NatLessThanWellFounded, WFMin, Zenon
<1>3. \A y \in S : ~(y < x)
  BY <1>1, <1>2, Zenon DEF OpToRel
<1>4. \A y \in S : x <= y
  BY <1>1, <1>3
<1> QED
  BY <1>4 DEF Min

LEMMA NoCommandIsNone == NoCommand \notin Commands /\ NoCommand.id = 0
  BY DEF NoCommand, Commands, Ids

LEMMA FirstGeneration == 1 \in Gens /\ Gens \subseteq Nat /\ Ids \subseteq Nat /\ 0 \notin Ids
  BY ReloadAssumption DEF Gens, Ids

LEMMA WaitingType ==
  /\ Waiting \in [pc : AtRest, cmd : Commands \cup {NoCommand}, old : Gens,
                  todo : SUBSET Addrs, stopped : SUBSET Addrs, last : BOOLEAN]
  /\ Waiting.pc = "idle" /\ Waiting.todo = {} /\ Waiting.stopped = {}
  BY FirstGeneration DEF Waiting, AtRest

LEMMA ReloadInitially == Init => ReloadInv
<1> SUFFICES ASSUME Init PROVE ReloadInv
  OBVIOUS
<1>1. PICK layout \in Layouts :
        /\ gens = [g \in Gens |-> IF g = 1 THEN NewGeneration(layout) ELSE NoGeneration]
        /\ acc = [a \in Addrs |-> IF a \in layout THEN Started ELSE Absent]
  BY DEF Init
<1>2. layout \in SUBSET Addrs
  BY DEF Layouts
<1>3. /\ gens \in [Gens -> [closed : BOOLEAN, cancelled : BOOLEAN, live : Nat,
                            background : BOOLEAN, listeners : SUBSET Addrs]]
      /\ \A g \in Gens : /\ gens[g].live = 0 /\ ~gens[g].closed /\ ~gens[g].cancelled
                         /\ gens[g].background <=> g = 1
      /\ gens[1].listeners = layout
  BY <1>1, <1>2, FirstGeneration, Zenon DEF NewGeneration, NoGeneration
<1>4. /\ acc \in [Addrs -> [pc : {"absent", "accept", "permit", "register", "spawn", "returned", "failed"},
                            gen : Gens \cup {0}]]
      /\ \A a \in Addrs : acc[a].pc \in {"absent", "accept"} /\ (acc[a].pc # "absent" <=> a \in layout)
  BY <1>1 DEF Started, Absent
<1>5. Slots = layout
  BY <1>2, <1>4 DEF Slots
<1>6. StateOK
  BY <1>3, <1>4, FirstGeneration, WaitingType, ReloadAssumption DEF Init, StateOK, Phases, Serving
<1>7. sup.pc = "idle" /\ chan.state = "free" /\ active = 1 /\ control.generation = 1 /\ control.in_progress = 0
      /\ control.next_id = 0 /\ shut = "run" /\ api = NoCommand /\ stopping = {}
  BY WaitingType DEF Init
<1>8. OneReload
  BY <1>7 DEF OneReload, AtRest, Retiring, Serving
<1>9. HandoverInv /\ ListenerInv
  BY <1>3, <1>4, <1>5, <1>7 DEF HandoverInv, ListenerInv, Building, Stopping
<1>10. ASSUME NEW g \in Gens PROVE GenerationInv(g)
  BY <1>3, <1>4, <1>7, FirstGeneration DEF GenerationInv, Gens, wait_for_registrations, Serving
<1> QED
  BY <1>6, <1>8, <1>9, <1>10 DEF ReloadInv

-----------------------------------------------------------------------------
(* What the generations and the accept tasks rely on does not read the     *)
(* control state, only the supervisor, the accept tasks and shutdown.      *)
LEMMA ServiceUntouched ==
  ASSUME HandoverInv /\ ListenerInv /\ \A g \in Gens : GenerationInv(g),
         UNCHANGED <<sup, active, gens, acc, stopping, shut>>
  PROVE  (HandoverInv /\ ListenerInv /\ \A g \in Gens : GenerationInv(g))'
  BY DEF HandoverInv, ListenerInv, GenerationInv, Emptied, wait_for_registrations, Candidate, Slots

LEMMA ApiKeeps ==
  ASSUME ReloadInv, ApiStep \/ \E mode \in {"instant", "drain"}, policy \in {"keep_new", "rollback"}, layout \in Layouts :
                                 reserve(mode, policy, layout)
  PROVE  ReloadInv'
<1>1. UNCHANGED <<sup, active, gens, acc, stopping, shut>>
  BY DEF ApiStep, enqueue, cancel_reservation, reserve
<1>2. (HandoverInv /\ ListenerInv /\ \A g \in Gens : GenerationInv(g))'
  BY <1>1, ServiceUntouched DEF ReloadInv
<1>3. StateOK /\ OneReload
  BY DEF ReloadInv
<1>4. CASE enqueue
  <2>1. api \in Commands /\ chan' = [state |-> "full", cmd |-> api] /\ api' = NoCommand /\ UNCHANGED <<control, status>>
    BY <1>3, <1>4 DEF enqueue, StateOK
  <2>2. chan.state = "reserved" /\ Holds(api) /\ sup.pc \in AtRest
    BY <1>3, <1>4 DEF enqueue, OneReload
  <2>3. StateOK'
    BY <1>1, <1>3, <2>1 DEF StateOK
  <2>4. OneReload'
    BY <1>1, <1>3, <2>1, <2>2 DEF OneReload, Holds
  <2> QED
    BY <1>2, <2>3, <2>4 DEF ReloadInv
<1>5. CASE cancel_reservation
  <2>1. api \in Commands /\ api.id \in Ids
    BY <1>3, <1>5 DEF cancel_reservation, StateOK, Commands
  <2>2. chan.state = "reserved" /\ Holds(api) /\ sup.pc \in AtRest
    BY <1>3, <1>5 DEF cancel_reservation, OneReload
  <2>3. /\ control' = [control EXCEPT !.in_progress = 0] /\ status' = [status EXCEPT ![api.id] = "none"]
        /\ chan' = [chan EXCEPT !.state = "free"] /\ api' = NoCommand
    BY <1>3, <1>5, <2>2 DEF cancel_reservation, Holds, StateOK
  <2>4. StateOK'
    BY <1>1, <1>3, <2>1, <2>3, ReloadAssumption DEF StateOK, Phases
  <2>5. control.in_progress # 0
    BY <2>1, <2>2, FirstGeneration DEF Holds
  <2>6. OneReload'
    BY <1>1, <1>3, <2>2, <2>3, <2>5, FirstGeneration DEF OneReload, Holds, StateOK
  <2> QED
    BY <1>2, <2>4, <2>6 DEF ReloadInv
<1>6. ASSUME NEW mode \in {"instant", "drain"}, NEW policy \in {"keep_new", "rollback"}, NEW layout \in Layouts,
             reserve(mode, policy, layout)
      PROVE  ReloadInv'
  <2> DEFINE id == control.next_id + 1
             cmd == [id |-> id, target |-> control.generation + 1, mode |-> mode,
                     policy |-> policy, listeners |-> layout]
  <2>1. /\ api = NoCommand /\ chan.state = "free" /\ control.in_progress = 0 /\ control.next_id < MaxReloads
        /\ control' = [control EXCEPT !.in_progress = id, !.next_id = id]
        /\ status' = [status EXCEPT ![id] = "accepted"] /\ api' = cmd /\ chan' = [chan EXCEPT !.state = "reserved"]
    BY <1>6 DEF reserve, StoreAccepts
  <2>2. id \in Ids /\ id \in 1..MaxReloads /\ control.generation + 1 \in Gens
    BY <1>3, <2>1, ReloadAssumption DEF StateOK, OneReload, Ids, Gens
  <2>3. cmd \in Commands /\ cmd.id = id /\ cmd.target = control.generation + 1
    BY <2>2 DEF Commands
  <2> HIDE DEF cmd
  <2> HIDE DEF id
  <2>a. control \in [accepting : BOOLEAN, in_progress : 0..MaxReloads, next_id : 0..MaxReloads, generation : Gens]
    BY <1>3 DEF StateOK
  <2>b. id \in 0..MaxReloads
    BY <2>2, ReloadAssumption
  <2>4. control' \in [accepting : BOOLEAN, in_progress : 0..MaxReloads, next_id : 0..MaxReloads, generation : Gens]
        /\ control'.in_progress = id /\ control'.next_id = id /\ control'.generation = control.generation
    BY <2>1, <2>a, <2>b, Zenon
  <2>5. StateOK'
    BY <1>1, <1>3, <2>1, <2>2, <2>3, <2>4 DEF StateOK, Phases
  <2>6. sup.pc \in AtRest
    <3>1. sup.pc \notin AtRest => sup.cmd \in Commands /\ sup.cmd.id = 0
      BY <1>3, <2>1 DEF OneReload, Holds
    <3> QED
      BY <3>1, FirstGeneration DEF Commands
  <2>7. OneReload'
    BY <1>1, <1>3, <2>1, <2>2, <2>3, <2>4, <2>6, NoCommandIsNone, FirstGeneration DEF OneReload, Holds, StateOK, id
  <2> QED
    BY <1>2, <2>5, <2>7 DEF ReloadInv
<1> QED
  BY <1>4, <1>5, <1>6 DEF ApiStep

-----------------------------------------------------------------------------
(* An accept task moves.  It registers only with a generation that is not  *)
(* closed, so never with one that was replaced.                            *)
TaskStates ==
  [pc : {"absent", "accept", "permit", "register", "spawn", "returned", "failed"}, gen : Gens \cup {0}]

GenStates ==
  [closed : BOOLEAN, cancelled : BOOLEAN, live : Nat, background : BOOLEAN, listeners : SUBSET Addrs]

LEMMA TaskMoves ==
  ASSUME ReloadInv, NEW a \in Addrs, NEW r \in TaskStates,
         acc' = [acc EXCEPT ![a] = r], acc[a].pc # "absent", r.pc # "absent",
         r.pc = "returned" => a \in stopping,
         r.pc \in {"permit", "register", "spawn"} => r.gen \in 1..active,
         r.pc = "spawn" => r.gen \in 1..active /\ ~gens[r.gen].closed,
         UNCHANGED <<control, status, chan, api, sup, active, gens, stopping, shut>>
  PROVE  ReloadInv'
<1>1. StateOK /\ OneReload /\ HandoverInv /\ ListenerInv /\ \A g \in Gens : GenerationInv(g)
  BY DEF ReloadInv
<1>2. acc \in [Addrs -> TaskStates] /\ acc' \in [Addrs -> TaskStates]
      /\ \A b \in Addrs : acc'[b] = IF b = a THEN r ELSE acc[b]
  BY <1>1 DEF StateOK, TaskStates
<1>3. StateOK' /\ OneReload'
  BY <1>1, <1>2 DEF StateOK, OneReload, Holds, TaskStates
<1>4. Slots' = Slots
  BY <1>2 DEF Slots
<1>5. ListenerInv'
  BY <1>1, <1>2, <1>4 DEF ListenerInv, Candidate
<1>6. \A g \in Gens : g > active \/ gens[g].closed => (wait_for_registrations(g) => wait_for_registrations(g)')
  <2> SUFFICES ASSUME NEW g \in Gens, g > active \/ gens[g].closed, wait_for_registrations(g),
                      NEW b \in Addrs, acc'[b].pc = "spawn"
               PROVE  acc'[b].gen # g
    BY DEF wait_for_registrations
  <2>1. CASE b # a
    BY <1>2, <2>1 DEF wait_for_registrations
  <2>2. CASE b = a
    <3>1. r.gen \in 1..active /\ ~gens[r.gen].closed
      BY <1>2, <2>2
    <3>2. g \in Nat /\ active \in Nat
      BY <1>1, FirstGeneration DEF StateOK
    <3> QED
      BY <1>2, <2>2, <3>1, <3>2
  <2> QED
    BY <2>1, <2>2
<1>7. HandoverInv'
  <2>a. control.generation \in Nat /\ sup.old \in Gens
    BY <1>1, FirstGeneration, Zenon DEF StateOK
  <2>b. sup.pc = "draining" => sup.old = control.generation /\ active = control.generation + 1
    BY <1>1 DEF OneReload, Retiring, AtRest
  <2>1. sup.pc = "draining" => sup.old \in Gens /\ sup.old < active
    BY <2>a, <2>b
  <2>2. sup.pc = "draining" => gens[sup.old].closed
    BY <1>1, <2>1 DEF GenerationInv
  <2> QED
    BY <1>1, <1>6, <2>1, <2>2 DEF HandoverInv, Candidate
<1>8. ASSUME NEW g \in Gens PROVE GenerationInv(g)'
  <2>1. GenerationInv(g)
    BY <1>1
  <2>2. g \in Nat /\ active \in Nat
    BY <1>1, FirstGeneration DEF StateOK
  <2> QED
    BY <1>6, <2>1, <2>2 DEF GenerationInv, Emptied, Candidate
<1> QED
  BY <1>3, <1>5, <1>7, <1>8 DEF ReloadInv

(* A session starts or ends: only the count of its generation changes, and *)
(* it grows only where a registration was under way.                       *)
LEMMA SessionCounts ==
  ASSUME ReloadInv, NEW h \in Gens, NEW n \in Nat, gens' = [gens EXCEPT ![h].live = n],
         \/ acc' = acc /\ gens[h].live # 0
         \/ \E a \in Addrs : acc[a].pc = "spawn" /\ acc[a].gen = h /\ acc' = [acc EXCEPT ![a] = Started],
         UNCHANGED <<control, status, chan, api, sup, active, stopping, shut>>
  PROVE  ReloadInv'
<1>1. StateOK /\ OneReload /\ HandoverInv /\ ListenerInv /\ \A g \in Gens : GenerationInv(g)
  BY DEF ReloadInv
<1>2. gens \in [Gens -> GenStates] /\ acc \in [Addrs -> TaskStates]
  BY <1>1 DEF StateOK, GenStates, TaskStates
<1>3. /\ gens' \in [Gens -> GenStates]
      /\ \A g \in Gens : /\ gens'[g].closed = gens[g].closed /\ gens'[g].cancelled = gens[g].cancelled
                         /\ gens'[g].background = gens[g].background /\ gens'[g].listeners = gens[g].listeners
                         /\ g # h => gens'[g].live = gens[g].live
  BY <1>2 DEF GenStates
<1>4. /\ acc' \in [Addrs -> TaskStates]
      /\ \A b \in Addrs : acc'[b] = acc[b] \/ (acc[b].pc = "spawn" /\ acc'[b].pc = "accept")
  BY <1>2 DEF TaskStates, Started
<1>5. StateOK' /\ OneReload'
  BY <1>1, <1>3, <1>4 DEF StateOK, OneReload, Holds, TaskStates, GenStates
<1>6. Slots' = Slots
  BY <1>4 DEF Slots
<1>7. sup.old \in Gens /\ active \in Gens /\ (sup.pc \notin AtRest => Candidate \in Gens)
  BY <1>1 DEF StateOK, OneReload, Holds, Commands, Candidate
<1>8. ListenerInv'
  BY <1>1, <1>3, <1>4, <1>6, <1>7 DEF ListenerInv, Candidate, Stopping, AtRest
<1>9. \A g \in Gens : wait_for_registrations(g) => wait_for_registrations(g)'
  BY <1>4 DEF wait_for_registrations
<1>10. gens[h].live # 0 \/ ~wait_for_registrations(h)
  BY DEF wait_for_registrations
<1>11. HandoverInv'
  BY <1>1, <1>3, <1>7, <1>9 DEF HandoverInv, Candidate, Building, AtRest
<1>12. ASSUME NEW g \in Gens PROVE GenerationInv(g)'
  BY <1>1, <1>3, <1>9, <1>10 DEF GenerationInv, Emptied, Candidate
<1> QED
  BY <1>5, <1>8, <1>11, <1>12 DEF ReloadInv

LEMMA AcceptKeeps ==
  ASSUME ReloadInv, NEW a \in Addrs, Accept(a) \/ AcceptorStep(a) \/ PermitTimedOut(a) \/ TaskFails(a)
  PROVE  ReloadInv'
<1>1. /\ acc \in [Addrs -> TaskStates] /\ active \in Gens /\ active \in 1..active
      /\ gens \in [Gens -> GenStates] /\ Started \in TaskStates /\ Started.pc = "accept" /\ 1..active \subseteq Gens
  BY ReloadAssumption DEF ReloadInv, StateOK, TaskStates, GenStates, Started, Gens
<1>2. acc[a].pc \in {"permit", "register", "spawn"} => acc[a].gen \in 1..active
  BY DEF ReloadInv, ListenerInv
<1>3. UNCHANGED <<control, status, chan, api, sup, active, stopping, shut>>
  BY DEF Accept, AcceptorStep, PermitTimedOut, TaskFails, PermitAcquired, LoopReturns, try_register, spawn_session,
         accepting
<1>4. CASE Accept(a)
  <2> DEFINE r == [pc |-> "permit", gen |-> active]
  <2>1. r \in TaskStates /\ r.pc = "permit" /\ r.gen = active
    BY <1>1 DEF TaskStates
  <2>2. acc' = [acc EXCEPT ![a] = r] /\ acc[a].pc # "absent" /\ gens' = gens
    BY <1>4 DEF Accept
  <2> HIDE DEF r
  <2> QED
    BY <1>1, <1>3, <2>1, <2>2, TaskMoves, Zenon
<1>5. CASE PermitAcquired(a)
  <2> DEFINE r == [acc[a] EXCEPT !.pc = "register"]
  <2>1. r \in TaskStates /\ r.pc = "register" /\ r.gen = acc[a].gen
    BY <1>1 DEF TaskStates
  <2>2. acc' = [acc EXCEPT ![a] = r] /\ acc[a].pc = "permit" /\ gens' = gens
    BY <1>1, <1>5 DEF PermitAcquired, MoveTo
  <2> HIDE DEF r
  <2> QED
    BY <1>2, <1>3, <2>1, <2>2, TaskMoves, Zenon
<1>6. CASE PermitTimedOut(a)
  BY <1>1, <1>3, <1>6, TaskMoves, Zenon DEF PermitTimedOut
<1>7. CASE LoopReturns(a)
  <2> DEFINE r == [pc |-> "returned", gen |-> 0]
  <2>1. r \in TaskStates /\ r.pc = "returned"
    BY DEF TaskStates
  <2>2. acc' = [acc EXCEPT ![a] = r] /\ acc[a].pc # "absent" /\ gens' = gens /\ a \in stopping
    BY <1>7 DEF LoopReturns
  <2> HIDE DEF r
  <2> QED
    BY <1>3, <2>1, <2>2, TaskMoves, Zenon
<1>8. CASE TaskFails(a)
  <2> DEFINE r == [pc |-> "failed", gen |-> 0]
  <2>1. r \in TaskStates /\ r.pc = "failed"
    BY DEF TaskStates
  <2>2. acc' = [acc EXCEPT ![a] = r] /\ acc[a].pc # "absent" /\ gens' = gens
    BY <1>8 DEF TaskFails
  <2> HIDE DEF r
  <2> QED
    BY <1>3, <2>1, <2>2, TaskMoves, Zenon
<1>9. CASE try_register(a)
  <2> DEFINE r == IF gens[acc[a].gen].closed THEN Started ELSE [acc[a] EXCEPT !.pc = "spawn"]
  <2>1. /\ r \in TaskStates /\ r.pc \in {"accept", "spawn"}
        /\ r.pc = "spawn" => r.gen = acc[a].gen /\ ~gens[acc[a].gen].closed
    BY <1>1 DEF TaskStates
  <2>2. acc' = [acc EXCEPT ![a] = r] /\ acc[a].pc = "register" /\ gens' = gens
    BY <1>1, <1>9 DEF try_register
  <2> HIDE DEF r
  <2> QED
    BY <1>2, <1>3, <2>1, <2>2, TaskMoves, Zenon
<1>10. CASE spawn_session(a)
  <2> DEFINE h == acc[a].gen
  <2>1. acc[a].pc = "spawn" /\ h \in Gens /\ gens[h].live \in Nat
    BY <1>1, <1>2, <1>10 DEF spawn_session, GenStates
  <2>2. gens' = [gens EXCEPT ![h].live = gens[h].live + 1] /\ acc' = [acc EXCEPT ![a] = Started]
    BY <1>1, <1>10, <2>1 DEF spawn_session, GenStates
  <2>3. gens[h].live + 1 \in Nat
    BY <2>1
  <2>4. \E b \in Addrs : acc[b].pc = "spawn" /\ acc[b].gen = h /\ acc' = [acc EXCEPT ![b] = Started]
    BY <2>1, <2>2, Zenon
  <2> HIDE DEF h
  <2> QED
    BY <1>3, <2>1, <2>2, <2>3, <2>4, SessionCounts, Zenon
<1> QED
  BY <1>4, <1>5, <1>6, <1>7, <1>8, <1>9, <1>10 DEF AcceptorStep

LEMMA SessionEndsKeeps ==
  ASSUME ReloadInv, NEW g \in Gens, SessionEnds(g)
  PROVE  ReloadInv'
<1>1. gens \in [Gens -> GenStates] /\ gens[g].live \in Nat
  BY DEF ReloadInv, StateOK, GenStates
<1>2. gens[g].live - 1 \in Nat /\ gens[g].live # 0 /\ gens' = [gens EXCEPT ![g].live = gens[g].live - 1]
  BY <1>1 DEF SessionEnds, GenStates
<1> QED
  BY <1>2, SessionCounts, Zenon DEF SessionEnds, accepting

-----------------------------------------------------------------------------
(* The supervisor while it has a reload in hand.                           *)

SupStates ==
  [pc : AtRest \cup {"preparing"} \cup Building \cup Retiring, cmd : Commands \cup {NoCommand},
   old : Gens, todo : SUBSET Addrs, stopped : SUBSET Addrs, last : BOOLEAN]

ControlStates ==
  [accepting : BOOLEAN, in_progress : 0..MaxReloads, next_id : 0..MaxReloads, generation : Gens]

LEMMA Parts ==
  ASSUME ReloadInv
  PROVE  /\ StateOK /\ OneReload /\ HandoverInv /\ ListenerInv /\ \A g \in Gens : GenerationInv(g)
         /\ control \in ControlStates /\ sup \in SupStates
         /\ gens \in [Gens -> GenStates] /\ acc \in [Addrs -> TaskStates]
         /\ active \in Gens /\ active \in Nat /\ control.generation \in Nat
  BY FirstGeneration, Zenon DEF ReloadInv, StateOK, ControlStates, SupStates, GenStates, TaskStates

LEMMA InHand ==
  ASSUME ReloadInv, sup.pc \notin AtRest
  PROVE  /\ Command \in Commands /\ Command.id \in Ids /\ Command.id = control.in_progress
         /\ control.in_progress # 0 /\ Command.listeners \in SUBSET Addrs
         /\ Candidate \in Gens /\ Candidate = control.generation + 1
         /\ sup.old \in Gens /\ sup.old = control.generation /\ sup.old # Candidate /\ sup.old < Candidate
         /\ active = IF sup.pc \in Retiring THEN Candidate ELSE sup.old
         /\ shut \in Serving /\ api = NoCommand /\ chan.state = "free"
<1>1. Holds(sup.cmd) /\ sup.old = control.generation /\ shut \in Serving /\ chan.state = "free" /\ api = NoCommand
      /\ active = control.generation + (IF sup.pc \in Retiring THEN 1 ELSE 0)
  BY Parts DEF OneReload, AtRest, StateOK
<1>2. Command \in Commands /\ Command.id = control.in_progress /\ Candidate = control.generation + 1
  BY <1>1 DEF Holds, Candidate, Command
<1>3. Command.id \in Ids /\ Candidate \in Gens /\ Command.listeners \in SUBSET Addrs
  BY <1>2 DEF Commands, Candidate, Command, Layouts
<1>4. control.generation \in Nat /\ sup.old \in Gens
  BY Parts DEF SupStates
<1> QED
  BY <1>1, <1>2, <1>3, <1>4, FirstGeneration

(* The parts of the invariant that hold of every step of the supervisor    *)
(* that leaves the control state alone.                                    *)
LEMMA SameReload ==
  ASSUME ReloadInv, sup' \in SupStates, sup'.cmd = sup.cmd, sup'.old = sup.old,
         sup.pc \notin AtRest, sup'.pc \notin AtRest,
         active' = control.generation + (IF sup'.pc \in Retiring THEN 1 ELSE 0),
         UNCHANGED <<control, chan, api, shut>>
  PROVE  OneReload'
  BY Parts, InHand DEF OneReload, Holds

(* A step that only moves the supervisor's position, short of the accept   *)
(* tasks and of the swap.                                                  *)
LEMMA PositionMoves ==
  ASSUME ReloadInv, NEW p \in AtRest \cup {"preparing"} \cup Building \cup Retiring,
         sup' = [sup EXCEPT !.pc = p], status' \in [Ids -> Phases],
         UNCHANGED <<control, chan, api, active, gens, acc, stopping, shut>>,
         sup.pc \in AtRest <=> p \in AtRest, sup.pc \in Building <=> p \in Building,
         sup.pc \in Retiring <=> p \in Retiring, sup.pc \notin Stopping, p \notin Stopping \cup {"succeed"},
         shut \notin Serving => p = "exited",
         p = "draining" => wait_for_registrations(sup.old),
         p \in {"drain", "draining", "retire"} \/ sup.pc \notin {"drain", "draining", "retire"} \/ Emptied(sup.old)
  PROVE  ReloadInv'
<1>1. sup' \in SupStates /\ sup'.pc = p /\ sup'.cmd = sup.cmd /\ sup'.old = sup.old
  BY Parts DEF SupStates
<1>2. StateOK'
  BY <1>1, Parts, Zenon DEF StateOK, SupStates
<1>3. OneReload'
  BY <1>1, Parts DEF OneReload, Holds
<1>4. HandoverInv'
  BY <1>1, Parts DEF HandoverInv, Candidate, wait_for_registrations
<1>5. ListenerInv'
  BY <1>1, Parts DEF ListenerInv, Candidate, Slots, Stopping
<1>6. ASSUME NEW g \in Gens PROVE GenerationInv(g)'
  <2>1. GenerationInv(g)
    BY Parts
  <2>2. Emptied(g) => Emptied(g)'
    BY DEF Emptied, wait_for_registrations
  <2>3. g > active => GenerationInv(g)'
    BY <1>1, <2>1, Parts, FirstGeneration DEF GenerationInv, Candidate, wait_for_registrations
  <2>4. g = active => GenerationInv(g)'
    BY <1>1, <2>1, Parts, FirstGeneration DEF GenerationInv, Stopping
  <2>5. g < active => GenerationInv(g)'
    BY <1>1, <2>1, <2>2, Parts, FirstGeneration DEF GenerationInv, Stopping, Retiring
  <2> QED
    BY <2>3, <2>4, <2>5, Parts, FirstGeneration
<1> QED
  BY <1>2, <1>3, <1>4, <1>5, <1>6 DEF ReloadInv

(* A reload that ends without a swap: the candidate is stopped and the old *)
(* generation serves on, with the accept tasks it had.                     *)
LEMMA ReloadEnds ==
  ASSUME ReloadInv, sup.pc \in {"preparing", "gate", "dns", "listeners", "join"},
         NEW phase \in Terminal, Finish(phase),
         gens' \in [Gens -> GenStates], \A g \in Gens \ {Candidate} : gens'[g] = gens[g],
         gens'[Candidate].live = gens[Candidate].live,
         gens'[Candidate].background => gens' = gens /\ sup.pc = "preparing",
         acc' \in [Addrs -> TaskStates], Slots' = Slots, stopping' = {},
         \A a \in Addrs : acc'[a] = acc[a] \/ acc'[a].pc = "accept",
         \A a \in Addrs : acc'[a].pc # "returned",
         UNCHANGED <<chan, api, active, shut>>
  PROVE  ReloadInv'
<1>1. sup.pc \notin AtRest /\ sup.pc \notin Retiring
  BY DEF AtRest, Retiring
<1>2. /\ status' = [status EXCEPT ![Command.id] = phase]
      /\ control' = [control EXCEPT !.in_progress = 0] /\ sup' = LoopAgain
  BY <1>1, InHand, Parts DEF Finish, ControlStates
<1>3. sup' \in SupStates /\ sup'.pc \in AtRest /\ sup'.pc \in {"idle", "exited"}
  BY <1>2, WaitingType DEF LoopAgain, SupStates, AtRest
<1>4. control' \in ControlStates /\ control'.generation = control.generation /\ control'.next_id = control.next_id
      /\ control'.in_progress = 0
  BY <1>2, Parts, ReloadAssumption DEF ControlStates
<1>5. status' \in [Ids -> Phases]
  BY <1>1, <1>2, InHand, Parts, Zenon DEF StateOK, Phases
<1>6. StateOK'
  BY <1>3, <1>4, <1>5, Parts, Zenon DEF StateOK, SupStates, ControlStates, GenStates, TaskStates
<1>7. control.generation <= control.next_id /\ control.next_id \in Nat
  BY <1>1, InHand, Parts, ReloadAssumption DEF OneReload, ControlStates
<1>8. OneReload'
  BY <1>1, <1>3, <1>4, <1>7, InHand, Parts DEF OneReload, Retiring, AtRest
<1>9. HandoverInv'
  BY <1>3 DEF HandoverInv, AtRest, Building
<1>10. \A a \in Addrs : acc'[a].pc \in {"permit", "register", "spawn"} => acc'[a] = acc[a]
  BY Zenon
<1>11. ListenerInv'
  <2>1. gens'[active].listeners = gens[active].listeners
    BY <1>1, InHand, Zenon
  <2>2. Slots' = gens'[active].listeners
    BY <1>1, <2>1, Parts, InHand, Zenon DEF ListenerInv, Retiring
  <2> QED
    BY <1>1, <1>3, <1>10, <2>2, Parts, InHand, Zenon DEF ListenerInv, Stopping, Serving
<1>12. ASSUME NEW g \in Gens PROVE GenerationInv(g)'
  <2>1. GenerationInv(g) /\ active = sup.old /\ Candidate > active /\ g \in Nat /\ active \in Nat
    BY <1>1, InHand, Parts, FirstGeneration, Zenon
  <2>2. wait_for_registrations(g) => wait_for_registrations(g)'
    BY <1>10, Zenon DEF wait_for_registrations
  <2>3. g > active => GenerationInv(g)'
    BY <1>1, <1>3, <2>1, <2>2 DEF GenerationInv, Building
  <2>4. g = active => GenerationInv(g)'
    BY <1>1, <1>3, <2>1 DEF GenerationInv
  <2>5. g < active => GenerationInv(g)'
    BY <1>1, <1>3, <2>1, <2>2 DEF GenerationInv, Emptied, Retiring
  <2> QED
    BY <2>1, <2>3, <2>4, <2>5
<1> QED
  BY <1>6, <1>8, <1>9, <1>11, <1>12 DEF ReloadInv

(* While nothing is being stopped the accept tasks are all running.        *)
LEMMA NothingStopping ==
  ASSUME ReloadInv, sup.pc \notin AtRest, sup.pc \notin Stopping
  PROVE  stopping = {} /\ \A a \in Addrs : acc[a].pc # "returned"
  BY Parts, InHand DEF ListenerInv

LEMMA CleanupStops ==
  ASSUME ReloadInv, sup.pc \notin AtRest
  PROVE  LET cleaned == cleanup_candidate(Candidate) IN
         /\ cleaned \in [Gens -> GenStates] /\ \A g \in Gens \ {Candidate} : cleaned[g] = gens[g]
         /\ cleaned[Candidate].live = gens[Candidate].live /\ ~cleaned[Candidate].background
<1> DEFINE c == Candidate
           g1 == [gens EXCEPT ![c].closed = TRUE]
           g2 == [g1 EXCEPT ![c].cancelled = TRUE]
           g3 == [g2 EXCEPT ![c].background = FALSE]
<1>1. c \in Gens /\ gens \in [Gens -> GenStates]
  BY Parts, InHand
<1> HIDE DEF c
<1>2. g1 \in [Gens -> GenStates] /\ (\A g \in Gens \ {c} : g1[g] = gens[g]) /\ g1[c].live = gens[c].live
  BY <1>1, Zenon DEF GenStates
<1> HIDE DEF g1
<1>3. g2 \in [Gens -> GenStates] /\ (\A g \in Gens \ {c} : g2[g] = g1[g]) /\ g2[c].live = g1[c].live
  BY <1>1, <1>2, Zenon DEF GenStates
<1> HIDE DEF g2
<1>4. g3 \in [Gens -> GenStates] /\ (\A g \in Gens \ {c} : g3[g] = g2[g]) /\ g3[c].live = g2[c].live
      /\ ~g3[c].background
  BY <1>1, <1>3, Zenon DEF GenStates
<1>5. cleanup_candidate(Candidate) = g3
  BY DEF cleanup_candidate, g1, g2, c
<1> HIDE DEF g3
<1> QED
  BY <1>2, <1>3, <1>4, <1>5 DEF c

LEMMA ReceiveKeeps ==
  ASSUME ReloadInv, NEW last \in BOOLEAN, Receive("idle", last) \/ Receive("last", last)
  PROVE  ReloadInv'
<1>1. /\ sup.pc \in {"idle", "last"} /\ chan.state = "full"
      /\ sup' = [sup EXCEPT !.pc = "preparing", !.cmd = chan.cmd, !.old = active, !.last = last]
      /\ chan' = [state |-> "free", cmd |-> NoCommand] /\ status' = [status EXCEPT ![chan.cmd.id] = "preparing"]
      /\ UNCHANGED <<control, api, active, gens, acc, stopping, shut>>
  BY DEF Receive
<1>2. Holds(chan.cmd) /\ active = control.generation /\ api = NoCommand /\ shut \in Serving
  BY <1>1, Parts DEF OneReload, Retiring, StateOK
<1>3. chan.cmd \in Commands /\ chan.cmd.id \in Ids
  BY <1>2 DEF Holds, Commands
<1>4. sup' \in SupStates /\ sup'.pc = "preparing" /\ sup'.cmd = chan.cmd /\ sup'.old = active
  BY <1>1, <1>3, Parts, Zenon DEF SupStates
<1>5. StateOK'
  BY <1>1, <1>3, <1>4, Parts DEF StateOK, SupStates, Phases
<1>6. OneReload'
  BY <1>1, <1>2, <1>4, Parts DEF OneReload, Holds, AtRest, Retiring
<1>7. HandoverInv'
  BY <1>4 DEF HandoverInv, Building
<1>8. ListenerInv'
  BY <1>1, <1>4, Parts DEF ListenerInv, Stopping, Slots
<1>9. ASSUME NEW g \in Gens PROVE GenerationInv(g)'
  <2>1. GenerationInv(g)
    BY Parts
  <2> QED
    BY <1>1, <1>4, <2>1 DEF GenerationInv, Emptied, wait_for_registrations, Building, Retiring
<1> QED
  BY <1>5, <1>6, <1>7, <1>8, <1>9 DEF ReloadInv

LEMMA PrepareKeeps ==
  ASSUME ReloadInv, prepare_runtime
  PROVE  ReloadInv'
<1>1. sup.pc = "preparing" /\ UNCHANGED <<chan, api, active, acc, stopping, shut>>
  BY DEF prepare_runtime, supervised
<1>2. sup.pc \notin AtRest /\ sup.pc \notin Stopping /\ sup.pc \notin Retiring /\ sup.pc \notin Building
  BY <1>1 DEF AtRest, Stopping, Retiring, Building
<1>3. CASE Finish("failed") /\ UNCHANGED gens
  <2>1. "failed" \in Terminal /\ Slots' = Slots
    BY <1>1 DEF Terminal, Slots
  <2>2. stopping = {} /\ \A a \in Addrs : acc[a].pc # "returned"
    BY <1>2, NothingStopping
  <2> QED
    BY <1>1, <1>2, <1>3, <2>1, <2>2, Parts, ReloadEnds
<1>4. CASE /\ gens' = [gens EXCEPT ![Candidate] = NewGeneration(Command.listeners)]
           /\ sup' = [sup EXCEPT !.pc = "gate"]
           /\ UNCHANGED <<control, status>>
  <2> DEFINE new == NewGeneration(Command.listeners)
  <2>1. new \in GenStates /\ new.live = 0 /\ new.background /\ ~new.closed /\ ~new.cancelled
    BY <1>2, InHand, Zenon DEF NewGeneration, NoGeneration, GenStates
  <2> HIDE DEF new
  <2>2. gens' \in [Gens -> GenStates] /\ \A g \in Gens : gens'[g] = IF g = Candidate THEN new ELSE gens[g]
    BY <1>2, <1>4, <2>1, InHand, Parts DEF new
  <2>3. sup' \in SupStates /\ sup'.pc = "gate" /\ sup'.cmd = sup.cmd /\ sup'.old = sup.old
    BY <1>4, Parts DEF SupStates, Building
  <2>4. StateOK'
    BY <1>1, <1>4, <2>2, <2>3, Parts, Zenon DEF StateOK, SupStates, GenStates
  <2>5. active' = control.generation /\ sup'.pc \notin AtRest /\ sup'.pc \notin Retiring
    BY <1>1, <1>2, <2>3, InHand DEF AtRest, Retiring
  <2>6. OneReload'
    BY <1>1, <1>2, <1>4, <2>3, <2>5, Parts, SameReload
  <2>7. HandoverInv'
    BY <1>2, <2>1, <2>2, <2>3, InHand DEF HandoverInv, Candidate
  <2>8. ListenerInv'
    BY <1>1, <1>2, <2>2, <2>3, Parts, InHand DEF ListenerInv, Stopping, Slots
  <2>9. ASSUME NEW g \in Gens PROVE GenerationInv(g)'
    <3>1. GenerationInv(g) /\ active = sup.old /\ Candidate > active /\ Candidate' = Candidate /\ g \in Nat /\ sup.old \in Nat
      BY <1>2, <2>3, InHand, Parts, FirstGeneration, Zenon DEF Candidate
    <3>2. wait_for_registrations(g)' = wait_for_registrations(g)
      BY <1>1, Zenon DEF wait_for_registrations
    <3>3. CASE g = Candidate
      BY <1>1, <2>1, <2>2, <2>3, <3>1, <3>2, <3>3 DEF GenerationInv, Building
    <3>4. CASE g # Candidate
      BY <1>1, <2>2, <2>3, <3>1, <3>2, <3>4, Zenon DEF GenerationInv, Emptied, Building, Retiring
    <3> QED
      BY <3>3, <3>4, Zenon
  <2> QED
    BY <2>4, <2>6, <2>7, <2>8, <2>9 DEF ReloadInv
<1> QED
  BY <1>3, <1>4 DEF prepare_runtime

(* The gate, the DNS overrides and the start of the transition: go on, or  *)
(* stop the candidate.                                                     *)
LEMMA AbortKeeps ==
  ASSUME ReloadInv, sup.pc \in {"gate", "dns", "listeners"}, NEW phase \in Terminal, Finish(phase),
         gens' = cleanup_candidate(Candidate), UNCHANGED <<chan, api, active, acc, stopping, shut>>
  PROVE  ReloadInv'
<1>1. sup.pc \notin AtRest /\ sup.pc \notin Stopping
  BY DEF AtRest, Stopping
<1>2. stopping = {} /\ \A a \in Addrs : acc[a].pc # "returned"
  BY <1>1, NothingStopping
<1>3. Slots' = Slots
  BY DEF Slots
<1>4. gens' \in [Gens -> GenStates] /\ (\A g \in Gens \ {Candidate} : gens'[g] = gens[g])
      /\ gens'[Candidate].live = gens[Candidate].live /\ ~gens'[Candidate].background
  BY <1>1, CleanupStops
<1> QED
  BY <1>2, <1>3, <1>4, Parts, ReloadEnds

LEMMA GateKeeps ==
  ASSUME ReloadInv, Gate
  PROVE  ReloadInv'
<1>1. sup.pc = "gate" /\ UNCHANGED <<chan, api, active, acc, stopping, shut>>
  BY DEF Gate, supervised
<1>2. CASE \E phase \in Terminal : Abort(phase)
  BY <1>1, <1>2, AbortKeeps DEF Abort
<1>3. CASE sup' = [sup EXCEPT !.pc = "dns"] /\ status' = [status EXCEPT ![Command.id] = "activating"]
           /\ UNCHANGED <<control, gens>>
  <2>1. sup.pc \notin AtRest
    BY <1>1 DEF AtRest
  <2>2. status' \in [Ids -> Phases] /\ shut \in Serving
    BY <1>3, <2>1, InHand, Parts DEF StateOK, Phases
  <2> QED
    BY <1>1, <1>3, <2>2, PositionMoves DEF AtRest, Building, Retiring, Stopping
<1> QED
  BY <1>2, <1>3 DEF Gate, TransitionRefused, Terminal

LEMMA DnsKeeps ==
  ASSUME ReloadInv, InstallDns
  PROVE  ReloadInv'
<1>1. sup.pc = "dns" /\ UNCHANGED <<chan, api, active, acc, stopping, shut>>
  BY DEF InstallDns, supervised
<1>2. sup.pc \notin AtRest /\ sup.pc \notin Retiring /\ sup.pc # "swap" /\ "rolled_back" \in Terminal
  BY <1>1 DEF AtRest, Retiring, Terminal
<1>3. CASE gens' = [cleanup_candidate(Candidate) EXCEPT ![sup.old].closed = FALSE] /\ Finish("rolled_back")
  <2> DEFINE cleaned == cleanup_candidate(Candidate)
  <2>1. cleaned \in [Gens -> GenStates] /\ cleaned[sup.old] = gens[sup.old]
    BY <1>2, InHand, CleanupStops
  <2> HIDE DEF cleaned
  <2>2. ~gens[sup.old].closed
    BY <1>2, InHand, Parts DEF GenerationInv
  <2>3. [cleaned EXCEPT ![sup.old].closed = FALSE] = cleaned
    <3>1. sup.old \in Gens /\ gens[sup.old] \in GenStates /\ gens[sup.old].closed = FALSE
      BY <1>2, <2>2, InHand, Parts DEF GenStates
    <3>2. [gens[sup.old] EXCEPT !.closed = FALSE] = gens[sup.old]
      BY <3>1, Zenon DEF GenStates
    <3> QED
      BY <2>1, <3>1, <3>2
  <2> QED
    BY <1>1, <1>2, <1>3, <2>3, AbortKeeps, Zenon DEF cleaned
<1>4. CASE sup' = [sup EXCEPT !.pc = "listeners"] /\ UNCHANGED <<control, status, gens>>
  <2>1. status' \in [Ids -> Phases] /\ shut \in Serving
    BY <1>2, <1>4, InHand, Parts DEF StateOK
  <2> QED
    BY <1>1, <1>4, <2>1, PositionMoves DEF AtRest, Building, Retiring, Stopping
<1> QED
  BY <1>3, <1>4 DEF InstallDns

(* Between the start of a transition and the swap the candidate waits and  *)
(* the old generation serves; only the positions of the stop differ.       *)
LEMMA StillBuilding ==
  ASSUME ReloadInv, sup.pc \in Building, sup.pc # "swap", sup' \in SupStates, sup'.pc \in Building, sup'.pc # "swap",
         sup'.cmd = sup.cmd, sup'.old = sup.old, status' = status,
         UNCHANGED <<control, chan, api, active, gens, acc, shut>>, stopping' \in SUBSET Addrs, ListenerInv'
  PROVE  ReloadInv'
<1>1. sup.pc \notin AtRest /\ sup'.pc \notin AtRest /\ sup.pc \notin Retiring /\ sup'.pc \notin Retiring
  BY DEF Building, AtRest, Retiring
<1>2. StateOK'
  BY Parts DEF StateOK, SupStates
<1>3. OneReload'
  BY <1>1, Parts, SameReload, InHand
<1>4. HandoverInv'
  BY <1>1, Parts, Zenon DEF HandoverInv, Candidate, Retiring
<1>5. ASSUME NEW g \in Gens PROVE GenerationInv(g)'
  <2>1. GenerationInv(g)
    BY Parts
  <2> QED
    BY <1>1, <2>1 DEF GenerationInv, Emptied, wait_for_registrations, Candidate, Building, Retiring
<1> QED
  BY <1>2, <1>3, <1>4, <1>5 DEF ReloadInv

LEMMA BeginKeeps ==
  ASSUME ReloadInv, begin_transition
  PROVE  ReloadInv'
<1>1. sup.pc = "listeners" /\ UNCHANGED <<chan, api, active, acc, stopping, shut>>
  BY DEF begin_transition, supervised
<1>2. sup.pc \notin AtRest /\ sup.pc \notin Stopping /\ sup.pc \in Building /\ "failed" \in Terminal
  BY <1>1 DEF AtRest, Stopping, Building, Terminal
<1>3. CASE Abort("failed")
  BY <1>1, <1>2, <1>3, AbortKeeps DEF Abort
<1>4. CASE sup' = [sup EXCEPT !.pc = "stop", !.todo = Slots \ gens[Candidate].listeners, !.stopped = {}]
           /\ UNCHANGED <<control, status, gens>>
  <2> DEFINE removed == Slots \ gens[Candidate].listeners
  <2>1. removed \in SUBSET Addrs
    BY DEF Slots
  <2> HIDE DEF removed
  <2>2. sup' = [sup EXCEPT !.pc = "stop", !.todo = removed, !.stopped = {}]
    BY <1>4 DEF removed
  <2>3. sup' \in SupStates /\ sup'.pc = "stop" /\ sup'.cmd = sup.cmd /\ sup'.old = sup.old
        /\ sup'.todo = removed /\ sup'.stopped = {}
    BY <2>1, <2>2, Parts, Zenon DEF SupStates, Building
  <2>4. removed = (Slots \ gens[Candidate].listeners)'
    BY <1>1, <1>4, <2>3 DEF removed, Slots, Candidate
  <2>5. Slots' = Slots /\ stopping = {} /\ Slots = gens[active].listeners
    BY <1>1, <1>2, Parts, InHand, NothingStopping DEF Slots, ListenerInv
  <2>6. ListenerInv'
    BY <1>1, <1>2, <1>4, <2>3, <2>4, <2>5, Parts, InHand DEF ListenerInv, Stopping
  <2>7. stopping' \in SUBSET Addrs /\ sup'.pc \in Building
    BY <1>1, <2>3, Parts DEF StateOK, Building
  <2> QED
    BY <1>1, <1>2, <1>4, <2>3, <2>6, <2>7, StillBuilding
<1> QED
  BY <1>3, <1>4 DEF begin_transition

LEMMA StopKeeps ==
  ASSUME ReloadInv, StopRemoved
  PROVE  ReloadInv'
<1>1. /\ sup.pc = "stop" /\ sup.todo # {} /\ stopping' = stopping \cup {Min(sup.todo)}
      /\ sup' = [sup EXCEPT !.pc = "join"]
      /\ UNCHANGED <<control, status, chan, api, active, gens, acc, shut>>
  BY DEF StopRemoved
<1>2. sup.pc \in Building /\ sup.pc \in Stopping /\ sup.pc \notin AtRest
  BY <1>1 DEF Building, Stopping, AtRest
<1>3. sup' \in SupStates /\ sup'.pc = "join" /\ sup'.cmd = sup.cmd /\ sup'.old = sup.old
      /\ sup'.todo = sup.todo /\ sup'.stopped = sup.stopped
  BY <1>1, Parts DEF SupStates, Building
<1>4. Min(sup.todo) \in sup.todo /\ sup.todo \in SUBSET Addrs
  BY <1>1, Parts, MinIsIn DEF SupStates
<1>5. stopping = sup.stopped /\ Slots = gens[active].listeners /\ sup.todo \cup sup.stopped = Slots \ gens[Candidate].listeners
  BY <1>1, <1>2, Parts, InHand DEF ListenerInv
<1>6. Slots' = Slots /\ Candidate' = Candidate /\ stopping' \in SUBSET Addrs /\ sup'.pc \in Building
  BY <1>1, <1>3, <1>4, Parts DEF Slots, Candidate, Building, StateOK
<1>7. ListenerInv'
  BY <1>1, <1>2, <1>3, <1>5, <1>6, Parts, InHand DEF ListenerInv, Stopping
<1> QED
  BY <1>1, <1>2, <1>3, <1>6, <1>7, StillBuilding

LEMMA JoinKeeps ==
  ASSUME ReloadInv, JoinRemoved
  PROVE  ReloadInv'
<1> DEFINE m == Min(sup.todo)
<1>1. /\ sup.pc = "join"
      /\ sup' = [sup EXCEPT !.pc = "stop", !.todo = @ \ {m}, !.stopped = @ \cup {m}]
      /\ UNCHANGED <<control, status, gens, chan, api, active, acc, stopping, shut>>
  BY DEF JoinRemoved, supervised
<1>2. sup.pc \in Building /\ sup.pc \in Stopping /\ sup.pc \notin AtRest
  BY <1>1 DEF Building, Stopping, AtRest
<1>3. sup.todo # {} /\ sup.todo \in SUBSET Addrs /\ sup.stopped \in SUBSET Addrs
  BY <1>1, Parts DEF ListenerInv, SupStates
<1>4. m \in sup.todo
  BY <1>3, MinIsIn
<1>5. stopping = sup.stopped \cup {m} /\ Slots = gens[active].listeners
      /\ sup.todo \cup sup.stopped = Slots \ gens[Candidate].listeners
  BY <1>1, <1>2, Parts, InHand DEF ListenerInv
<1> HIDE DEF m
<1>6. sup' \in SupStates /\ sup'.pc = "stop" /\ sup'.cmd = sup.cmd /\ sup'.old = sup.old
      /\ sup'.todo = sup.todo \ {m} /\ sup'.stopped = sup.stopped \cup {m}
  BY <1>1, <1>3, <1>4, Parts, Zenon DEF SupStates, Building
<1>7. Slots' = Slots /\ Candidate' = Candidate /\ stopping' \in SUBSET Addrs /\ sup'.pc \in Building
  BY <1>1, <1>6, Parts DEF Slots, Candidate, Building, StateOK
<1>8. (sup.todo \ {m}) \cup (sup.stopped \cup {m}) = Slots \ gens[Candidate].listeners
  BY <1>4, <1>5
<1>9. ListenerInv'
  BY <1>1, <1>2, <1>5, <1>6, <1>7, <1>8, Parts, InHand DEF ListenerInv, Stopping
<1> QED
  BY <1>1, <1>2, <1>6, <1>7, <1>9, StillBuilding

(* A stop that fails starts what was stopped again.                        *)
LEMMA JoinFailedKeeps ==
  ASSUME ReloadInv, JoinFailed
  PROVE  ReloadInv'
<1>1. /\ sup.pc = "join" /\ UNCHANGED <<chan, api, active, shut>>
      /\ acc' = [a \in Addrs |-> IF a \in Restarted THEN Started ELSE acc[a]]
      /\ stopping' = stopping \ Restarted /\ gens' = cleanup_candidate(Candidate) /\ Finish("failed")
  BY DEF JoinFailed, Abort
<1>2. sup.pc \in Stopping /\ sup.pc \notin AtRest /\ "failed" \in Terminal
  BY <1>1 DEF Stopping, AtRest, Terminal
<1>3. sup.todo # {} /\ sup.todo \in SUBSET Addrs /\ sup.stopped \in SUBSET Addrs
  BY <1>1, Parts DEF ListenerInv, SupStates
<1>4. Min(sup.todo) \in sup.todo
  BY <1>3, MinIsIn
<1>5. stopping = Restarted /\ Restarted \subseteq Slots
  BY <1>1, <1>2, <1>4, Parts, InHand DEF ListenerInv, Restarted
<1>6. Started \in TaskStates /\ Started.pc = "accept"
  BY DEF Started, TaskStates
<1>7. acc' \in [Addrs -> TaskStates] /\ \A a \in Addrs : acc'[a] = acc[a] \/ acc'[a].pc = "accept"
  BY <1>1, <1>6, Parts
<1>8. Slots' = Slots
  BY <1>1, <1>5, <1>6, Zenon DEF Slots
<1>9. \A a \in Addrs : acc'[a].pc # "returned"
  BY <1>1, <1>5, <1>6, Parts DEF ListenerInv
<1>10. gens' \in [Gens -> GenStates] /\ (\A g \in Gens \ {Candidate} : gens'[g] = gens[g])
      /\ gens'[Candidate].live = gens[Candidate].live /\ ~gens'[Candidate].background
  BY <1>1, <1>2, CleanupStops
<1>11. stopping' = {}
  BY <1>1, <1>5
<1> QED
  BY <1>1, <1>2, <1>7, <1>8, <1>9, <1>10, <1>11, ReloadEnds

(* The old generation stops admitting before the swap.                     *)
LEMMA CloseKeeps ==
  ASSUME ReloadInv, CloseOld
  PROVE  ReloadInv'
<1>1. /\ sup.pc = "stop" /\ sup.todo = {} /\ gens' = [gens EXCEPT ![sup.old].closed = TRUE]
      /\ sup' = [sup EXCEPT !.pc = "swap"]
      /\ UNCHANGED <<control, status, chan, api, active, acc, stopping, shut>>
  BY DEF CloseOld, supervised
<1>2. sup.pc \in Building /\ sup.pc \in Stopping /\ sup.pc \notin AtRest /\ sup.pc \notin Retiring
  BY <1>1 DEF Building, Stopping, AtRest, Retiring
<1>3. sup' \in SupStates /\ sup'.pc = "swap" /\ sup'.cmd = sup.cmd /\ sup'.old = sup.old
      /\ sup'.todo = sup.todo /\ sup'.stopped = sup.stopped
  BY <1>1, Parts DEF SupStates, Building
<1>4. /\ gens' \in [Gens -> GenStates] /\ \A g \in Gens \ {sup.old} : gens'[g] = gens[g]
      /\ gens'[sup.old].cancelled = gens[sup.old].cancelled /\ gens'[sup.old].background = gens[sup.old].background
      /\ gens'[sup.old].live = gens[sup.old].live /\ gens'[sup.old].listeners = gens[sup.old].listeners
  BY <1>1, <1>2, Parts, InHand DEF GenStates
<1>5. StateOK'
  BY <1>1, <1>3, <1>4, Parts, Zenon DEF StateOK, SupStates, GenStates
<1>6. sup'.pc \notin AtRest /\ sup'.pc \notin Retiring /\ active' = control.generation
  BY <1>1, <1>2, <1>3, InHand DEF AtRest, Retiring
<1>7. OneReload'
  BY <1>1, <1>2, <1>3, <1>6, Parts, SameReload
<1>8. Slots' = Slots /\ Candidate' = Candidate /\ active = sup.old /\ Candidate \in Gens \ {sup.old}
  BY <1>1, <1>2, <1>3, InHand DEF Slots, Candidate
<1>9. HandoverInv'
  BY <1>2, <1>3, <1>4, <1>8, Parts DEF HandoverInv
<1>10. ListenerInv'
  BY <1>1, <1>2, <1>3, <1>4, <1>8, Parts, InHand DEF ListenerInv, Stopping
<1>11. ASSUME NEW g \in Gens PROVE GenerationInv(g)'
  <2>1. GenerationInv(g)
    BY Parts
  <2>2. wait_for_registrations(g)' = wait_for_registrations(g)
    BY <1>1 DEF wait_for_registrations
  <2>3. CASE g = sup.old
    BY <1>1, <1>2, <1>3, <1>4, <1>8, <2>1, <2>3, Parts DEF GenerationInv
  <2>4. CASE g # sup.old
    BY <1>1, <1>2, <1>3, <1>4, <1>8, <2>1, <2>2, <2>4, Zenon DEF GenerationInv, Emptied, Building, Retiring
  <2> QED
    BY <2>3, <2>4
<1> QED
  BY <1>5, <1>7, <1>9, <1>10, <1>11 DEF ReloadInv

(* The candidate becomes the generation in service.                        *)
LEMMA SwapKeeps ==
  ASSUME ReloadInv, Swap
  PROVE  ReloadInv'
<1>1. /\ sup.pc = "swap" /\ active' = Candidate /\ sup' = [sup EXCEPT !.pc = "publish"]
      /\ UNCHANGED <<control, status, chan, api, gens, acc, stopping, shut>>
  BY DEF Swap
<1>2. sup.pc \in Building /\ sup.pc \in Stopping /\ sup.pc \notin AtRest /\ sup.pc \notin Retiring
  BY <1>1 DEF Building, Stopping, AtRest, Retiring
<1>3. sup' \in SupStates /\ sup'.pc = "publish" /\ sup'.cmd = sup.cmd /\ sup'.old = sup.old
      /\ sup'.todo = sup.todo /\ sup'.stopped = sup.stopped
  BY <1>1, Parts DEF SupStates, Retiring
<1>4. sup'.pc \notin AtRest /\ sup'.pc \in Retiring /\ active' = control.generation + 1
  BY <1>1, <1>2, <1>3, InHand DEF AtRest, Retiring
<1>5. StateOK'
  BY <1>1, <1>2, <1>3, InHand, Parts DEF StateOK, SupStates
<1>6. OneReload'
  BY <1>1, <1>2, <1>3, <1>4, Parts, SameReload
<1>7. Slots' = Slots /\ Candidate' = Candidate /\ active = sup.old /\ sup.old < Candidate /\ sup.old \in Nat /\ Candidate \in Nat
      /\ Candidate = sup.old + 1
  BY <1>1, <1>2, <1>3, InHand, FirstGeneration DEF Slots, Candidate
<1>8. HandoverInv'
  BY <1>3 DEF HandoverInv, Building
<1>9. ListenerInv'
  <2>1. \A a \in Addrs : acc'[a].pc \in {"permit", "register", "spawn"} => acc'[a].gen \in 1..active'
    BY <1>1, <1>7, Parts DEF ListenerInv
  <2> QED
    BY <1>1, <1>2, <1>3, <1>7, <2>1, Parts, InHand DEF ListenerInv, Stopping
<1>10. ASSUME NEW g \in Gens PROVE GenerationInv(g)'
  <2>1. GenerationInv(g) /\ g \in Nat /\ shut \in Serving
    BY <1>2, InHand, Parts, FirstGeneration
  <2>2. wait_for_registrations(g)' = wait_for_registrations(g)
    BY <1>1 DEF wait_for_registrations
  <2>3. CASE g > Candidate
    BY <1>1, <1>3, <1>7, <2>1, <2>2, <2>3 DEF GenerationInv
  <2>4. CASE g = Candidate
    <3>1. gens[g].background /\ ~gens[g].closed /\ ~gens[g].cancelled
      BY <1>2, <2>4, Parts DEF HandoverInv
    <3> QED
      BY <1>1, <2>1, <2>4, <3>1 DEF GenerationInv, Serving
  <2>5. CASE g = sup.old
    <3>1. gens[g].closed /\ sup'.pc \in Retiring \ {"succeed"}
      BY <1>1, <1>3, <1>7, <2>1, <2>5 DEF GenerationInv, Retiring
    <3> QED
      BY <1>1, <1>3, <1>7, <2>5, <3>1 DEF GenerationInv
  <2>6. CASE g < sup.old
    BY <1>1, <1>2, <1>3, <1>7, <2>1, <2>2, <2>6 DEF GenerationInv, Emptied, Retiring
  <2> QED
    BY <1>7, <2>1, <2>3, <2>4, <2>5, <2>6
<1> QED
  BY <1>5, <1>6, <1>8, <1>9, <1>10 DEF ReloadInv

(* Removed addresses lose their slot, added ones get an accept task.       *)
LEMMA PublishKeeps ==
  ASSUME ReloadInv, finish_transition
  PROVE  ReloadInv'
<1> DEFINE layout == gens[Candidate].listeners
           p == IF Command.mode = "instant" THEN "retire" ELSE "drain"
<1>1. /\ sup.pc = "publish"
      /\ acc' = [a \in Addrs |-> IF a \notin layout THEN Absent ELSE IF a \in Slots THEN acc[a] ELSE Started]
      /\ stopping' = stopping \ sup.stopped
      /\ sup' = [sup EXCEPT !.pc = p, !.stopped = {}]
      /\ status' = IF Command.mode = "drain" THEN [status EXCEPT ![Command.id] = "draining"] ELSE status
      /\ UNCHANGED <<control, chan, api, active, gens, shut>>
  BY DEF finish_transition
<1>2. sup.pc \in Retiring /\ sup.pc \in Stopping /\ sup.pc \notin AtRest /\ sup.pc \notin Building
  BY <1>1 DEF Building, Stopping, AtRest, Retiring
<1>3. p \in {"retire", "drain"}
  OBVIOUS
<1>4. layout \in SUBSET Addrs
  BY <1>2, InHand, Parts DEF GenStates
<1> HIDE DEF p, layout
<1>5. sup' \in SupStates /\ sup'.pc = p /\ sup'.cmd = sup.cmd /\ sup'.old = sup.old
  BY <1>1, <1>3, Parts, Zenon DEF SupStates, Retiring
<1>6. Started \in TaskStates /\ Started.pc = "accept" /\ Absent \in TaskStates /\ Absent.pc = "absent"
  BY DEF Started, Absent, TaskStates
<1>7. acc' \in [Addrs -> TaskStates] /\ \A a \in Addrs : acc'[a] = acc[a] \/ acc'[a].pc \in {"accept", "absent"}
  BY <1>1, <1>6, Parts
<1>8. Slots' = layout
  BY <1>1, <1>4, <1>6 DEF Slots
<1>9. status' \in [Ids -> Phases]
  BY <1>1, <1>2, InHand, Parts DEF StateOK, Phases
<1>10. sup.stopped = Slots \ layout /\ stopping = sup.stopped /\ stopping' = {} /\ active = Candidate
  BY <1>1, <1>2, InHand, Parts DEF ListenerInv, layout
<1>11. StateOK'
  BY <1>1, <1>5, <1>7, <1>9, <1>10, Parts DEF StateOK, SupStates, TaskStates
<1>12. sup'.pc \notin AtRest /\ sup'.pc \in Retiring /\ sup'.pc \notin Building /\ sup'.pc \notin Stopping
  BY <1>3, <1>5 DEF AtRest, Retiring, Building, Stopping
<1>13. active' = control.generation + 1
  BY <1>1, <1>2, InHand
<1>14. OneReload'
  BY <1>1, <1>2, <1>5, <1>12, <1>13, SameReload
<1>15. HandoverInv'
  BY <1>3, <1>5, <1>12 DEF HandoverInv
<1>16. \A a \in Addrs : acc'[a].pc # "returned"
  <2> SUFFICES ASSUME NEW a \in Addrs, acc[a].pc = "returned" PROVE acc'[a].pc = "absent"
    BY <1>7, Zenon
  <2>1. a \in stopping /\ a \notin layout
    BY <1>10, Parts, Zenon DEF ListenerInv
  <2> QED
    BY <1>1, <1>6, <2>1
<1>17. ListenerInv'
  <2>1. \A a \in Addrs : acc'[a].pc \in {"permit", "register", "spawn"} => acc'[a].gen \in 1..active'
    BY <1>1, <1>7, Parts DEF ListenerInv
  <2>2. Slots' = gens'[active'].listeners
    BY <1>1, <1>8, <1>10 DEF layout
  <2>3. shut' \in Serving
    BY <1>1, <1>2, InHand
  <2> QED
    BY <1>3, <1>5, <1>10, <1>12, <1>16, <2>1, <2>2, <2>3, Zenon DEF ListenerInv, Serving
<1>18. ASSUME NEW g \in Gens PROVE GenerationInv(g)'
  <2>1. GenerationInv(g) /\ shut \in Serving
    BY <1>2, InHand, Parts
  <2>2. wait_for_registrations(g) => wait_for_registrations(g)'
    BY <1>7 DEF wait_for_registrations
  <2>3. g > active => GenerationInv(g)'
    BY <1>1, <1>2, <2>1, <2>2, Parts, FirstGeneration DEF GenerationInv
  <2>4. g = active => GenerationInv(g)'
    BY <1>1, <1>3, <1>5, <2>1, Parts, FirstGeneration, Zenon DEF GenerationInv
  <2>5. g < active => GenerationInv(g)'
    BY <1>1, <1>3, <1>5, <1>12, <2>1, <2>2, Parts, FirstGeneration DEF GenerationInv, Emptied
  <2> QED
    BY <2>3, <2>4, <2>5, Parts, FirstGeneration
<1> QED
  BY <1>11, <1>14, <1>15, <1>17, <1>18 DEF ReloadInv

(* No session is left uncounted when draining begins, and none is added    *)
(* after.                                                                  *)
LEMMA DrainKeeps ==
  ASSUME ReloadInv, DrainBegins \/ DrainEnds
  PROVE  ReloadInv'
<1>1. /\ sup.pc \in {"drain", "draining"}
      /\ UNCHANGED <<control, status, gens, chan, api, active, acc, stopping, shut>>
  BY DEF DrainBegins, DrainEnds, supervised
<1>2. sup.pc \in Retiring /\ sup.pc \notin AtRest /\ sup.pc \notin Stopping
  BY <1>1, Zenon DEF AtRest, Stopping, Retiring
<1>3. status' \in [Ids -> Phases] /\ shut \in Serving
  BY <1>1, <1>2, InHand, Parts DEF StateOK
<1>4. CASE DrainBegins
  BY <1>1, <1>3, <1>4, PositionMoves DEF DrainBegins, AtRest, Building, Retiring, Stopping
<1>5. CASE DrainEnds
  <2>1. PICK late \in BOOLEAN : /\ late \/ gens[sup.old].live = 0
                                /\ sup' = [sup EXCEPT !.pc = IF late THEN "retire" ELSE "background"]
    BY <1>5 DEF DrainEnds
  <2>2. sup.pc = "draining" /\ wait_for_registrations(sup.old)
    BY <1>5, Parts DEF DrainEnds, HandoverInv
  <2>3. CASE late
    BY <1>1, <1>3, <2>1, <2>2, <2>3, PositionMoves DEF AtRest, Building, Retiring, Stopping
  <2>4. CASE ~late
    <3>1. Emptied(sup.old)
      BY <2>1, <2>2, <2>4 DEF Emptied
    <3> QED
      BY <1>1, <1>3, <2>1, <2>2, <2>4, <3>1, PositionMoves DEF AtRest, Building, Retiring, Stopping
  <2> QED
    BY <2>3, <2>4
<1> QED
  BY <1>4, <1>5

(* A step of retirement that changes only the old generation.              *)
LEMMA RetireKeeps ==
  ASSUME ReloadInv, stop_sessions \/ stop_background_and_middle_end
  PROVE  ReloadInv'
<1> DEFINE p == IF sup.pc = "retire" THEN "background" ELSE "succeed"
<1>1. /\ sup.pc \in {"retire", "background"} /\ sup' = [sup EXCEPT !.pc = p]
      /\ UNCHANGED <<control, status, chan, api, active, acc, stopping, shut>>
  BY DEF stop_sessions, stop_background_and_middle_end, supervised
<1>2. sup.pc \in Retiring /\ sup.pc \notin AtRest /\ sup.pc \notin Stopping /\ sup.pc \notin Building
  BY <1>1 DEF AtRest, Stopping, Retiring, Building
<1>3. p \in {"background", "succeed"} /\ (p = "succeed" => sup.pc = "background")
  BY <1>1
<1> HIDE DEF p
<1>4. sup' \in SupStates /\ sup'.pc = p /\ sup'.cmd = sup.cmd /\ sup'.old = sup.old
  BY <1>1, <1>3, Parts, Zenon DEF SupStates, Retiring
<1>5. /\ gens' \in [Gens -> GenStates] /\ \A g \in Gens \ {sup.old} : gens'[g] = gens[g]
      /\ gens'[sup.old].closed = gens[sup.old].closed /\ gens'[sup.old].live = gens[sup.old].live
      /\ p = "background" => gens'[sup.old].cancelled
      /\ p = "succeed" => ~gens'[sup.old].background /\ gens'[sup.old].cancelled = gens[sup.old].cancelled
  <2>1. sup.old \in Gens /\ gens \in [Gens -> GenStates]
    BY <1>2, InHand, Parts
  <2>2. CASE stop_sessions
    <3>1. p = "background" /\ gens' = [gens EXCEPT ![sup.old].cancelled = TRUE]
      BY <2>2 DEF stop_sessions, p
    <3> QED
      BY <2>1, <3>1, Zenon DEF GenStates
  <2>3. CASE stop_background_and_middle_end
    <3>1. p = "succeed" /\ gens' = [gens EXCEPT ![sup.old].background = FALSE]
      BY <2>3 DEF stop_background_and_middle_end, p
    <3> QED
      BY <2>1, <3>1, Zenon DEF GenStates
  <2> QED
    BY <2>2, <2>3, Zenon
<1>6. StateOK'
  BY <1>1, <1>4, <1>5, Parts, Zenon DEF StateOK, SupStates, GenStates
<1>7. sup'.pc \notin AtRest /\ sup'.pc \in Retiring /\ sup'.pc \notin Stopping /\ sup'.pc \notin Building
      /\ active' = control.generation + 1
  BY <1>1, <1>2, <1>3, <1>4, InHand DEF AtRest, Retiring, Stopping, Building
<1>8. OneReload'
  BY <1>1, <1>2, <1>4, <1>7, SameReload
<1>9. HandoverInv'
  BY <1>3, <1>4, <1>7 DEF HandoverInv
<1>10. active \in Gens \ {sup.old} /\ sup.old < active /\ Slots' = Slots
  BY <1>1, <1>2, InHand DEF Slots
<1>11. ListenerInv'
  BY <1>1, <1>2, <1>3, <1>4, <1>5, <1>7, <1>10, Parts DEF ListenerInv, Stopping
<1>12. ASSUME NEW g \in Gens PROVE GenerationInv(g)'
  <2>1. GenerationInv(g) /\ g \in Nat /\ active \in Nat
    BY Parts, FirstGeneration
  <2>2. wait_for_registrations(g)' = wait_for_registrations(g)
    BY <1>1 DEF wait_for_registrations
  <2>3. CASE g = sup.old
    <3>1. Emptied(g)'
      BY <1>1, <1>3, <1>5, <1>10, <2>1, <2>2, <2>3, Zenon DEF GenerationInv, Emptied
    <3> QED
      BY <1>1, <1>3, <1>4, <1>5, <1>7, <1>10, <2>1, <2>3, <3>1 DEF GenerationInv
  <2>4. CASE g # sup.old
    BY <1>1, <1>2, <1>4, <1>5, <1>7, <2>1, <2>2, <2>4, Zenon DEF GenerationInv, Emptied, Stopping
  <2> QED
    BY <2>3, <2>4
<1> QED
  BY <1>6, <1>8, <1>9, <1>11, <1>12 DEF ReloadInv

(* The generation count follows the swap once the old one is retired.      *)
LEMMA SucceedKeeps ==
  ASSUME ReloadInv, finish_success
  PROVE  ReloadInv'
<1>1. /\ sup.pc = "succeed" /\ sup' = LoopAgain
      /\ UNCHANGED <<gens, chan, api, active, acc, stopping, shut>>
  BY DEF finish_success, supervised
<1>2. sup.pc \in Retiring /\ sup.pc \notin AtRest /\ sup.pc \notin Stopping /\ sup.pc \notin Building
  BY <1>1 DEF AtRest, Stopping, Retiring, Building
<1>3. /\ status' = [status EXCEPT ![Command.id] = "succeeded"]
      /\ control' = [control EXCEPT !.in_progress = 0, !.generation = Candidate]
  BY <1>2, InHand DEF finish_success
<1>4. sup' \in SupStates /\ sup'.pc \in {"idle", "exited"} /\ sup'.pc \in AtRest
  BY <1>1, WaitingType DEF LoopAgain, SupStates, AtRest
<1>5. control' \in ControlStates /\ control'.generation = Candidate /\ control'.in_progress = 0
      /\ control'.next_id = control.next_id
  <2>1. 0 \in 0..MaxReloads /\ Candidate \in Gens /\ control \in ControlStates
    BY <1>2, InHand, Parts, ReloadAssumption
  <2> QED
    BY <1>3, <2>1, Zenon DEF ControlStates
<1>6. status' \in [Ids -> Phases]
  BY <1>2, <1>3, InHand, Parts DEF StateOK, Phases, Terminal
<1>7. StateOK'
  BY <1>1, <1>4, <1>5, <1>6, Parts DEF StateOK, SupStates, ControlStates
<1>8. Candidate <= control.next_id + 1 /\ active = Candidate
  <2>1. control.generation <= control.next_id /\ control.next_id \in Nat
    BY <1>2, InHand, Parts, ReloadAssumption DEF OneReload, ControlStates
  <2>2. Candidate = control.generation + 1 /\ active = Candidate
    BY <1>2, InHand
  <2>3. control.generation \in Nat
    BY Parts, Zenon
  <2> QED
    BY <2>1, <2>2, <2>3
<1>9. OneReload'
  BY <1>1, <1>2, <1>4, <1>5, <1>8, InHand, Parts, FirstGeneration DEF OneReload, Retiring
<1>10. HandoverInv'
  BY <1>4 DEF HandoverInv, Building
<1>11. ListenerInv'
  BY <1>1, <1>2, <1>4, Parts, InHand, Zenon DEF ListenerInv, Stopping, Slots
<1>12. ASSUME NEW g \in Gens PROVE GenerationInv(g)'
  <2>1. GenerationInv(g)
    BY Parts
  <2>2. Emptied(g)' = Emptied(g) /\ wait_for_registrations(g)' = wait_for_registrations(g)
    BY <1>1 DEF wait_for_registrations, Emptied
  <2> QED
    BY <1>1, <1>2, <1>4, <2>1, <2>2, Zenon DEF GenerationInv
<1> QED
  BY <1>7, <1>9, <1>10, <1>11, <1>12 DEF ReloadInv

LEMMA SeeShutdownKeeps ==
  ASSUME ReloadInv, SeeShutdown
  PROVE  ReloadInv'
<1>1. /\ sup.pc = "idle" /\ UNCHANGED <<control, status, chan, api, active, gens, acc, stopping, shut>>
      /\ \E p \in {"last", "exited"} : sup' = [sup EXCEPT !.pc = p]
  BY DEF SeeShutdown
<1>2. status' \in [Ids -> Phases] /\ shut \in Serving
  BY <1>1, Parts DEF StateOK, OneReload
<1> QED
  BY <1>1, <1>2, PositionMoves DEF AtRest, Building, Retiring, Stopping

LEMMA SupervisorKeeps ==
  ASSUME ReloadInv, SupervisorStep
  PROVE  ReloadInv'
  BY ReceiveKeeps, SeeShutdownKeeps, PrepareKeeps, GateKeeps, DnsKeeps, BeginKeeps, StopKeeps, JoinKeeps,
     JoinFailedKeeps, CloseKeeps, SwapKeeps, PublishKeeps, DrainKeeps, RetireKeeps, SucceedKeeps, Zenon
     DEF SupervisorStep, RunCommand, RunLastCommand

-----------------------------------------------------------------------------
(* Shutdown, after which the supervisor has exited and changes nothing.    *)
LEMMA ShutdownBegins ==
  ASSUME ReloadInv, begin_shutdown \/ CancelSupervisor \/ Quiesced
  PROVE  ReloadInv'
<1>1. /\ UNCHANGED <<status, chan, api, sup, active, gens, acc, stopping>> /\ shut \in Serving
      /\ shut' \in {"refusing", "quiescing", "listeners"} /\ (shut' = "listeners" => sup.pc = "exited")
      /\ control' = control \/ control' = [control EXCEPT !.accepting = FALSE]
  BY DEF begin_shutdown, CancelSupervisor, Quiesced, shutdownOnly, Serving
<1>2. control' \in ControlStates /\ control'.in_progress = control.in_progress
      /\ control'.next_id = control.next_id /\ control'.generation = control.generation
  BY <1>1, Parts, Zenon DEF ControlStates
<1>3. StateOK'
  BY <1>1, <1>2, Parts DEF StateOK, ControlStates, Serving
<1>4. OneReload'
  BY <1>1, <1>2, Parts DEF OneReload, Holds, Serving
<1>5. HandoverInv'
  BY <1>1, Parts DEF HandoverInv, Candidate, wait_for_registrations
<1>6. ListenerInv'
  BY <1>1, Parts DEF ListenerInv, Candidate, Slots, Serving
<1>7. ASSUME NEW g \in Gens PROVE GenerationInv(g)'
  <2>1. GenerationInv(g)
    BY Parts
  <2> QED
    BY <1>1, <2>1 DEF GenerationInv, Emptied, wait_for_registrations, Candidate, Serving
<1> QED
  BY <1>3, <1>4, <1>5, <1>6, <1>7 DEF ReloadInv

LEMMA ListenersStop ==
  ASSUME ReloadInv, StopListener \/ JoinListener
  PROVE  ReloadInv'
<1>1. /\ UNCHANGED <<control, status, chan, api, sup, active, gens, shut>> /\ shut = "listeners" /\ sup.pc = "exited"
  BY Parts, Zenon DEF StopListener, JoinListener, shutdownOnly, OneReload, Serving
<1>2. Slots # {} /\ Slots \in SUBSET Addrs
  BY DEF StopListener, JoinListener, Slots
<1>3. Min(Slots) \in Slots /\ Min(Slots) \in Addrs
  BY <1>2, MinIsIn
<1>4. Absent \in TaskStates /\ Absent.pc = "absent"
  BY DEF Absent, TaskStates
<1>5. \/ acc' = acc /\ stopping' = stopping \cup {Min(Slots)}
      \/ acc' = [acc EXCEPT ![Min(Slots)] = Absent] /\ stopping' = stopping \ {Min(Slots)}
  BY Zenon DEF StopListener, JoinListener
<1>6. /\ acc' \in [Addrs -> TaskStates] /\ stopping' \in SUBSET Addrs
      /\ \A a \in Addrs : acc'[a] = acc[a] \/ acc'[a].pc = "absent"
      /\ \A a \in Addrs : acc'[a].pc = "returned" => a \in stopping'
  BY <1>3, <1>4, <1>5, Parts DEF StateOK, ListenerInv
<1>7. StateOK' /\ OneReload'
  BY <1>1, <1>6, Parts DEF StateOK, OneReload, Holds, TaskStates
<1>8. HandoverInv' /\ ListenerInv'
  BY <1>1, <1>6, Parts, Zenon DEF HandoverInv, ListenerInv, Building, Stopping, Serving
<1>9. ASSUME NEW g \in Gens PROVE GenerationInv(g)'
  <2>1. GenerationInv(g)
    BY Parts
  <2>2. wait_for_registrations(g) => wait_for_registrations(g)'
    BY <1>6 DEF wait_for_registrations
  <2> QED
    BY <1>1, <2>1, <2>2 DEF GenerationInv, Emptied, Candidate
<1> QED
  BY <1>7, <1>8, <1>9, Zenon DEF ReloadInv

LEMMA ServiceStops ==
  ASSUME ReloadInv, ListenersStopped \/ SessionsStopped \/ BackgroundStopped
  PROVE  ReloadInv'
<1>1. /\ UNCHANGED <<control, status, chan, api, sup, active, acc, stopping>>
      /\ shut \in {"listeners", "sessions", "background"} /\ shut' \in {"sessions", "background", "done"}
      /\ Slots = {}
  BY Parts DEF ListenersStopped, SessionsStopped, BackgroundStopped, shutdownOnly, ListenerInv
<1>2. sup.pc = "exited"
  BY <1>1, Parts, Zenon DEF OneReload, Serving
<1>3. /\ gens' \in [Gens -> GenStates] /\ \A g \in Gens \ {active} : gens'[g] = gens[g]
      /\ gens'[active].closed /\ (gens'[active].cancelled <=> shut' \in {"background", "done"})
      /\ gens'[active].background <=> shut' # "done"
  <2>1. gens \in [Gens -> GenStates] /\ active \in Gens /\ GenerationInv(active)
    BY Parts
  <2>2. /\ gens[active].background /\ (gens[active].cancelled <=> shut = "background")
        /\ gens[active].closed <=> shut # "listeners"
    BY <1>1, <1>2, <2>1 DEF GenerationInv, Serving
  <2>3. CASE ListenersStopped
    <3>1. gens' = [gens EXCEPT ![active].closed = TRUE] /\ shut' = "sessions" /\ shut = "listeners"
      BY <2>3 DEF ListenersStopped
    <3> QED
      BY <2>1, <2>2, <3>1, Zenon DEF GenStates
  <2>4. CASE SessionsStopped
    <3>1. gens' = [gens EXCEPT ![active].cancelled = TRUE] /\ shut' = "background" /\ shut = "sessions"
      BY <2>4 DEF SessionsStopped
    <3> QED
      BY <2>1, <2>2, <3>1, Zenon DEF GenStates
  <2>5. CASE BackgroundStopped
    <3>1. gens' = [gens EXCEPT ![active].background = FALSE] /\ shut' = "done" /\ shut = "background"
      BY <2>5 DEF BackgroundStopped
    <3> QED
      BY <2>1, <2>2, <3>1, Zenon DEF GenStates
  <2> QED
    BY <2>3, <2>4, <2>5
<1>4. StateOK'
  BY <1>1, <1>3, Parts DEF StateOK, GenStates
<1>5. OneReload' /\ HandoverInv'
  BY <1>1, <1>2, Parts DEF OneReload, Holds, HandoverInv, Building
<1>6. ListenerInv'
  BY <1>1, <1>2, Parts DEF ListenerInv, Stopping, Serving, Slots
<1>7. ASSUME NEW g \in Gens PROVE GenerationInv(g)'
  <2>1. GenerationInv(g) /\ wait_for_registrations(g)' = wait_for_registrations(g)
    BY <1>1, Parts, Zenon DEF wait_for_registrations
  <2>2. CASE g = active
    BY <1>1, <1>3, <2>2, Parts DEF GenerationInv, Serving
  <2>3. CASE g # active
    BY <1>1, <1>2, <1>3, <2>1, <2>3 DEF GenerationInv, Emptied, Candidate
  <2> QED
    BY <2>2, <2>3
<1> QED
  BY <1>4, <1>5, <1>6, <1>7 DEF ReloadInv

-----------------------------------------------------------------------------
LEMMA ReloadStep == ReloadInv /\ [Next]_vars => ReloadInv'
<1> SUFFICES ASSUME ReloadInv, [Next]_vars PROVE ReloadInv'
  OBVIOUS
<1>1. CASE UNCHANGED vars
  <2>1. UNCHANGED <<control, status, chan, api, sup, active, gens, acc, stopping, shut>>
    BY <1>1 DEF vars
  <2>2. (HandoverInv /\ ListenerInv /\ \A g \in Gens : GenerationInv(g))'
    BY <2>1, Parts, ServiceUntouched, Zenon
  <2>3. StateOK'
    <3>1. StateOK
      BY Parts, Zenon
    <3> QED
      BY <2>1, <3>1 DEF StateOK
  <2>4. OneReload'
    <3>1. OneReload
      BY Parts
    <3> QED
      BY <2>1, <3>1 DEF OneReload, Holds
  <2> QED
    BY <2>2, <2>3, <2>4 DEF ReloadInv
<1>2. CASE Next
  BY <1>2, ApiKeeps, SupervisorKeeps, AcceptKeeps, SessionEndsKeeps, ShutdownBegins, ListenersStop, ServiceStops
     DEF Next, ApiStep, ShutdownStep
<1> QED
  BY <1>1, <1>2

LEMMA ReloadInvariant == Spec => []ReloadInv
  BY ReloadInitially, ReloadStep, PTL DEF Spec

LEMMA AtRestServes ==
  ASSUME ReloadInv
  PROVE  ServiceRestored
<1> SUFFICES ASSUME sup.pc = "idle", shut \in Serving
             PROVE  /\ ~gens[active].closed /\ ~gens[active].cancelled
                    /\ Slots = gens[active].listeners
                    /\ stopping = {} /\ \A a \in Slots : acc[a].pc # "returned"
                    /\ {g \in Gens : gens[g].background} = {active}
  BY DEF ServiceRestored, Serving
<1>1. sup.pc \notin Stopping /\ sup.pc \notin Building /\ sup.pc \notin Retiring
  BY Zenon DEF Stopping, Building, Retiring
<1>2. ~gens[active].closed /\ ~gens[active].cancelled /\ gens[active].background
  BY Parts, Zenon DEF GenerationInv, Serving
<1>3. Slots = gens[active].listeners /\ stopping = {}
  BY <1>1, Parts, Zenon DEF ListenerInv
<1>4. \A a \in Slots : acc[a].pc # "returned"
  BY <1>3, Parts, Zenon DEF ListenerInv, Slots
<1>5. \A g \in Gens : gens[g].background => g = active
  <2> SUFFICES ASSUME NEW g \in Gens, g # active PROVE ~gens[g].background
    OBVIOUS
  <2>1. GenerationInv(g) /\ (g > active \/ g < active)
    BY Parts, FirstGeneration
  <2> QED
    BY <1>1, <2>1 DEF GenerationInv
<1> QED
  BY <1>2, <1>3, <1>4, <1>5, Parts, Zenon

LEMMA RetiredIsEmpty ==
  ASSUME ReloadInv
  PROVE  RetiredGenerationEmpty
<1> SUFFICES ASSUME NEW g \in Gens, g < control.generation
             PROVE  \/ gens[g].cancelled
                    \/ gens[g].live = 0 /\ \A a \in Addrs : ~(acc[a].pc = "spawn" /\ acc[a].gen = g)
  BY Zenon DEF RetiredGenerationEmpty
<1>1. g < active /\ ~(sup.pc \in {"publish", "drain", "draining", "retire"} /\ g = sup.old)
  BY Parts, FirstGeneration DEF OneReload, AtRest
<1>2. Emptied(g)
  BY <1>1, Parts DEF GenerationInv
<1> QED
  BY <1>2 DEF Emptied, wait_for_registrations

LEMMA DoneIsEmpty ==
  ASSUME ReloadInv
  PROVE  ShutdownLeavesNothing
<1> SUFFICES ASSUME shut = "done", NEW g \in Gens
             PROVE  Slots = {} /\ ~gens[g].background /\ (gens[g].live > 0 => gens[g].cancelled)
  BY FirstGeneration, Zenon DEF ShutdownLeavesNothing
<1>1. Slots = {}
  BY Parts, Zenon DEF ListenerInv
<1>2. sup.pc = "exited"
  BY Parts DEF OneReload, Serving
<1>3. GenerationInv(g) /\ (g > active \/ g = active \/ g < active)
  BY Parts, FirstGeneration
<1>4. ~gens[g].background
  BY <1>2, <1>3, Zenon DEF GenerationInv, Building, Retiring
<1>5. gens[g].cancelled \/ gens[g].live = 0
  BY <1>2, <1>3 DEF GenerationInv, Emptied
<1> QED
  BY <1>1, <1>4, <1>5

(* However a reload ends, the generation in service admits sessions, has   *)
(* an accept task on each of its addresses and is the only one with        *)
(* background tasks (reload_supervisor.rs).                                *)
THEOREM ServiceIsRestored == Spec => []ServiceRestored
<1>1. ReloadInv => ServiceRestored
  BY AtRestServes
<1> QED
  BY <1>1, ReloadInvariant, PTL

(* No session survives the generation it was registered with, unless it    *)
(* was cancelled, and a completed shutdown leaves nothing that runs        *)
(* (generation.rs, shutdown.rs).                                           *)
THEOREM NothingOutlives == Spec => []NothingOutlivesItsGeneration
<1>1. ReloadInv => NothingOutlivesItsGeneration
  BY RetiredIsEmpty, DoneIsEmpty DEF NothingOutlivesItsGeneration
<1> QED
  BY <1>1, ReloadInvariant, PTL
=============================================================================
