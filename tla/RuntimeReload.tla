---------------------------- MODULE RuntimeReload ----------------------------
(***************************************************************************)
(* In-process reload of the whole runtime and process shutdown             *)
(* (src/src/maestro).  The API reserves a reload while it commits a config *)
(* (reload.rs, api/config_edit.rs); the supervisor builds a candidate      *)
(* generation, moves the listeners, swaps the active generation and        *)
(* retires the old one (reload_supervisor.rs); accept loops register       *)
(* sessions with the generation they loaded (listeners/accept.rs,          *)
(* generation.rs); shutdown quiesces the supervisor and stops the rest     *)
(* (shutdown.rs).                                                          *)
(*                                                                         *)
(* A configuration is reduced to its set of listener addresses.  What      *)
(* prepare_runtime builds, the revision on disk and the DNS overrides are  *)
(* reduced to whether the step succeeds.  A Unix listener is one more      *)
(* address that no reload changes.                                         *)
(***************************************************************************)
EXTENDS Integers, FiniteSets, FiniteSetsExt

CONSTANTS
  Addrs,        \* listener addresses, ordered as BTreeMap keys are
  MaxReloads,   \* bound on the number of reservations
  MaxPermits,   \* server.max_connections of every generation
  MaxUpsets     \* bound on accept tasks that fail

ASSUME ReloadAssumption ==
  /\ Addrs \subseteq Nat /\ IsFiniteSet(Addrs) /\ Addrs # {}
  /\ MaxReloads \in Nat /\ MaxPermits \in Nat \ {0} /\ MaxUpsets \in Nat

VARIABLES
  control,    \* ReloadControl and ReloadStatusState, without the statuses
  status,     \* phase of each retained reload, "none" when not retained
  chan,       \* the command channel of capacity one and its permit
  api,        \* the request that holds mutation_lock
  sup,        \* the reload supervisor task
  active,     \* id of the generation in active_runtime
  gens,       \* the generations built so far
  acc,        \* the accept task of each address, "absent" without a slot
  stopping,   \* addresses whose accept task is cancelled
  shut,       \* perform_shutdown
  upsets

vars == <<control, status, chan, api, sup, active, gens, acc, stopping, shut, upsets>>

Ids == 1..MaxReloads
Gens == 1..(MaxReloads + 1)
Terminal == {"succeeded", "rolled_back", "failed"}
Phases == {"none", "accepted", "preparing", "activating", "draining"} \cup Terminal
Layouts == SUBSET Addrs \ {{}}
Commands == [id : Ids, target : Gens, mode : {"instant", "drain"},
             policy : {"keep_new", "rollback"}, listeners : Layouts]
NoCommand == [id |-> 0]

NoGeneration == [closed |-> FALSE, cancelled |-> FALSE, live |-> 0,
                 background |-> FALSE, listeners |-> {}]
NewGeneration(layout) == [NoGeneration EXCEPT !.background = TRUE, !.listeners = layout]

\* The supervisor in its command loop, no reload in hand.
Waiting == [pc |-> "idle", cmd |-> NoCommand, old |-> 1, todo |-> {}, stopped |-> {}, last |-> FALSE]

Slots == {a \in Addrs : acc[a].pc # "absent"}
Started == [pc |-> "accept", gen |-> 0]
Absent == [pc |-> "absent", gen |-> 0]

Init ==
  /\ control = [accepting |-> TRUE, in_progress |-> 0, next_id |-> 0, generation |-> 1]
  /\ status = [i \in Ids |-> "none"]
  /\ chan = [state |-> "free", cmd |-> NoCommand]
  /\ api = NoCommand
  /\ sup = Waiting
  /\ active = 1
  /\ \E layout \in Layouts :
       /\ gens = [g \in Gens |-> IF g = 1 THEN NewGeneration(layout) ELSE NoGeneration]
       /\ acc = [a \in Addrs |-> IF a \in layout THEN Started ELSE Absent]
  /\ stopping = {} /\ shut = "run" /\ upsets = 0

-----------------------------------------------------------------------------
(* The API side.  mutation_lock admits one request at a time.              *)

\* ReloadStatusStore::reserve refuses during shutdown and while a reload is active.
StoreAccepts == control.accepting /\ control.in_progress = 0

reserve(mode, policy, layout) ==
  /\ api = NoCommand /\ chan.state = "free"
  /\ StoreAccepts /\ control.next_id < MaxReloads
  /\ LET id == control.next_id + 1
     IN /\ control' = [control EXCEPT !.in_progress = id, !.next_id = id]
        /\ status' = [status EXCEPT ![id] = "accepted"]
        /\ api' = [id |-> id, target |-> control.generation + 1, mode |-> mode,
                   policy |-> policy, listeners |-> layout]
  /\ chan' = [chan EXCEPT !.state = "reserved"]
  /\ UNCHANGED <<sup, active, gens, acc, stopping, shut, upsets>>

\* write_atomic succeeded.
enqueue ==
  /\ api # NoCommand
  /\ chan' = [state |-> "full", cmd |-> api]
  /\ api' = NoCommand
  /\ UNCHANGED <<control, status, sup, active, gens, acc, stopping, shut, upsets>>

\* write_atomic failed, or the request's task was dropped.
cancel_reservation ==
  /\ api # NoCommand
  /\ control' = [control EXCEPT !.in_progress = IF @ = api.id THEN 0 ELSE @]
  /\ status' = [status EXCEPT ![api.id] = "none"]
  /\ chan' = [chan EXCEPT !.state = "free"]
  /\ api' = NoCommand
  /\ UNCHANGED <<sup, active, gens, acc, stopping, shut, upsets>>

ApiStep == enqueue \/ cancel_reservation

-----------------------------------------------------------------------------
(* The supervisor.                                                         *)

Command == sup.cmd
Candidate == sup.cmd.target

\* The command loop goes on, or ends when it was running the last reload.
LoopAgain == [Waiting EXCEPT !.pc = IF sup.last THEN "exited" ELSE "idle"]

\* ReloadStatusStore::finish with the given phase; the loop goes on.
Finish(phase) ==
  /\ status' = [status EXCEPT ![Command.id] = phase]
  /\ control' = [control EXCEPT !.in_progress = IF @ = Command.id THEN 0 ELSE @]
  /\ sup' = LoopAgain

cleanup_candidate_background(g) == [gens EXCEPT ![g].closed = TRUE, ![g].cancelled = TRUE]

\* stop_sessions, then the background tasks, of a generation never published.
cleanup_candidate(g) ==
  [gens EXCEPT ![g].closed = TRUE, ![g].cancelled = TRUE, ![g].background = FALSE]

Abort(phase) ==
  /\ gens' = cleanup_candidate(Candidate)
  /\ Finish(phase)

Receive(pc, last) ==
  /\ sup.pc = pc /\ chan.state = "full"
  /\ sup' = [sup EXCEPT !.pc = "preparing", !.cmd = chan.cmd, !.old = active, !.last = last]
  /\ chan' = [state |-> "free", cmd |-> NoCommand]
  /\ status' = [status EXCEPT ![chan.cmd.id] = "preparing"]
  /\ UNCHANGED <<control, api, active, gens, acc, stopping, shut, upsets>>

ShutdownSeen == shut \notin {"run", "refusing"}

\* The biased select: a command is taken only while shutdown is not cancelled.
RunCommand == ~ShutdownSeen /\ Receive("idle", FALSE)

SeeShutdownExits ==
  /\ sup.pc = "idle" /\ ShutdownSeen
  /\ sup' = [sup EXCEPT !.pc = "exited"]
  /\ UNCHANGED <<control, status, chan, api, active, gens, acc, stopping, shut, upsets>>

\* The loop ends, after the reload that is in progress if there is one.
SeeShutdown ==
  /\ sup.pc = "idle" /\ ShutdownSeen
  /\ sup' = [sup EXCEPT !.pc = IF control.in_progress # 0 THEN "last" ELSE "exited"]
  /\ UNCHANGED <<control, status, chan, api, active, gens, acc, stopping, shut, upsets>>

RunLastCommand == Receive("last", TRUE)

supervised == <<chan, api, active, acc, stopping, shut, upsets>>

prepare_runtime ==
  /\ sup.pc = "preparing"
  /\ \/ /\ gens' = [gens EXCEPT ![Candidate] = NewGeneration(Command.listeners)]
        /\ sup' = [sup EXCEPT !.pc = "gate"]
        /\ UNCHANGED <<control, status>>
     \/ Finish("failed") /\ UNCHANGED gens
  /\ UNCHANGED supervised

\* prepare_transition: the plan is invalid, a kept address changed its policy
\* or an added one cannot be bound.
TransitionRefused == Abort("failed")

\* prepare_transition, then revision_gate_action.
Gate ==
  /\ sup.pc = "gate"
  /\ \/ /\ sup' = [sup EXCEPT !.pc = "dns"]
        /\ status' = [status EXCEPT ![Command.id] = "activating"]
        /\ UNCHANGED <<control, gens>>
     \/ TransitionRefused
     \/ Command.policy = "rollback" /\ Abort("rolled_back")
  /\ UNCHANGED supervised

InstallDns ==
  /\ sup.pc = "dns"
  /\ \/ sup' = [sup EXCEPT !.pc = "listeners"] /\ UNCHANGED <<control, status, gens>>
     \/ /\ Command.policy = "rollback"
        /\ gens' = [cleanup_candidate(Candidate) EXCEPT ![sup.old].closed = FALSE]
        /\ Finish("rolled_back")
  /\ UNCHANGED supervised

\* Added sockets start to listen; removed acceptors are stopped one by one.
begin_transition ==
  /\ sup.pc = "listeners"
  /\ \/ /\ sup' = [sup EXCEPT !.pc = "stop", !.todo = Slots \ gens[Candidate].listeners, !.stopped = {}]
        /\ UNCHANGED <<control, status, gens>>
     \/ /\ gens[Candidate].listeners \ Slots # {}
        /\ Abort("failed")
  /\ UNCHANGED supervised

StopRemoved ==
  /\ sup.pc = "stop" /\ sup.todo # {}
  /\ stopping' = stopping \cup {Min(sup.todo)}
  /\ sup' = [sup EXCEPT !.pc = "join"]
  /\ UNCHANGED <<control, status, chan, api, active, gens, acc, shut, upsets>>

JoinRemoved ==
  /\ sup.pc = "join" /\ acc[Min(sup.todo)].pc = "returned"
  /\ sup' = [sup EXCEPT !.pc = "stop", !.todo = @ \ {Min(sup.todo)},
                        !.stopped = @ \cup {Min(sup.todo)}]
  /\ UNCHANGED <<control, status, gens>> /\ UNCHANGED supervised

\* The slots whose accept loop begin_transition starts again on a failure.
Restarted == sup.stopped \cup {Min(sup.todo)}

JoinFailed ==
  /\ sup.pc = "join" /\ acc[Min(sup.todo)].pc = "failed"
  /\ acc' = [a \in Addrs |-> IF a \in Restarted THEN Started ELSE acc[a]]
  /\ stopping' = stopping \ Restarted
  /\ Abort("failed")
  /\ UNCHANGED <<chan, api, active, shut, upsets>>

CloseOld ==
  /\ sup.pc = "stop" /\ sup.todo = {}
  /\ gens' = [gens EXCEPT ![sup.old].closed = TRUE]
  /\ sup' = [sup EXCEPT !.pc = "swap"]
  /\ UNCHANGED <<control, status>> /\ UNCHANGED supervised

Swap ==
  /\ sup.pc = "swap"
  /\ active' = Candidate
  /\ sup' = [sup EXCEPT !.pc = "publish"]
  /\ UNCHANGED <<control, status, chan, api, gens, acc, stopping, shut, upsets>>

finish_transition ==
  /\ sup.pc = "publish"
  /\ acc' = [a \in Addrs |->
               IF a \notin gens[Candidate].listeners THEN Absent
               ELSE IF a \in Slots THEN acc[a] ELSE Started]
  /\ stopping' = stopping \ sup.stopped
  /\ sup' = [sup EXCEPT !.pc = IF Command.mode = "instant" THEN "retire" ELSE "drain",
                        !.stopped = {}]
  /\ status' = IF Command.mode = "drain"
               THEN [status EXCEPT ![Command.id] = "draining"] ELSE status
  /\ UNCHANGED <<control, chan, api, active, gens, shut, upsets>>

wait_for_nothing(g) == TRUE

\* wait_for_registrations: no accept task is between try_register and the
\* end of its sessions.spawn.
wait_for_registrations(g) == \A a \in Addrs : acc[a].pc = "spawn" => acc[a].gen # g

DrainBegins ==
  /\ sup.pc = "drain" /\ wait_for_registrations(sup.old)
  /\ sup' = [sup EXCEPT !.pc = "draining"]
  /\ UNCHANGED <<control, status, gens>> /\ UNCHANGED supervised

\* The last session ended, or the deadline of the request expired.
DrainEnds ==
  /\ sup.pc = "draining"
  /\ \E late \in BOOLEAN :
       /\ late \/ gens[sup.old].live = 0
       /\ sup' = [sup EXCEPT !.pc = IF late THEN "retire" ELSE "background"]
  /\ UNCHANGED <<control, status, gens>> /\ UNCHANGED supervised

\* stop_sessions; it waits for the cancelled sessions at most
\* SESSION_STOP_TIMEOUT.
stop_sessions ==
  /\ sup.pc = "retire" /\ wait_for_registrations(sup.old)
  /\ gens' = [gens EXCEPT ![sup.old].cancelled = TRUE]
  /\ sup' = [sup EXCEPT !.pc = "background"]
  /\ UNCHANGED <<control, status>> /\ UNCHANGED supervised

stop_background_and_middle_end ==
  /\ sup.pc = "background"
  /\ gens' = [gens EXCEPT ![sup.old].background = FALSE]
  /\ sup' = [sup EXCEPT !.pc = "succeed"]
  /\ UNCHANGED <<control, status>> /\ UNCHANGED supervised

finish_success ==
  /\ sup.pc = "succeed"
  /\ IF control.in_progress = Command.id
     THEN /\ status' = [status EXCEPT ![Command.id] = "succeeded"]
          /\ control' = [control EXCEPT !.in_progress = 0, !.generation = Candidate]
     ELSE UNCHANGED <<status, control>>
  /\ sup' = LoopAgain
  /\ UNCHANGED gens /\ UNCHANGED supervised

SupervisorStep ==
  \/ RunCommand \/ SeeShutdown \/ RunLastCommand
  \/ prepare_runtime \/ Gate \/ InstallDns
  \/ begin_transition \/ StopRemoved \/ JoinRemoved \/ JoinFailed
  \/ CloseOld \/ Swap \/ finish_transition
  \/ DrainBegins \/ DrainEnds \/ stop_sessions
  \/ stop_background_and_middle_end \/ finish_success

-----------------------------------------------------------------------------
(* Accept loops and sessions.                                              *)

accepting == <<control, status, chan, api, sup, active, stopping, shut>>

MoveTo(a, pc) == acc' = [acc EXCEPT ![a].pc = pc]

\* A connection arrives; a closed admission gate drops it, which is no step.
Accept(a) ==
  /\ acc[a].pc = "accept" /\ a \notin stopping
  /\ acc' = [acc EXCEPT ![a] = [pc |-> "permit", gen |-> active]]
  /\ UNCHANGED <<gens, upsets>> /\ UNCHANGED accepting

PermitsHeld(g) ==
  gens[g].live + Cardinality({a \in Addrs : acc[a].pc \in {"register", "spawn"} /\ acc[a].gen = g})

PermitAcquired(a) ==
  /\ acc[a].pc = "permit" /\ a \notin stopping
  /\ PermitsHeld(acc[a].gen) < MaxPermits
  /\ MoveTo(a, "register")
  /\ UNCHANGED <<gens, upsets>> /\ UNCHANGED accepting

\* Only when accept_permit_timeout_ms is not zero.
PermitTimedOut(a) ==
  /\ acc[a].pc = "permit" /\ a \notin stopping
  /\ acc' = [acc EXCEPT ![a] = Started]
  /\ UNCHANGED <<gens, upsets>> /\ UNCHANGED accepting

\* Both the accept and the wait for a permit see the cancellation.
LoopReturns(a) ==
  /\ acc[a].pc \in {"accept", "permit"} /\ a \in stopping
  /\ acc' = [acc EXCEPT ![a] = [pc |-> "returned", gen |-> 0]]
  /\ UNCHANGED <<gens, upsets>> /\ UNCHANGED accepting

\* A refused session drops its stream and its permit.
try_register(a) ==
  /\ acc[a].pc = "register"
  /\ acc' = [acc EXCEPT ![a] = IF gens[acc[a].gen].closed THEN Started ELSE [@ EXCEPT !.pc = "spawn"]]
  /\ UNCHANGED <<gens, upsets>> /\ UNCHANGED accepting

spawn_session(a) ==
  /\ acc[a].pc = "spawn"
  /\ gens' = [gens EXCEPT ![acc[a].gen].live = @ + 1]
  /\ acc' = [acc EXCEPT ![a] = Started]
  /\ UNCHANGED upsets /\ UNCHANGED accepting

TaskFails(a) ==
  /\ acc[a].pc \in {"accept", "permit"} /\ upsets < MaxUpsets
  /\ acc' = [acc EXCEPT ![a] = [pc |-> "failed", gen |-> 0]]
  /\ upsets' = upsets + 1
  /\ UNCHANGED gens /\ UNCHANGED accepting

\* A session ends by itself or because its generation was cancelled.
SessionEnds(g) ==
  /\ gens[g].live > 0
  /\ gens' = [gens EXCEPT ![g].live = @ - 1]
  /\ UNCHANGED <<acc, upsets>> /\ UNCHANGED accepting

AcceptorStep(a) ==
  PermitAcquired(a) \/ LoopReturns(a) \/ try_register(a) \/ spawn_session(a)

-----------------------------------------------------------------------------
(* Shutdown.                                                               *)

shutdownOnly == <<status, chan, api, sup, active, upsets>>

begin_shutdown ==
  /\ shut = "run"
  /\ control' = [control EXCEPT !.accepting = FALSE]
  /\ shut' = "refusing"
  /\ UNCHANGED <<gens, acc, stopping>> /\ UNCHANGED shutdownOnly

CancelSupervisor ==
  /\ shut = "refusing" /\ shut' = "quiescing"
  /\ UNCHANGED <<control, gens, acc, stopping>> /\ UNCHANGED shutdownOnly

Quiesced ==
  /\ shut = "quiescing" /\ sup.pc = "exited"
  /\ shut' = "listeners"
  /\ UNCHANGED <<control, gens, acc, stopping>> /\ UNCHANGED shutdownOnly

\* ListenerManager::shutdown stops and joins the slots in order.
StopListener ==
  /\ shut = "listeners" /\ Slots # {} /\ Min(Slots) \notin stopping
  /\ stopping' = stopping \cup {Min(Slots)}
  /\ UNCHANGED <<control, gens, acc, shut>> /\ UNCHANGED shutdownOnly

JoinListener ==
  /\ shut = "listeners" /\ Slots \cap stopping # {}
  /\ acc[Min(Slots)].pc \in {"returned", "failed"}
  /\ acc' = [acc EXCEPT ![Min(Slots)] = Absent]
  /\ stopping' = stopping \ {Min(Slots)}
  /\ UNCHANGED <<control, gens, shut>> /\ UNCHANGED shutdownOnly

ListenersStopped ==
  /\ shut = "listeners" /\ Slots = {}
  /\ gens' = [gens EXCEPT ![active].closed = TRUE]
  /\ shut' = "sessions"
  /\ UNCHANGED <<control, acc, stopping>> /\ UNCHANGED shutdownOnly

SessionsStopped ==
  /\ shut = "sessions" /\ wait_for_registrations(active)
  /\ gens' = [gens EXCEPT ![active].cancelled = TRUE]
  /\ shut' = "background"
  /\ UNCHANGED <<control, acc, stopping>> /\ UNCHANGED shutdownOnly

BackgroundStopped ==
  /\ shut = "background"
  /\ gens' = [gens EXCEPT ![active].background = FALSE]
  /\ shut' = "done"
  /\ UNCHANGED <<control, acc, stopping>> /\ UNCHANGED shutdownOnly

ShutdownStep ==
  \/ CancelSupervisor \/ Quiesced \/ StopListener \/ JoinListener
  \/ ListenersStopped \/ SessionsStopped \/ BackgroundStopped

-----------------------------------------------------------------------------
Next ==
  \/ \E mode \in {"instant", "drain"}, policy \in {"keep_new", "rollback"}, layout \in Layouts :
       reserve(mode, policy, layout)
  \/ enqueue \/ cancel_reservation
  \/ SupervisorStep
  \/ \E a \in Addrs : Accept(a) \/ AcceptorStep(a) \/ PermitTimedOut(a) \/ TaskFails(a)
  \/ \E g \in Gens : SessionEnds(g)
  \/ begin_shutdown \/ ShutdownStep

Spec == Init /\ [][Next]_vars

\* Every task is polled again once what it awaits is ready, the timeouts of
\* retirement and drain fire, and a cancelled session ends.  Nothing says
\* that an uncancelled session ever ends or that a permit wait times out.
Fairness ==
  /\ WF_vars(ApiStep) /\ WF_vars(SupervisorStep) /\ WF_vars(ShutdownStep)
  /\ \A a \in Addrs : WF_vars(AcceptorStep(a))
  /\ \A g \in Gens : WF_vars(gens[g].cancelled /\ SessionEnds(g))

FairSpec == Spec /\ Fairness

-----------------------------------------------------------------------------
(* Properties.                                                             *)

TypeOK ==
  /\ control \in [accepting : BOOLEAN, in_progress : 0..MaxReloads,
                  next_id : 0..MaxReloads, generation : Gens]
  /\ status \in [Ids -> Phases]
  /\ chan.state \in {"free", "reserved", "full"}
  /\ chan.cmd \in Commands \cup {NoCommand} /\ api \in Commands \cup {NoCommand}
  /\ sup.cmd \in Commands \cup {NoCommand} /\ sup.old \in Gens
  /\ sup.todo \subseteq Slots /\ sup.stopped \subseteq Slots
  /\ active \in Gens
  /\ gens \in [Gens -> [closed : BOOLEAN, cancelled : BOOLEAN, live : 0..MaxPermits,
                        background : BOOLEAN, listeners : SUBSET Addrs]]
  /\ acc \in [Addrs -> [pc : {"absent", "accept", "permit", "register", "spawn", "returned", "failed"},
                        gen : Gens \cup {0}]]
  /\ stopping \subseteq Slots
  /\ upsets \in 0..MaxUpsets

(* A generation whose reload was reported as succeeded holds no session    *)
(* that nobody cancelled, and none is about to be registered with it: the  *)
(* accept loops that loaded it before the swap cannot slip one in behind   *)
(* drain_sessions or stop_sessions (SessionAdmission).                     *)
RetiredGenerationEmpty ==
  \A g \in Gens : g < control.generation =>
    \/ gens[g].cancelled
    \/ gens[g].live = 0 /\ \A a \in Addrs : ~(acc[a].pc = "spawn" /\ acc[a].gen = g)

(* Whatever way a reload ended (failed, rolled back, succeeded), the       *)
(* generation in service admits sessions, every one of its listener        *)
(* addresses has an accept task that nobody cancelled, and the background  *)
(* tasks of this generation run and those of no other: failed candidates   *)
(* and retired generations are stopped (cleanup_candidate,                 *)
(* stop_background_and_middle_end, begin_transition).                      *)
ServiceRestored ==
  sup.pc = "idle" /\ shut \in {"run", "refusing", "quiescing"} =>
    /\ ~gens[active].closed /\ ~gens[active].cancelled
    /\ Slots = gens[active].listeners
    /\ stopping = {} /\ \A a \in Slots : acc[a].pc # "returned"
    /\ {g \in Gens : gens[g].background} = {active}

(* When shutdown is complete no accept loop runs, no generation still runs *)
(* background tasks, and every session left was cancelled.                 *)
ShutdownLeavesNothing ==
  shut = "done" =>
    /\ Slots = {}
    /\ \A g \in Gens : ~gens[g].background /\ (gens[g].live > 0 => gens[g].cancelled)

\* Nothing outlives what it belongs to: a generation reported as replaced holds
\* no session that nobody cancelled, and a completed shutdown leaves no accept
\* loop, background task or such session (SessionAdmission, shutdown.rs).
NothingOutlivesItsGeneration == RetiredGenerationEmpty /\ ShutdownLeavesNothing

-----------------------------------------------------------------------------
(* The inductive invariant of these properties.                            *)

AtRest == {"idle", "last", "exited"}
Building == {"gate", "dns", "listeners", "stop", "join", "swap"}
Retiring == {"publish", "drain", "draining", "retire", "background", "succeed"}
Stopping == {"stop", "join", "swap", "publish"}
Serving == {"run", "refusing", "quiescing"}

StateOK ==
  /\ control \in [accepting : BOOLEAN, in_progress : 0..MaxReloads,
                  next_id : 0..MaxReloads, generation : Gens]
  /\ status \in [Ids -> Phases]
  /\ chan \in [state : {"free", "reserved", "full"}, cmd : Commands \cup {NoCommand}]
  /\ api \in Commands \cup {NoCommand}
  /\ sup \in [pc : AtRest \cup {"preparing"} \cup Building \cup Retiring, cmd : Commands \cup {NoCommand},
              old : Gens, todo : SUBSET Addrs, stopped : SUBSET Addrs, last : BOOLEAN]
  /\ active \in Gens
  /\ gens \in [Gens -> [closed : BOOLEAN, cancelled : BOOLEAN, live : Nat,
                        background : BOOLEAN, listeners : SUBSET Addrs]]
  /\ acc \in [Addrs -> [pc : {"absent", "accept", "permit", "register", "spawn", "returned", "failed"},
                        gen : Gens \cup {0}]]
  /\ stopping \subseteq Addrs
  /\ shut \in Serving \cup {"listeners", "sessions", "background", "done"}

\* The reload that is counted as in progress is in one place: with the request
\* that reserved it, in the channel or with the supervisor; it targets the
\* generation after the one in service.
Holds(cmd) == cmd \in Commands /\ cmd.id = control.in_progress /\ cmd.target = control.generation + 1

OneReload ==
  /\ chan.state = "reserved" <=> api # NoCommand
  /\ api # NoCommand => Holds(api)
  /\ chan.state = "full" => Holds(chan.cmd)
  /\ chan.state # "free" => sup.pc \in AtRest
  /\ sup.pc \notin AtRest => Holds(sup.cmd) /\ sup.old = control.generation
  /\ control.generation <= control.next_id + (IF control.in_progress = 0 THEN 1 ELSE 0)
  /\ active = control.generation + (IF sup.pc \in Retiring THEN 1 ELSE 0)
  /\ shut \notin Serving => sup.pc = "exited"

Emptied(g) == gens[g].cancelled \/ (gens[g].live = 0 /\ wait_for_registrations(g))

\* Before, in and after service.
GenerationInv(g) ==
  /\ g > active => gens[g].live = 0 /\ wait_for_registrations(g)
                   /\ (gens[g].background => sup.pc \in Building /\ g = Candidate)
  /\ g = active => /\ gens[g].background <=> shut # "done"
                   /\ gens[g].cancelled <=> shut \in {"background", "done"}
                   /\ gens[g].closed <=> sup.pc = "swap" \/ shut \notin Serving \cup {"listeners"}
  /\ g < active => /\ gens[g].closed
                   /\ Emptied(g) \/ (sup.pc \in {"publish", "drain", "draining", "retire"} /\ g = sup.old)
                   /\ gens[g].background => sup.pc \in Retiring \ {"succeed"} /\ g = sup.old

\* The candidate is untouched until it serves, and the old generation has no
\* registration under way once draining begins.
HandoverInv ==
  /\ sup.pc \in Building => /\ gens[Candidate].background
                            /\ ~gens[Candidate].closed /\ ~gens[Candidate].cancelled
  /\ sup.pc = "draining" => wait_for_registrations(sup.old)

\* The accept tasks: who is cancelled, who returned, and whose generation
\* they loaded.
ListenerInv ==
  /\ \A a \in Addrs : acc[a].pc \in {"permit", "register", "spawn"} => acc[a].gen \in 1..active
  /\ \A a \in Addrs : acc[a].pc = "returned" => a \in stopping
  /\ shut \in Serving =>
       /\ Slots = gens[IF sup.pc = "publish" THEN sup.old ELSE active].listeners
       /\ stopping = IF sup.pc \notin Stopping THEN {}
                     ELSE sup.stopped \cup (IF sup.pc = "join" THEN {Min(sup.todo)} ELSE {})
  /\ sup.pc \in Stopping => sup.todo \cup sup.stopped = Slots \ gens[Candidate].listeners
  /\ sup.pc \in {"swap", "publish"} => sup.todo = {}
  /\ sup.pc = "join" => sup.todo # {}
  /\ shut \in {"sessions", "background", "done"} => Slots = {}

ReloadInv ==
  /\ StateOK /\ OneReload /\ HandoverInv /\ ListenerInv
  /\ \A g \in Gens : GenerationInv(g)

-----------------------------------------------------------------------------
(* Reloads and shutdown conclude: once no more reloads are asked for, every *)
(* reload has a final status, also when shutdown begins before the          *)
(* supervisor has seen its command ("Rejects new commands while preserving  *)
(* an already accepted operation"); no accept loop waits for a permit of a  *)
(* generation that was replaced, whatever the sessions of that generation   *)
(* do; and shutdown is complete if it began, unless a config commit holds a *)
(* reservation or the supervisor waits for a command that was given up.     *)
ReloadsConclude ==
  <>[](/\ \A i \in Ids : status[i] \in Terminal \cup {"none"}
       /\ \A a \in Addrs : ~(acc[a].pc = "permit" /\ acc[a].gen # active)
       /\ \/ shut \in {"run", "refusing", "done"}
          \/ shut = "quiescing" /\ (api # NoCommand \/ (sup.pc = "last" /\ chan.state = "free")))

(* Shutdown completes: quiesce "Stops new submissions and waits for the    *)
(* accepted reload to finish" (reload_supervisor.rs:43).                   *)
ShutdownCompletes == (shut = "quiescing") ~> (shut = "done")
=============================================================================
