-------------------------------- MODULE MeSend --------------------------------
(* Sending a client frame to a Middle-End writer (transport/middle_proxy/     *)
(* send.rs, send/recovery.rs, send/selection.rs, send/close.rs).  A sender    *)
(* reserves bytes of the budget of a writer, then a slot of its command       *)
(* channel, and hands over the frame.  A session without a writer chooses     *)
(* one, waits for one by the configured mode, or blocks on one that is full.  *)
(* Writers end, drain, are refilled and finish frames between any two awaits  *)
(* of a sender.                                                               *)
(*                                                                            *)
(* The order of the candidates (rank, load, power of two choices) is left     *)
(* open: a sender tries them in any order.  The byte semaphore of a writer is *)
(* never closed by the program, so only its channel reports a dead writer.    *)
EXTENDS Integers, FiniteSets, Sequences, SequencesExt, FiniteSetsExt

CONSTANTS
    Conns,        \* sessions
    Writers,      \* ids a writer can get, positive integers in order of use
    First,        \* [writers at the start -> [dc, contour]]
    Endpoints,    \* DCs with preferred endpoints
    DefaultDc,    \* default_dc_for_routing
    Target,       \* [Conns -> DC asked for]
    Mode,         \* "failfast", "legacy" or "hybrid"
    Budget,       \* byte permits of a writer
    Slots,        \* capacity of a command channel
    Costs,        \* byte permits a frame can need
    Timed,        \* me_route_blocking_send_timeout is set
    Attempts,     \* me_route_inline_recovery_attempts
    MaxFrames,    \* bound: frames of a session
    MaxFaults     \* bound: writers that end or drain

VARIABLES
    pool,      \* ids in the writer snapshot
    info,      \* [Writers -> [dc, contour, open]]
    bytes,     \* [Writers -> byte permits available]
    queue,     \* [Writers -> commands in the channel]
    wire,      \* [Writers -> set of at most one command being written]
    bound,     \* [Conns -> writer in the registry, or 0]
    reg,       \* sessions in the registry
    s,         \* [Conns -> state of the sender of this session]
    refill,    \* DCs whose refill was triggered
    burst,     \* the trigger slot shared by the hybrid senders is free
    next,      \* writers used so far
    faults

vars == <<pool, info, bytes, queue, wire, bound, reg, s, refill, burst,
          next, faults>>
books == <<bytes, queue, wire>>
members == <<pool, info, bound, reg, next>>
triggers == <<refill, burst>>

Idle == [pc |-> "idle", n |-> 0, cost |-> 0, w |-> 0, todo |-> {},
         fallback |-> 0, deadline |-> "none", triggered |-> FALSE, tries |-> 0]
Absent == [dc |-> 0, contour |-> "active", open |-> FALSE]
Frame(c) == [conn |-> c, cost |-> s[c].cost]
Control(c) == [conn |-> c, cost |-> 0]

\* Slots of the channel that a sender holds between reserve and send.
Reserved(w) == Cardinality({c \in Conns : s[c].pc \in {"bind", "fbind"} /\ s[c].w = w})
HasSlot(w) == Len(queue[w]) + Reserved(w) < Slots
HasBytes(c, w) == bytes[w] >= s[c].cost
Step(c, pc) == s' = [s EXCEPT ![c].pc = pc]
Returns(c) == s' = [s EXCEPT ![c] = [Idle EXCEPT !.n = s[c].n]]
------------------------------------------------------------------------------
(* Routing and selection.                                                    *)

\* resolve_target_dc_for_routing
Unknown(c) == Target[c] = 0 \/ Target[c] \notin Endpoints
RoutedDc(c) == IF Unknown(c) THEN DefaultDc ELSE Target[c]

\* A draining writer takes new sessions until its bind window ends.
writer_accepts_new_binding(w) == info[w].contour # "stale"

Eligible(dc, contours) ==
    {w \in pool : /\ dc \in Endpoints
                  /\ writer_accepts_new_binding(w)
                  /\ info[w].contour \in contours
                  /\ info[w].dc = dc}

\* Warm writers are considered only when nothing else is eligible.
candidate_indices_for_dc(dc) ==
    LET hot == Eligible(dc, {"active", "draining"})
    IN  IF hot # {} THEN hot ELSE Eligible(dc, {"active", "draining", "warm"})

Candidates(c) == candidate_indices_for_dc(RoutedDc(c))

\* trigger_async_recovery_for_target_dc, with the global trigger when the DC
\* has no endpoints.
trigger_async_recovery(c) ==
    IF RoutedDc(c) \in Endpoints THEN {RoutedDc(c)} ELSE Endpoints
------------------------------------------------------------------------------
(* Losing a writer.  The pool forgets it first and the registry then every   *)
(* session bound to it; the refill of its DC starts unless it was draining.  *)

remove_writer_and_close_clients(w) ==
    /\ pool' = pool \ {w}
    /\ reg' = reg \ {c \in Conns : bound[c] = w}
    /\ bound' = [c \in Conns |-> IF bound[c] = w THEN 0 ELSE bound[c]]
    /\ refill' = IF w \in pool /\ info[w].contour \in {"active", "warm"}
                 THEN refill \cup {info[w].dc} ELSE refill
    /\ UNCHANGED <<info, next, burst>>

\* A sender that finds the channel closed drops what it reserved, removes the
\* writer and goes on at `pc`.
KeepsClosedWriter(c, w, given, pc) ==
    /\ s' = [s EXCEPT ![c].pc = pc, ![c].todo = @ \ {w}]
    /\ bytes' = [bytes EXCEPT ![w] = @ + given]
    /\ UNCHANGED <<members, triggers, queue, wire, faults>>

ClosedWriter(c, w, given, pc) ==
    /\ remove_writer_and_close_clients(w)
    /\ s' = [s EXCEPT ![c].pc = pc, ![c].todo = @ \ {w}]
    /\ bytes' = [bytes EXCEPT ![w] = @ + given]
    /\ UNCHANGED <<queue, wire, faults>>
------------------------------------------------------------------------------
(* The sender.                                                               *)

Init ==
    /\ pool = DOMAIN First
    /\ info = [w \in Writers |->
                 IF w \in DOMAIN First
                 THEN [dc |-> First[w].dc, contour |-> First[w].contour, open |-> TRUE]
                 ELSE Absent]
    /\ bytes = [w \in Writers |-> Budget]
    /\ queue = [w \in Writers |-> <<>>]
    /\ wire = [w \in Writers |-> {}]
    /\ bound = [c \in Conns |-> 0]
    /\ reg = Conns
    /\ s = [c \in Conns |-> Idle]
    /\ refill = {}
    /\ burst = TRUE
    /\ next = Cardinality(DOMAIN First)
    /\ faults = 0

\* A frame that could never fit the budget is refused at once.
Start(c) ==
    /\ s[c].pc = "idle"
    /\ c \in reg
    /\ s[c].n < MaxFrames
    /\ \E k \in Costs :
         s' = [s EXCEPT ![c] = [Idle EXCEPT !.n = s[c].n + 1,
                                            !.cost = IF k > Budget THEN 0 ELSE k,
                                            !.pc = IF k > Budget THEN "idle" ELSE "top"]]
    /\ UNCHANGED <<books, members, triggers, faults>>

\* The bound path: bytes, then a slot, both under one deadline.
BoundTop(c) ==
    /\ s[c].pc = "top"
    /\ bound[c] # 0
    /\ s' = [s EXCEPT ![c].pc = "bbytes", ![c].w = bound[c]]
    /\ UNCHANGED <<books, members, triggers, faults>>

reserve_writer_bytes(c) ==
    /\ s[c].pc \in {"bbytes", "fbytes"}
    /\ HasBytes(c, s[c].w)
    /\ bytes' = [bytes EXCEPT ![s[c].w] = @ - s[c].cost]
    /\ Step(c, IF s[c].pc = "bbytes" THEN "bslot" ELSE "fslot")
    /\ UNCHANGED <<queue, wire, members, triggers, faults>>

BoundSend(c) ==
    LET w == s[c].w
    IN  /\ s[c].pc = "bslot"
        /\ info[w].open
        /\ HasSlot(w)
        /\ queue' = [queue EXCEPT ![w] = Append(@, Frame(c))]
        /\ Returns(c)
        /\ UNCHANGED <<bytes, wire, members, triggers, faults>>

\* Losing the bound writer also unregisters the session, so no later round of
\* this send can bind: it goes on until no candidate is left.
BoundClosed(c) ==
    /\ s[c].pc = "bslot"
    /\ ~info[s[c].w].open
    /\ ClosedWriter(c, s[c].w, s[c].cost, "top")

\* The deadline ends the send on the bound path; the fallback path goes back
\* to choosing.  Bytes already reserved are returned.
WaitTimesOut(c) ==
    LET w == s[c].w
    IN  /\ Timed
        /\ \/ s[c].pc \in {"bbytes", "fbytes"} /\ ~HasBytes(c, w) /\ UNCHANGED bytes
           \/ /\ s[c].pc \in {"bslot", "fslot"}
              /\ info[w].open /\ ~HasSlot(w)
              /\ bytes' = [bytes EXCEPT ![w] = @ + s[c].cost]
        /\ IF s[c].pc \in {"bbytes", "bslot"} THEN Returns(c) ELSE Step(c, "top")
        /\ UNCHANGED <<queue, wire, members, triggers, faults>>
------------------------------------------------------------------------------
(* No writer, or none for the DC.                                            *)

Stuck(c) == s[c].pc = "top" /\ bound[c] = 0 /\ Candidates(c) = {}

\* wait_for_writer_until is satisfied by any writer, wait_for_candidate_until
\* only by one of the DC.
Usable(c) == IF s[c].pc = "wait_any" THEN pool # {} ELSE Candidates(c) # {}
WaitPc == IF pool = {} THEN "wait_any" ELSE "wait_dc"
Armed(d) == IF d = "none" THEN "running" ELSE d

\* Recovery is triggered once per send, and never for a DC nobody configured.
FailfastWaits(c) ==
    /\ Stuck(c)
    /\ Mode = "failfast"
    /\ s' = [s EXCEPT ![c].pc = WaitPc, ![c].deadline = Armed(@), ![c].triggered = TRUE]
    /\ refill' = IF s[c].triggered \/ Unknown(c) THEN refill
                 ELSE refill \cup trigger_async_recovery(c)
    /\ UNCHANGED <<books, members, burst, faults>>

\* The cumulative deadline is armed once.  Every round triggers recovery if
\* it gets the slot that all senders share, then waits a step.
HybridWaits(c) ==
    /\ Stuck(c)
    /\ Mode = "hybrid"
    /\ IF s[c].deadline = "past"
       THEN Returns(c) /\ UNCHANGED triggers
       ELSE /\ s' = [s EXCEPT ![c].pc = WaitPc, ![c].deadline = Armed(@)]
            /\ IF ~Unknown(c) /\ burst
               THEN /\ burst' = FALSE
                    /\ refill' \in {refill \cup trigger_async_recovery(c),
                                    refill \cup Endpoints}
               ELSE UNCHANGED triggers
    /\ UNCHANGED <<books, members, faults>>

\* Legacy: connect inline, on this very task, a bounded number of times.
LegacyWaits(c) ==
    /\ Stuck(c)
    /\ Mode = "legacy"
    /\ pool = {} \/ Unknown(c)
    /\ s' = [s EXCEPT ![c].pc = IF pool = {} /\ ~Unknown(c) THEN "inline" ELSE WaitPc,
                      ![c].deadline = Armed(@)]
    /\ UNCHANGED <<books, members, triggers, faults>>

LegacyTries(c) ==
    /\ Stuck(c)
    /\ Mode = "legacy"
    /\ pool # {} /\ ~Unknown(c)
    /\ IF s[c].tries >= Attempts THEN Returns(c)
       ELSE s' = [s EXCEPT ![c].pc = "inline_dc", ![c].tries = @ + 1]
    /\ UNCHANGED <<books, members, triggers, faults>>

Connected(dc) ==
    LET w == next + 1
    IN  /\ w \in Writers
        /\ next' = w
        /\ pool' = pool \cup {w}
        /\ info' = [info EXCEPT ![w] = [dc |-> dc, contour |-> "active", open |-> TRUE]]
        /\ UNCHANGED <<bound, reg>>

\* The inline connect of the legacy mode succeeds or fails; with the pool
\* empty it tries every DC and then waits, otherwise the one DC decides.
InlineConnects(c) ==
    /\ s[c].pc \in {"inline", "inline_dc"}
    /\ \/ /\ \E dc \in IF s[c].pc = "inline" THEN Endpoints ELSE {RoutedDc(c)} :
               Connected(dc)
          /\ Step(c, "top")
       \/ /\ UNCHANGED members
          /\ IF s[c].pc = "inline" THEN Step(c, "wait_any")
             ELSE IF Candidates(c) = {} THEN Returns(c) ELSE Step(c, "top")
    /\ UNCHANGED <<books, triggers, faults>>

Found(c) ==
    /\ s[c].pc \in {"wait_any", "wait_dc"}
    /\ Usable(c)
    /\ Step(c, "top")
    /\ UNCHANGED <<books, members, triggers, faults>>

\* The hybrid wait is one step of many.  The others end the send, the wait for
\* any writer already at the first epoch change that leaves the pool empty.
NotFound(c) ==
    /\ s[c].pc \in {"wait_any", "wait_dc"}
    /\ ~Usable(c)
    /\ IF Mode = "hybrid" THEN Step(c, "top")
       ELSE /\ s[c].pc = "wait_any" \/ s[c].deadline = "past"
            /\ Returns(c)
    /\ UNCHANGED <<books, members, triggers, faults>>

DeadlinePasses(c) ==
    /\ s[c].deadline = "running"
    /\ s' = [s EXCEPT ![c].deadline = "past"]
    /\ UNCHANGED <<books, members, triggers, faults>>

\* try_consume_hybrid_recovery_trigger_slot: one trigger per interval.
SlotReturns ==
    /\ Mode = "hybrid" /\ ~burst
    /\ burst' = TRUE
    /\ UNCHANGED <<books, members, s, refill, faults>>
------------------------------------------------------------------------------
(* Choosing a writer.                                                        *)

Choose(c) ==
    /\ s[c].pc = "top" /\ bound[c] = 0 /\ Candidates(c) # {}
    /\ s' = [s EXCEPT ![c].pc = "try", ![c].todo = Candidates(c), ![c].fallback = 0]
    /\ UNCHANGED <<books, members, triggers, faults>>

PassedOver(c, w) ==
    /\ s' = [s EXCEPT ![c].todo = @ \ {w},
                      ![c].fallback = IF @ = 0 /\ writer_accepts_new_binding(w) THEN w ELSE @]
    /\ UNCHANGED <<bytes, queue, wire, members, triggers, faults>>

\* One candidate of the snapshot, which may have drained or died since.
Try(c) ==
    /\ s[c].pc = "try"
    /\ \E w \in s[c].todo :
         \/ /\ ~writer_accepts_new_binding(w) \/ ~HasBytes(c, w)
                \/ (info[w].open /\ ~HasSlot(w))
            /\ PassedOver(c, w)
         \/ /\ writer_accepts_new_binding(w) /\ HasBytes(c, w) /\ ~info[w].open
            /\ ClosedWriter(c, w, 0, "try")
         \/ /\ writer_accepts_new_binding(w) /\ HasBytes(c, w) /\ info[w].open /\ HasSlot(w)
            /\ bytes' = [bytes EXCEPT ![w] = @ - s[c].cost]
            /\ s' = [s EXCEPT ![c].pc = "bind", ![c].w = w, ![c].todo = @ \ {w}]
            /\ UNCHANGED <<queue, wire, members, triggers, faults>>

\* bind_writer needs both the session and the writer to be registered still.
\* A refusal blames the writer.
Bind(c) ==
    LET w == s[c].w
        again == IF s[c].pc = "bind" THEN "try" ELSE "top"
    IN  /\ s[c].pc \in {"bind", "fbind"}
        /\ IF c \in reg /\ w \in pool
           THEN /\ bound' = [bound EXCEPT ![c] = w]
                /\ IF info[w].open
                   THEN queue' = [queue EXCEPT ![w] = Append(@, Frame(c))] /\ UNCHANGED bytes
                   ELSE /\ bytes' = [bytes EXCEPT ![w] = @ + s[c].cost]
                        /\ UNCHANGED queue
                /\ Returns(c)
                /\ UNCHANGED <<pool, info, reg, next, wire, triggers, faults>>
           ELSE ClosedWriter(c, w, s[c].cost, again)

\* Every candidate was passed over: block on the first that was full.
Fallback(c) ==
    /\ s[c].pc = "try" /\ s[c].todo = {}
    /\ s' = [s EXCEPT ![c].pc = IF s[c].fallback # 0
                                   /\ writer_accepts_new_binding(s[c].fallback)
                                THEN "fbytes" ELSE "top",
                      ![c].w = s[c].fallback]
    /\ UNCHANGED <<books, members, triggers, faults>>

FallbackSlot(c) ==
    /\ s[c].pc = "fslot"
    /\ \/ /\ info[s[c].w].open /\ HasSlot(s[c].w)
          /\ Step(c, "fbind")
          /\ UNCHANGED <<books, members, triggers, faults>>
       \/ /\ ~info[s[c].w].open
          /\ ClosedWriter(c, s[c].w, s[c].cost, "top")

\* send_close: a close command if the channel takes it, and the session is
\* forgotten in any case.
send_close(c) ==
    LET w == bound[c]
    IN  /\ s[c].pc = "idle"
        /\ c \in reg
        /\ s[c].n = MaxFrames
        /\ \/ /\ w # 0 /\ info[w].open /\ HasSlot(w)
              /\ queue' = [queue EXCEPT ![w] = Append(@, Control(c))]
              /\ reg' = reg \ {c} /\ bound' = [bound EXCEPT ![c] = 0]
              /\ UNCHANGED <<pool, info, next, bytes, wire, triggers>>
           \/ /\ w # 0 => (info[w].open /\ ~HasSlot(w))
              /\ reg' = reg \ {c} /\ bound' = [bound EXCEPT ![c] = 0]
              /\ UNCHANGED <<pool, info, next, bytes, queue, wire, triggers>>
           \/ /\ w # 0 /\ ~info[w].open
              /\ remove_writer_and_close_clients(w)
              /\ UNCHANGED <<bytes, queue, wire>>
        /\ UNCHANGED <<s, faults>>
------------------------------------------------------------------------------
(* The writer task, its faults, and the refill.                              *)

\* writer_command_loop: a command leaves the channel, and its permits return
\* when it has been written.
TakeCommand(w) ==
    /\ info[w].open /\ queue[w] # <<>> /\ wire[w] = {}
    /\ wire' = [wire EXCEPT ![w] = {Head(queue[w])}]
    /\ queue' = [queue EXCEPT ![w] = Tail(@)]
    /\ UNCHANGED <<bytes, members, s, triggers, faults>>

Written(w) ==
    /\ info[w].open
    /\ \E f \in wire[w] :
         /\ wire' = [wire EXCEPT ![w] = {}]
         /\ bytes' = [bytes EXCEPT ![w] = @ + f.cost]
    /\ UNCHANGED <<queue, members, s, triggers, faults>>

\* The task ends, by an error or because its writer was removed: its receiver
\* drops the queued commands with their permits.  The lifecycle task removes
\* the writer later, unless a sender does first.
Ends(w) ==
    /\ info[w].open
    /\ info' = [info EXCEPT ![w].open = FALSE]
    /\ bytes' = [bytes EXCEPT ![w] = @ + FoldSeq(LAMBDA f, a : f.cost + a, 0, queue[w])
                                       + MapThenSumSet(LAMBDA f : f.cost, wire[w])]
    /\ queue' = [queue EXCEPT ![w] = <<>>]
    /\ wire' = [wire EXCEPT ![w] = {}]
    /\ UNCHANGED <<pool, bound, reg, next, s, triggers>>

WriterFails(w) == w \in pool /\ faults < MaxFaults /\ faults' = faults + 1 /\ Ends(w)
WriterCancelled(w) == w \notin pool /\ UNCHANGED faults /\ Ends(w)

Lifecycle(w) ==
    /\ w \in pool /\ ~info[w].open
    /\ remove_writer_and_close_clients(w)
    /\ UNCHANGED <<books, s, faults>>

\* A writer starts to drain, and later its bind window ends.
Drains(w) ==
    /\ w \in pool
    /\ \/ /\ faults < MaxFaults /\ info[w].contour = "active"
          /\ info' = [info EXCEPT ![w].contour = "draining"]
          /\ faults' = faults + 1
       \/ /\ info[w].contour = "draining"
          /\ info' = [info EXCEPT ![w].contour = "stale"]
          /\ UNCHANGED faults
    /\ UNCHANGED <<books, pool, bound, reg, next, s, triggers>>

\* A triggered refill connects a writer or gives up.
Refill(dc) ==
    /\ dc \in refill
    /\ refill' = refill \ {dc}
    /\ Connected(dc) \/ UNCHANGED members
    /\ UNCHANGED <<books, s, burst, faults>>

Sender(c) ==
    \/ BoundTop(c) \/ reserve_writer_bytes(c) \/ BoundSend(c) \/ BoundClosed(c)
    \/ WaitTimesOut(c)
    \/ FailfastWaits(c) \/ HybridWaits(c) \/ LegacyWaits(c) \/ LegacyTries(c)
    \/ InlineConnects(c) \/ Found(c) \/ NotFound(c)
    \/ Choose(c) \/ Try(c) \/ Bind(c) \/ Fallback(c) \/ FallbackSlot(c)

Next ==
    \/ \E c \in Conns : Start(c) \/ Sender(c) \/ DeadlinePasses(c) \/ send_close(c)
    \/ \E w \in Writers :
         TakeCommand(w) \/ Written(w) \/ WriterFails(w) \/ WriterCancelled(w) \/ Lifecycle(w) \/ Drains(w)
    \/ \E dc \in Endpoints : Refill(dc)
    \/ SlotReturns

\* The runtime schedules every task, time passes, and a Middle-End that is up
\* goes on reading.
Fairness ==
    /\ \A c \in Conns : WF_vars(Sender(c)) /\ WF_vars(DeadlinePasses(c))
    /\ \A w \in Writers : WF_vars(TakeCommand(w)) /\ WF_vars(Written(w))
                         /\ WF_vars(WriterCancelled(w)) /\ WF_vars(Lifecycle(w))

Spec == Init /\ [][Next]_vars /\ Fairness
------------------------------------------------------------------------------
(* The property.                                                             *)

\* A send returns, whatever ends or drains while it runs: no mode waits or
\* retries for ever while the Middle-End reads.
SendEnds == \A c \in Conns : (s[c].pc # "idle") ~> (s[c].pc = "idle")
==============================================================================
