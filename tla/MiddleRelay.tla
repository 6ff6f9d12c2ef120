---------------------------- MODULE MiddleRelay ----------------------------
(***************************************************************************)
(* A client session over the Middle-End                                    *)
(* (src/src/proxy/middle_relay/session.rs and its parts): the main loop    *)
(* that reads client frames, the task that sends them on, and the task     *)
(* that writes the answers to the client.  Time is abstracted to its       *)
(* order: a quiet client reaches the soft limit, then the hard limit; a    *)
(* bounded wait may end at any moment.  Which of the idle sessions a       *)
(* pressure event evicts is in RelayIdle.                                  *)
(***************************************************************************)
EXTENDS Integers, Sequences

CONSTANTS
  IdlePolicy,      \* relay_idle_policy_v2_enabled
  QueueCap,        \* me_c2me_channel_capacity
  InboxCap,        \* capacity of the route channel
  BatchFrames,     \* me_d2c_flush_batch_max_frames
  DebtPerTiny, DebtLimit,  \* TINY_FRAME_DEBT_PER_TINY, TINY_FRAME_DEBT_LIMIT
  MaxFrames, MaxAnswers, MaxFlips

VARIABLES
  pc,        \* step of the main loop
  partial,   \* a frame has been read in part
  torn,      \* history: such a part was given up
  quiet, marked, grace,    \* soft limit reached; idle mark; answers extend the hard limit
  debt,      \* tiny_frame_debt
  result,    \* main_result: ok, closed (client EOF) or the error
  queue, sender,           \* commands to the sender task, and the task
  inbox, writer, unflushed,  \* answers of the Middle-End, the writer task, its batch
  registered,              \* the session has a routing entry
  stop,      \* flow_cancel and stop_tx
  cancelled, \* session_cancel
  route,     \* cutovers so far and the one last seen; odd numbers are direct
  relayedTorn,             \* history: a frame was relayed after a part was given up
  left       \* frames and answers still to come

vars == <<pc, partial, torn, quiet, marked, grace, debt, result, queue, sender, inbox, writer, unflushed,
          registered, stop, cancelled, route, relayedTorn, left>>
reading == <<partial, torn, quiet, marked, grace, debt>>
tasks == <<queue, sender, inbox, writer, unflushed, registered, stop>>
env == <<cancelled, route, relayedTorn, left>>

Init ==
  /\ pc = "route" /\ partial = FALSE /\ torn = FALSE /\ quiet = FALSE /\ marked = FALSE /\ grace = FALSE
  /\ debt = 0 /\ result = "ok"
  /\ queue = <<>> /\ sender = "run" /\ inbox = <<>> /\ writer = "run" /\ unflushed = 0
  /\ registered = TRUE /\ stop = FALSE /\ cancelled = FALSE
  /\ route = [now |-> 0, seen |-> 0] /\ relayedTorn = FALSE
  /\ left = [frames |-> MaxFrames, answers |-> MaxAnswers]

Leave(step, why) == pc' = step /\ result' = why

-----------------------------------------------------------------------------
(***************************************************************************)
(* The main loop.                                                          *)
(***************************************************************************)
\* A marked session may be the one a pressure event evicts.
Evicted ==
  /\ pc = "route" /\ IdlePolicy /\ marked
  /\ Leave("bye", "pressure") /\ marked' = FALSE
  /\ UNCHANGED <<partial, torn, quiet, grace, debt, tasks, env>>

\* affected_cutover_state, with the wait of the stagger.
CheckRoute ==
  /\ pc = "route"
  /\ IF route.now % 2 = 1 THEN Leave("bye", "switched") ELSE pc' = "read" /\ UNCHANGED result
  /\ UNCHANGED <<reading, tasks, env>>

\* select!: the branches that give up a read that has begun.
SeesCancel ==
  /\ pc = "read" /\ cancelled
  /\ Leave("bye", "disabled")
  /\ UNCHANGED <<reading, tasks, env>>
SeesRoute ==
  /\ pc = "read" /\ route.now # route.seen
  /\ pc' = "route" /\ route' = [route EXCEPT !.seen = route.now]
  /\ torn' = (torn \/ partial) /\ partial' = FALSE
  /\ UNCHANGED <<quiet, marked, grace, debt, result, tasks, cancelled, relayedTorn, left>>

\* read_exact_with_policy: the client stays quiet up to the soft limit,
\* then up to the hard limit, which answers to the client extend.
SoftIdle ==
  /\ pc = "read" /\ ~quiet
  /\ quiet' = TRUE /\ marked' = IdlePolicy
  /\ UNCHANGED <<pc, partial, torn, grace, debt, result, tasks, env>>
HardIdle ==
  /\ pc = "read" /\ quiet
  /\ IF grace THEN grace' = FALSE /\ UNCHANGED <<pc, result, marked>>
     ELSE Leave("drop", "timeout") /\ marked' = FALSE /\ UNCHANGED grace
  /\ UNCHANGED <<partial, torn, quiet, debt, tasks, env>>

ReadHeader ==
  /\ pc = "read" /\ ~partial /\ left.frames > 0
  /\ partial' = TRUE
  /\ UNCHANGED <<pc, torn, quiet, marked, grace, debt, result, tasks, env>>

\* A whole frame: on_client_frame, and the idle mark is cleared.
ReadPayload ==
  /\ pc = "read" /\ partial
  /\ pc' = "relay" /\ partial' = FALSE /\ quiet' = FALSE /\ marked' = FALSE /\ grace' = FALSE
  /\ debt' = IF debt = 0 THEN 0 ELSE debt - 1
  /\ left' = [left EXCEPT !.frames = @ - 1]
  /\ UNCHANGED <<torn, result, tasks, cancelled, route, relayedTorn>>

\* The debt after an empty frame.
TinyDebt == debt + DebtPerTiny

\* An empty frame delays the limits; too many of them end the session.
ReadTiny ==
  /\ pc = "read" /\ ~partial
  /\ debt' = TinyDebt
  /\ IF TinyDebt >= DebtLimit THEN Leave("drop", "desync") /\ UNCHANGED <<quiet, grace>>
     ELSE quiet' = FALSE /\ grace' = FALSE /\ UNCHANGED <<pc, result>>
  /\ UNCHANGED <<partial, torn, marked, tasks, env>>

ReadEof ==
  /\ pc = "read"
  /\ IF partial THEN Leave("drop", "reset") ELSE Leave("bye", "closed")
  /\ UNCHANGED <<reading, tasks, env>>

\* A frame too small, too large or out of alignment.
ReadDesync ==
  /\ pc = "read" /\ partial
  /\ Leave("drop", "desync")
  /\ UNCHANGED <<reading, tasks, env>>

\* The quota, or the byte permits of the queue, end the session.
RelayFails ==
  /\ pc = "relay"
  /\ Leave("drop", "quota")
  /\ UNCHANGED <<reading, tasks, env>>

\* enqueue_c2me_command_in: at once, or after a bounded wait.
enqueue_c2me_command_in ==
  /\ pc \in {"relay", "full"}
  /\ \/ /\ sender = "run" /\ Len(queue) < QueueCap
        /\ queue' = Append(queue, "data") /\ relayedTorn' = (relayedTorn \/ torn)
        /\ pc' = "route" /\ UNCHANGED result
     \/ /\ sender = "run" /\ Len(queue) = QueueCap /\ pc = "relay"
        /\ pc' = "full" /\ UNCHANGED <<result, queue, relayedTorn>>
     \/ /\ sender # "run" \/ pc = "full"
        /\ Leave("drop", "sender") /\ UNCHANGED <<queue, relayedTorn>>
  /\ UNCHANGED <<reading, sender, inbox, writer, unflushed, registered, stop, cancelled, route, left>>

\* The Close command of a session that leaves in order; the wait may end first.
SendBye ==
  /\ pc = "bye"
  /\ \/ sender = "run" /\ Len(queue) < QueueCap /\ queue' = Append(queue, "close")
     \/ (sender # "run" \/ Len(queue) = QueueCap) /\ UNCHANGED queue
  /\ pc' = "drop"
  /\ UNCHANGED <<reading, result, sender, inbox, writer, unflushed, registered, stop, env>>

\* drop(c2me_tx), then the bounded joins of the two tasks.
JoinSender ==
  /\ pc = "drop"
  /\ sender' = IF sender = "run" THEN "aborted" ELSE sender
  /\ queue' = <<>> /\ stop' = TRUE /\ pc' = "join"
  /\ UNCHANGED <<reading, result, inbox, writer, unflushed, registered, env>>

\* Mutant: the join of the writer waits without a limit.
JoinWriterUnbounded ==
  /\ pc = "join" /\ writer # "run" /\ pc' = "cleanup"
  /\ UNCHANGED <<reading, result, queue, sender, inbox, writer, unflushed, registered, stop, env>>
JoinWriter ==
  /\ pc = "join"
  /\ writer' = IF writer = "run" THEN "aborted" ELSE writer
  /\ pc' = "cleanup"
  /\ result' = IF result \notin {"ok", "closed"} THEN result
               ELSE IF sender # "ok" THEN "sender"
               ELSE IF writer' = "ok" \/ (result = "closed" /\ writer' = "lost") THEN "ok" ELSE "writer"
  /\ UNCHANGED <<reading, queue, sender, inbox, unflushed, registered, stop, env>>

\* clear_relay_idle_candidate_in and unregister.
Cleanup ==
  /\ pc = "cleanup"
  /\ marked' = FALSE /\ registered' = FALSE /\ inbox' = <<>> /\ unflushed' = 0
  /\ pc' = "done"
  /\ UNCHANGED <<partial, torn, quiet, grace, debt, result, queue, sender, writer, stop, env>>

-----------------------------------------------------------------------------
(***************************************************************************)
(* The tasks of the session and their surroundings.                        *)
(***************************************************************************)
\* c2me_sender: a send fails once the session has no routing entry.
SenderStep ==
  /\ sender = "run" /\ queue # <<>>
  /\ queue' = Tail(queue)
  /\ \/ Head(queue) = "close" /\ sender' = "ok"
     \/ Head(queue) = "data" /\ registered /\ UNCHANGED sender
     \/ Head(queue) = "data" /\ sender' = "err"
  /\ UNCHANGED <<pc, reading, result, inbox, writer, unflushed, registered, stop, env>>
SenderDrained ==
  /\ sender = "run" /\ queue = <<>> /\ pc = "drop"
  /\ sender' = "ok"
  /\ UNCHANGED <<pc, reading, result, queue, inbox, writer, unflushed, registered, stop, env>>

\* process_me_writer_response_with_traffic_lease: an answer goes into the
\* batch, or its write fails or is cancelled; Close ends the task.
WriteAnswer ==
  /\ writer = "run" /\ inbox # <<>> /\ unflushed < BatchFrames
  /\ inbox' = Tail(inbox)
  /\ \/ Head(inbox) = "answer" /\ writer' = "err" /\ UNCHANGED <<unflushed, grace>>
     \/ /\ Head(inbox) = "answer" /\ unflushed' = unflushed + 1 /\ UNCHANGED writer
        /\ grace' = (IdlePolicy /\ pc \in {"route", "read"})
     \/ Head(inbox) = "close" /\ writer' = "ok" /\ unflushed' = 0 /\ UNCHANGED grace
  /\ UNCHANGED <<pc, partial, torn, quiet, marked, debt, result, queue, sender, registered, stop, env>>

\* classify_me_d2c_flush_reason: full, or nothing more came within the delay.
FlushDue == unflushed = BatchFrames \/ inbox = <<>>
FlushBatch ==
  /\ writer = "run" /\ unflushed > 0 /\ FlushDue
  /\ unflushed' = 0
  /\ \/ UNCHANGED writer
     \/ writer' = "err"
  /\ UNCHANGED <<pc, reading, result, queue, sender, inbox, registered, stop, env>>

WriterEnds ==
  /\ writer = "run" /\ inbox = <<>> /\ unflushed = 0
  /\ \/ ~registered /\ writer' = "lost"
     \/ stop /\ writer' = "ok"
  /\ UNCHANGED <<pc, reading, result, queue, sender, inbox, unflushed, registered, stop, env>>

Answer ==
  /\ registered /\ left.answers > 0 /\ Len(inbox) < InboxCap
  /\ inbox' = Append(inbox, "answer")
  /\ left' = [left EXCEPT !.answers = @ - 1]
  /\ UNCHANGED <<pc, reading, result, queue, sender, writer, unflushed, registered, stop, cancelled, route, relayedTorn>>

\* The Middle-End closes the connection, or the writer that served it is lost.
MiddleCloses ==
  /\ registered /\ registered' = FALSE
  /\ \/ Len(inbox) < InboxCap /\ inbox' = Append(inbox, "close")
     \/ UNCHANGED inbox
  /\ UNCHANGED <<pc, reading, result, queue, sender, writer, unflushed, stop, env>>

Disable ==
  /\ ~cancelled /\ cancelled' = TRUE
  /\ UNCHANGED <<pc, reading, result, tasks, route, relayedTorn, left>>
SetMode ==
  /\ route.now < MaxFlips /\ route' = [route EXCEPT !.now = @ + 1]
  /\ UNCHANGED <<pc, reading, result, tasks, cancelled, relayedTorn, left>>

Own ==
  \/ CheckRoute \/ SeesCancel \/ SeesRoute \/ enqueue_c2me_command_in
  \/ SendBye \/ JoinSender \/ JoinWriter \/ Cleanup
TimePasses == SoftIdle \/ HardIdle
Flush == FlushBatch

Next ==
  \/ Own \/ TimePasses \/ Flush \/ Evicted
  \/ ReadHeader \/ ReadPayload \/ ReadTiny \/ ReadEof \/ ReadDesync \/ RelayFails
  \/ SenderStep \/ SenderDrained \/ WriteAnswer \/ WriterEnds
  \/ Answer \/ MiddleCloses \/ Disable \/ SetMode

-----------------------------------------------------------------------------
\* The frames handed to the sender are whole: only a cutover that was undone
\* while a frame was being read makes the session lose its place in the stream.
FramesWhole == relayedTorn => route.now >= 2

\* A session that lost its routing entry, or whose user was disabled, returns
\* and leaves no task, mark or entry, whatever the client sends meanwhile.
Returned == pc = "done" /\ sender # "run" /\ writer # "run" /\ ~registered /\ ~marked
LostSessionReturns == (~registered \/ cancelled) ~> Returned

=============================================================================
