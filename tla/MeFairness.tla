----------------------------- MODULE MeFairness -----------------------------
(***************************************************************************)
(* The reader of one Middle-End writer and its fair scheduler              *)
(* (src/src/transport/middle_proxy/: reader, fairness/, registry/writer):  *)
(* answers are queued per connection, a deficit round robin picks the next *)
(* frame, and the registry routes it into the bounded channel of the       *)
(* client's session.  The reader task owns the scheduler; the sessions     *)
(* that take from the channels, or end, and the operator who switches the  *)
(* scheduler run beside it.  Sizes are in units of a quantum; whether a    *)
(* queue has stood for the minimal age is left open.                       *)
(***************************************************************************)
EXTENDS Integers, Sequences, FiniteSets, FiniteSetsExt, SequencesExt

CONSTANTS
  Conns, Bucket,          \* connections and the bucket of each
  Sizes,                  \* sizes of frames
  MaxTotal, MaxFlow, BucketCap, MaxFlows,   \* max_total_queued_bytes and so on
  Quantum,                \* quantum at each level; the last is the penalized one
  Backlog,                \* standing_queue_min_backlog_bytes
  ShedStalls, CloseStalls, Streak,
  RatioAt, RejectsAt, StallsAt,  \* thresholds of pressure 1, 2 and 3
  Hysteresis, EvalRounds, Budget,
  ChanFrames, ChanBytes,  \* route channel: slots and byte permits
  Backpressure,           \* me_route_backpressure_enabled
  MaxFrames, MaxSwitches

Normal == 0
Shedding == 2
Saturated == 3

VARIABLES
  flows,     \* flow entry of each connection, or NoFlow
  ring,      \* active_ring; active_ring_members holds the same ids
  total, bucketBytes,
  standing, backed,            \* standing_flow_count, backpressured_flow_count
  press,     \* PressureEvaluator
  fairshare, \* me_route_fairshare_enabled as the reader last read it
  reader,    \* step of the reader and what it holds
  streak,    \* data_route_queue_full_streak
  route,     \* routing entry of a connection: open, dropped (receiver gone), none
  chan,      \* frames in the channel of the session
  sent,      \* frames received from the Middle-End per connection
  seen,      \* history: last frame put into the channel
  bypassed,  \* history: a frame went past queued ones
  switches

vars == <<flows, ring, total, bucketBytes, standing, backed, press, fairshare, reader, streak,
          route, chan, sent, seen, bypassed, switches>>
books == <<flows, ring, total, bucketBytes, standing, backed, press>>

NoFlow == [open |-> FALSE]
NewFlow == [open |-> TRUE, q |-> <<>>, pending |-> 0, deficit |-> 0, stalls |-> 0, standing |-> FALSE,
            state |-> "idle", ringed |-> FALSE]
Reading == [pc |-> "read", visits |-> 0, left |-> 0, c |-> 0, frame |-> [n |-> 0, size |-> 0], level |-> 0]

Init ==
  /\ flows = [c \in Conns |-> NoFlow] /\ ring = <<>>
  /\ total = 0 /\ bucketBytes = [b \in {Bucket[c] : c \in Conns} |-> 0]
  /\ standing = 0 /\ backed = 0
  /\ press = [level |-> Normal, cand |-> Normal, hits |-> 0, rounds |-> 0, rejects |-> 0, stalls |-> 0]
  /\ fairshare \in BOOLEAN
  /\ reader = Reading
  /\ streak = [c \in Conns |-> 0]
  /\ route = [c \in Conns |-> "open"] /\ chan = [c \in Conns |-> <<>>]
  /\ sent = [c \in Conns |-> 0] /\ seen = [c \in Conns |-> 0]
  /\ bypassed = [c \in Conns |-> FALSE] /\ switches = 0

-----------------------------------------------------------------------------
(***************************************************************************)
(* Classification and pressure.                                            *)
(***************************************************************************)
Backed(state) == state \in {"backpressured", "penalized", "shedding"}

\* derive_flow_classification; aged says that the queue has stood long enough,
\* and that the last drain is as old.
classify_flow(f, level, aged) ==
  IF f.pending = 0 THEN [f EXCEPT !.standing = FALSE, !.state = "idle", !.deficit = 0]
  ELSE IF f.pending >= Backlog /\ aged
    THEN [f EXCEPT !.standing = TRUE, !.state = IF level >= Shedding THEN "shedding" ELSE "penalized"]
  ELSE [f EXCEPT !.standing = FALSE, !.state = IF f.stalls > 0 THEN "backpressured" ELSE "active"]

effective_quantum_bytes(f, level) ==
  Quantum[IF f.state \in {"penalized", "shedding"} THEN Saturated ELSE level]

Delta(was, is) == (IF is THEN 1 ELSE 0) - (IF was THEN 1 ELSE 0)

\* apply_flow_membership_delta.
apply_flow_membership_delta(f, g) ==
  /\ standing' = standing + Delta(f.standing, g.standing)
  /\ backed' = backed + Delta(Backed(f.state), Backed(g.state))

Score(value, thresholds) == Cardinality({k \in 1..3 : value >= thresholds[k]})

\* The pressure the signals of this moment call for.
derive_target_state(p, bytes, open, stand, back) ==
  Max({Score((bytes * 100) \div MaxTotal, RatioAt),
       IF open = 0 THEN 0 ELSE Score((stand * 100) \div open, <<20, 35, 50>>),
       Score(p.rejects, RejectsAt), Score(p.stalls, StallsAt),
       IF open > 0 /\ back > open \div 2 THEN 2 ELSE 0})

\* maybe_evaluate: the level moves after Hysteresis evaluations that agree.
maybe_evaluate(p, force, target) ==
  IF ~Backpressure THEN [p EXCEPT !.level = Normal, !.cand = Normal, !.hits = 0, !.rounds = 0]
  ELSE IF ~force /\ p.rounds + 1 < EvalRounds THEN [p EXCEPT !.rounds = @ + 1]
  ELSE IF target = p.level THEN [p EXCEPT !.rounds = 0, !.cand = target, !.hits = 0]
  ELSE LET hits == IF p.cand = target THEN p.hits + 1 ELSE 1 IN
       IF hits >= Hysteresis THEN [p EXCEPT !.rounds = 0, !.cand = target, !.hits = 0, !.level = target]
       ELSE [p EXCEPT !.rounds = 0, !.cand = target, !.hits = hits]

OpenIn(fs) == Cardinality({c \in Conns : fs[c].open})

\* Evaluation of the state a step leaves behind.
evaluate_pressure(p, force) ==
  press' = maybe_evaluate(p, force, derive_target_state(p, total', OpenIn(flows'), standing', backed'))

Cap(n, thresholds) == IF n < thresholds[3] THEN n + 1 ELSE n
Rejected(p) == [p EXCEPT !.rejects = Cap(@, RejectsAt)]
Stalled(p) == [p EXCEPT !.stalls = Cap(@, StallsAt)]

\* rotate_window_if_needed: the window of rejects and stalls passes.
rotate_window_if_needed ==
  /\ press.rejects + press.stalls > 0
  /\ press' = [press EXCEPT !.rejects = 0, !.stalls = 0]
  /\ UNCHANGED <<flows, ring, total, bucketBytes, standing, backed, fairshare, reader, streak, route,
                 chan, sent, seen, bypassed, switches>>

-----------------------------------------------------------------------------
(***************************************************************************)
(* Flows.                                                                  *)
(***************************************************************************)
Bytes(q) == FoldSeq(LAMBDA fr, n : fr.size + n, 0, q)

remove_flow(c) ==
  LET f == flows[c] IN
  IF ~f.open THEN UNCHANGED <<flows, ring, total, bucketBytes, standing, backed>>
  ELSE /\ flows' = [flows EXCEPT ![c] = NoFlow]
       /\ ring' = SelectSeq(ring, LAMBDA x : x # c)
       /\ total' = total - Bytes(f.q)
       /\ bucketBytes' = [bucketBytes EXCEPT ![Bucket[c]] = @ - Bytes(f.q)]
       /\ standing' = standing + Delta(f.standing, FALSE)
       /\ backed' = backed + Delta(Backed(f.state), FALSE)

\* enqueue_active_conn, with the flow's own mark.
Ringed(c, f) == IF f.ringed THEN ring ELSE Append(ring, c)

ShouldClose(n, level) == Backpressure /\ level >= Shedding /\ n >= Streak
Streaked(c) == IF streak[c] < Streak THEN streak[c] + 1 ELSE streak[c]

\* unregister and send_close_conn.
Close(c) ==
  /\ route' = [route EXCEPT ![c] = "none"] /\ chan' = [chan EXCEPT ![c] = <<>>]
  /\ streak' = [streak EXCEPT ![c] = 0]

Drain == reader' = [Reading EXCEPT !.pc = "drain", !.left = Budget]

\* The admission checks of enqueue_data, in their order; a flow entry is made
\* before the last two.
WorkerCap(c, size) == total + size > MaxTotal \/ (~flows[c].open /\ OpenIn(flows) >= MaxFlows)
EntryOf(c) == IF flows[c].open THEN flows[c] ELSE NewFlow
Refused(c, size) ==
  \/ Backpressure /\ press.level = Saturated
  \/ WorkerCap(c, size)
  \/ bucketBytes[Bucket[c]] + size > BucketCap
  \/ EntryOf(c).pending + size > MaxFlow
  \/ Backpressure /\ press.level >= Shedding /\ EntryOf(c).standing

MakesEntry(c, size) ==
  /\ ~(Backpressure /\ press.level = Saturated) /\ ~WorkerCap(c, size)
  /\ bucketBytes[Bucket[c]] + size <= BucketCap

\* enqueue_data admits the frame.
Admit(c, fr, aged) ==
  LET f == EntryOf(c)
      g == classify_flow([f EXCEPT !.q = Append(@, fr), !.pending = @ + fr.size, !.ringed = TRUE],
                         press.level, aged)
  IN /\ ~Refused(c, fr.size)
     /\ flows' = [flows EXCEPT ![c] = g]
     /\ ring' = Ringed(c, f)
     /\ total' = total + fr.size
     /\ bucketBytes' = [bucketBytes EXCEPT ![Bucket[c]] = @ + fr.size]
     /\ apply_flow_membership_delta(f, g)
     /\ evaluate_pressure(press, TRUE)
     /\ UNCHANGED <<streak, route, chan>>

\* enqueue_data refuses it, and the reader may close the connection.
Reject(c, fr) ==
  /\ Refused(c, fr.size)
  /\ LET saturated == Backpressure /\ press.level = Saturated
         kept == IF MakesEntry(c, fr.size) THEN [flows EXCEPT ![c] = EntryOf(c)] ELSE flows
         noted == Rejected(press)
         after == IF saturated THEN noted
                  ELSE maybe_evaluate(noted, TRUE,
                         derive_target_state(noted, total, OpenIn(kept), standing, backed))
     IN /\ press' = after
        /\ IF saturated \/ ShouldClose(Streaked(c), after.level)
             THEN Close(c) /\ remove_flow(c)
             ELSE /\ streak' = [streak EXCEPT ![c] = Streaked(c)]
                  /\ flows' = kept
                  /\ UNCHANGED <<ring, total, bucketBytes, standing, backed, route, chan>>

-----------------------------------------------------------------------------
(***************************************************************************)
(* Routing into the channel of a session.                                  *)
(***************************************************************************)
\* route_with_timeout: what the registry answers when the wait is over.
route_with_timeout(c, fr) ==
  CASE route[c] = "none" -> "none"
    [] route[c] = "dropped" -> "closed"
    [] Len(chan[c]) < ChanFrames /\ Bytes(chan[c]) + fr.size <= ChanBytes -> "routed"
    [] OTHER -> "full"

Deliver(c, fr) ==
  /\ chan' = [chan EXCEPT ![c] = Append(@, fr)]
  /\ seen' = [seen EXCEPT ![c] = fr.n]
  /\ bypassed' = [bypassed EXCEPT ![c] = @ \/ (reader.pc = "read" /\ flows[c].open /\ flows[c].q # <<>>)]

Fresh(c, size) == [n |-> sent[c] + 1, size |-> size]

\* RPC_PROXY_ANS while the scheduler is on.
ReadQueued(c, size) ==
  /\ reader.pc = "read" /\ fairshare /\ sent[c] < MaxFrames
  /\ sent' = [sent EXCEPT ![c] = @ + 1]
  /\ \/ \E aged \in BOOLEAN : Admit(c, Fresh(c, size), aged)
     \/ Reject(c, Fresh(c, size))
  /\ Drain
  /\ UNCHANGED <<fairshare, seen, bypassed, switches>>

\* RPC_PROXY_ANS while it is off: the frame is routed at once or dropped.
ReadDirect(c, size) ==
  /\ reader.pc = "read" /\ ~fairshare /\ sent[c] < MaxFrames
  /\ sent' = [sent EXCEPT ![c] = @ + 1]
  /\ LET answer == route_with_timeout(c, Fresh(c, size)) IN
     \/ /\ answer = "routed"
        /\ Deliver(c, Fresh(c, size))
        /\ streak' = [streak EXCEPT ![c] = 0]
        /\ UNCHANGED <<books, reader, route>>
     \/ /\ answer = "full" /\ ~ShouldClose(Streaked(c), Shedding)
        /\ streak' = [streak EXCEPT ![c] = Streaked(c)]
        /\ Drain
        /\ UNCHANGED <<books, route, chan, seen, bypassed>>
     \/ /\ answer # "routed" /\ (answer = "full" => ShouldClose(Streaked(c), Shedding))
        /\ Close(c) /\ remove_flow(c) /\ UNCHANGED press
        /\ IF answer = "full" THEN Drain ELSE UNCHANGED reader
        /\ UNCHANGED <<seen, bypassed>>
  /\ UNCHANGED <<fairshare, switches>>

\* RPC_CLOSE_EXT or RPC_CLOSE_CONN.
ReadClose(c) ==
  /\ reader.pc = "read" /\ route[c] # "none"
  /\ Close(c) /\ remove_flow(c) /\ UNCHANGED press
  /\ Drain
  /\ UNCHANGED <<fairshare, sent, seen, bypassed, switches>>

\* RPC_SIMPLE_ACK for a session that is gone: the flow entry stays.
ReadAck(c) ==
  /\ reader.pc = "read" /\ route[c] = "dropped"
  /\ route' = [route EXCEPT ![c] = "none"]
  /\ Drain
  /\ UNCHANGED <<books, fairshare, streak, chan, sent, seen, bypassed, switches>>

\* The retry timer of a backlog.
RetryBacklog ==
  /\ reader.pc = "read" /\ total > 0
  /\ Drain
  /\ UNCHANGED <<books, fairshare, streak, route, chan, sent, seen, bypassed, switches>>

-----------------------------------------------------------------------------
(***************************************************************************)
(* drain_fairness_scheduler.                                               *)
(***************************************************************************)
\* A call of next_decision begins a round over the active ring.
NextDecision ==
  /\ reader.pc = "drain"
  /\ IF reader.left = 0 \/ ring = <<>>
       THEN reader' = Reading
       ELSE reader' = [reader EXCEPT !.pc = "visit", !.visits = Len(ring), !.left = @ - 1]
  /\ UNCHANGED <<flows, ring, total, bucketBytes, standing, backed>>
  /\ IF reader.left = 0 THEN UNCHANGED press ELSE evaluate_pressure(press, FALSE)
  /\ UNCHANGED <<fairshare, streak, route, chan, sent, seen, bypassed, switches>>

\* A flow that is passed over, or has more frames, goes to the end of the ring.
requeue_active(c) == ring' = Append(Tail(ring), c)

Visit(aged) ==
  /\ reader.pc = "visit" /\ reader.visits > 0
  /\ LET c == Head(ring)
         f == classify_flow(flows[c], press.level, aged)
         granted == Min({f.deficit + effective_quantum_bytes(f, press.level), MaxFlow})
         front == Head(f.q)
         rest == Tail(f.q)
         kept == [f EXCEPT !.q = rest, !.pending = @ - front.size, !.ringed = rest # <<>>,
                           !.deficit = IF rest = <<>> THEN 0 ELSE granted - front.size,
                           !.state = IF rest = <<>> THEN "idle" ELSE @]
         passed == [f EXCEPT !.deficit = granted]
     IN IF granted < front.size
          THEN /\ flows' = [flows EXCEPT ![c] = passed]
               /\ requeue_active(c)
               /\ apply_flow_membership_delta(flows[c], passed)
               /\ reader' = [reader EXCEPT !.visits = @ - 1]
               /\ UNCHANGED <<total, bucketBytes>>
          ELSE /\ flows' = [flows EXCEPT ![c] = kept]
               /\ IF rest = <<>> THEN ring' = Tail(ring) ELSE requeue_active(c)
               /\ apply_flow_membership_delta(flows[c], kept)
               /\ total' = total - front.size
               /\ bucketBytes' = [bucketBytes EXCEPT ![Bucket[c]] = @ - front.size]
               /\ reader' = [reader EXCEPT !.pc = "route", !.c = c, !.frame = front, !.level = press.level]
  /\ UNCHANGED <<press, fairshare, streak, route, chan, sent, seen, bypassed, switches>>

\* A round without a frame to dispatch ends the drain.
RoundIdle ==
  /\ reader.pc = "visit" /\ reader.visits = 0
  /\ reader' = Reading
  /\ UNCHANGED <<books, fairshare, streak, route, chan, sent, seen, bypassed, switches>>

Again == reader' = [Reading EXCEPT !.pc = "drain", !.left = reader.left]

Routed(aged) ==
  /\ reader.pc = "route" /\ route_with_timeout(reader.c, reader.frame) = "routed"
  /\ Deliver(reader.c, reader.frame)
  /\ streak' = [streak EXCEPT ![reader.c] = 0]
  /\ LET f == flows[reader.c]
         g == classify_flow([f EXCEPT !.stalls = 0], press.level, aged)
     IN /\ flows' = [flows EXCEPT ![reader.c] = g]
        /\ apply_flow_membership_delta(f, g)
  /\ UNCHANGED <<ring, total, bucketBytes>>
  /\ evaluate_pressure(press, FALSE)
  /\ Again
  /\ UNCHANGED <<fairshare, route, sent, switches>>

\* Mutant: a frame the channel had no room for goes behind the others.
PutBackLast(q, fr) == Append(q, fr)
\* The frame the channel had no room for goes back to the front.
PutBack(q, fr) == <<fr>> \o q

\* apply_dispatch_feedback for a full channel: shed the frame or put it back,
\* and close a flow that stalls for too long.
QueueFull(aged) ==
  /\ reader.pc = "route" /\ route_with_timeout(reader.c, reader.frame) = "full"
  /\ LET c == reader.c
         fr == reader.frame
         stalls == IF Backpressure /\ flows[c].stalls < CloseStalls THEN flows[c].stalls + 1 ELSE flows[c].stalls
         f == [flows[c] EXCEPT !.stalls = stalls]
         shed == Backpressure /\ (\/ press.level = Saturated
                                  \/ press.level = Shedding /\ f.standing /\ stalls >= ShedStalls)
         back == IF shed THEN f
                 ELSE [f EXCEPT !.q = PutBack(@, fr), !.pending = @ + fr.size, !.ringed = TRUE]
         g == classify_flow(back, press.level, aged)
         noted == IF Backpressure THEN Stalled(press) ELSE press
         stuck == Backpressure /\ stalls >= CloseStalls /\ press.level = Saturated
         close == stuck \/ ShouldClose(Streaked(c), reader.level)
         stand == standing + Delta(flows[c].standing, g.standing)
         bk == backed + Delta(Backed(flows[c].state), Backed(g.state))
         bytes == IF shed THEN total ELSE total + fr.size
     IN IF close
          THEN /\ Close(c) /\ remove_flow(c)
               /\ IF stuck THEN evaluate_pressure(noted, TRUE)
                  ELSE press' = maybe_evaluate(noted, TRUE,
                                  derive_target_state(noted, bytes, OpenIn(flows), stand, bk))
          ELSE /\ flows' = [flows EXCEPT ![c] = g]
               /\ ring' = IF shed THEN ring ELSE Ringed(c, flows[c])
               /\ total' = bytes
               /\ bucketBytes' = IF shed THEN bucketBytes ELSE [bucketBytes EXCEPT ![Bucket[c]] = @ + fr.size]
               /\ standing' = stand /\ backed' = bk
               /\ evaluate_pressure(noted, TRUE)
               /\ streak' = [streak EXCEPT ![c] = Streaked(c)]
               /\ UNCHANGED <<route, chan>>
  /\ Again
  /\ UNCHANGED <<fairshare, sent, seen, bypassed, switches>>

\* No connection, or its receiver is gone.
ConnectionGone ==
  /\ reader.pc = "route" /\ route_with_timeout(reader.c, reader.frame) \in {"none", "closed"}
  /\ Close(reader.c) /\ remove_flow(reader.c)
  /\ evaluate_pressure(press, TRUE)
  /\ Again
  /\ UNCHANGED <<fairshare, sent, seen, bypassed, switches>>

-----------------------------------------------------------------------------
\* The session takes a frame from its channel.
Take(c) ==
  /\ route[c] = "open" /\ chan[c] # <<>>
  /\ chan' = [chan EXCEPT ![c] = Tail(@)]
  /\ UNCHANGED <<books, fairshare, reader, streak, route, sent, seen, bypassed, switches>>

\* The session ends: its receiver goes first, then its routing entry.
EndSession(c) ==
  /\ route[c] # "none"
  /\ route' = [route EXCEPT ![c] = IF @ = "open" THEN "dropped" ELSE "none"]
  /\ chan' = [chan EXCEPT ![c] = <<>>]
  /\ UNCHANGED <<books, fairshare, reader, streak, sent, seen, bypassed, switches>>

\* The operator changes me_route_fairshare_enabled.
SwitchFairshare ==
  /\ reader.pc = "read" /\ switches < MaxSwitches
  /\ fairshare' = ~fairshare /\ switches' = switches + 1
  /\ UNCHANGED <<books, reader, streak, route, chan, sent, seen, bypassed>>

ReaderNext ==
  \/ RetryBacklog \/ NextDecision \/ RoundIdle \/ ConnectionGone
  \/ \E aged \in BOOLEAN : Visit(aged) \/ Routed(aged) \/ QueueFull(aged)

Next ==
  \/ ReaderNext \/ SwitchFairshare \/ rotate_window_if_needed
  \/ \E c \in Conns : Take(c) \/ EndSession(c) \/ ReadClose(c) \/ ReadAck(c)
  \/ \E c \in Conns, size \in Sizes : ReadQueued(c, size) \/ ReadDirect(c, size)

-----------------------------------------------------------------------------
\* The counters the admission and the pressure rest on say what the queues
\* hold, however frames are put back, shed or removed with their flow; and the
\* ring holds exactly the flows with frames, each once, so none is forgotten.
SchedulerBooksExact ==
  LET open == {c \in Conns : flows[c].open} IN
  /\ total = FoldSet(LAMBDA c, n : n + Bytes(flows[c].q), 0, open)
  /\ \A b \in DOMAIN bucketBytes :
       bucketBytes[b] = FoldSet(LAMBDA c, n : n + Bytes(flows[c].q), 0, {c \in open : Bucket[c] = b})
  /\ \A c \in open : flows[c].pending = Bytes(flows[c].q)
  /\ standing = Cardinality({c \in open : flows[c].standing})
  /\ backed = Cardinality({c \in open : Backed(flows[c].state)})
  /\ Len(ring) = Cardinality(ToSet(ring))
  /\ ToSet(ring) = {c \in open : flows[c].q # <<>>}
  /\ \A c \in open : flows[c].ringed = (c \in ToSet(ring))

\* Frames of a connection enter its channel in the order they came, through
\* full channels, retries and shed frames, unless the operator switches the
\* scheduler off while frames are queued.
InOrder == \A c \in Conns : seen'[c] # seen[c] /\ ~bypassed'[c] => seen'[c] > seen[c]

=============================================================================
