----------------------------- MODULE RelayIdle ------------------------------
(***************************************************************************)
(* The registry of idle sessions over the Middle-End                       *)
(* (src/src/proxy/middle_relay/idle.rs).  A session that reads nothing for *)
(* the soft limit marks itself; a pressure event lets the oldest marked    *)
(* session evict itself.  Sessions run on different threads: looking at    *)
(* the event, scanning the order and claiming the event are steps of their *)
(* own, and an entry and its place in the order are removed one after the  *)
(* other.                                                                  *)
(***************************************************************************)
EXTENDS Integers, FiniteSets

CONSTANTS Sessions, MaxMarks, MaxPressure

VARIABLES
  idlePc,    \* step of each session
  idleSeen,  \* seen_pressure_seq
  latest, spent,             \* what the session read of the two counters
  place,     \* place in the order that is still to be removed
  after,     \* where a session goes when its mark is gone
  byConn, ordered, markSeq,  \* RelayIdleCandidateRegistry
  pressure, consumed,        \* pressure_event_seq, pressure_consumed_seq
  evicted    \* history: number of evictions

idleVars == <<idlePc, idleSeen, latest, spent, place, after, byConn, ordered, markSeq, pressure,
              consumed, evicted>>
idleLocals == <<idleSeen, latest, spent, place, after>>

NoMark == [order |-> 0, pressure |-> 0]

IdleInit ==
  /\ idlePc = [s \in Sessions |-> "top"] /\ idleSeen = [s \in Sessions |-> 0]
  /\ latest = [s \in Sessions |-> 0] /\ spent = [s \in Sessions |-> 0]
  /\ place = [s \in Sessions |-> 0] /\ after = [s \in Sessions |-> "top"]
  /\ byConn = [s \in Sessions |-> NoMark] /\ ordered = {} /\ markSeq = 0
  /\ pressure = 0 /\ consumed = 0 /\ evicted = 0

Go(s, step) == idlePc' = [idlePc EXCEPT ![s] = step]

\* note_relay_pressure_event_in.
note_relay_pressure_event_in ==
  /\ pressure < MaxPressure /\ pressure' = pressure + 1
  /\ UNCHANGED <<idlePc, idleLocals, byConn, ordered, markSeq, consumed, evicted>>

\* read_exact_with_policy reaches the soft limit.
mark_relay_idle_candidate_in(s) ==
  /\ idlePc[s] = "read" /\ byConn[s] = NoMark /\ markSeq < MaxMarks
  /\ markSeq' = markSeq + 1
  /\ byConn' = [byConn EXCEPT ![s] = [order |-> markSeq + 1, pressure |-> pressure]]
  /\ ordered' = ordered \union {<<markSeq + 1, s>>}
  /\ UNCHANGED <<idlePc, idleLocals, pressure, consumed, evicted>>

\* The entry goes first.
RemoveEntry(s, next) ==
  /\ byConn' = [byConn EXCEPT ![s] = NoMark]
  /\ place' = [place EXCEPT ![s] = byConn[s].order]
  /\ after' = [after EXCEPT ![s] = next]
  /\ Go(s, IF byConn[s] = NoMark THEN next ELSE "unmark")

\* A frame of the client, the hard limit or the end of the session clear the mark.
clear_relay_idle_candidate_in(s, next) ==
  /\ idlePc[s] = "read"
  /\ RemoveEntry(s, next)
  /\ UNCHANGED <<idleSeen, latest, spent, ordered, markSeq, pressure, consumed, evicted>>

\* Its place in the order goes next.
RemovePlace(s) ==
  /\ idlePc[s] = "unmark"
  /\ ordered' = ordered \ {<<place[s], s>>}
  /\ place' = [place EXCEPT ![s] = 0] /\ after' = [after EXCEPT ![s] = "top"]
  /\ Go(s, after[s])
  /\ UNCHANGED <<idleSeen, latest, spent, byConn, markSeq, pressure, consumed, evicted>>

\* A change of the route, or a relayed frame, brings the session to the top of its loop.
WakeUp(s) ==
  /\ idlePc[s] = "read"
  /\ Go(s, "top")
  /\ UNCHANGED <<idleLocals, byConn, ordered, markSeq, pressure, consumed, evicted>>

-----------------------------------------------------------------------------
(***************************************************************************)
(* maybe_evict_idle_candidate_on_pressure_in.                              *)
(***************************************************************************)
\* An event is looked at once, and not when it was consumed already.
LookAtPressure(s) ==
  /\ idlePc[s] = "top"
  /\ idleSeen' = [idleSeen EXCEPT ![s] = pressure]
  /\ IF pressure = idleSeen[s] \/ pressure = consumed
       THEN Go(s, "read") /\ UNCHANGED <<latest, spent>>
       ELSE /\ Go(s, "oldest")
            /\ latest' = [latest EXCEPT ![s] = pressure] /\ spent' = [spent EXCEPT ![s] = consumed]
  /\ UNCHANGED <<place, after, byConn, ordered, markSeq, pressure, consumed, evicted>>

ForgetPressure(s) == latest' = [latest EXCEPT ![s] = 0] /\ spent' = [spent EXCEPT ![s] = 0]

\* Places whose entry is gone, or was marked again, are dropped on the way.
IsMark(e) == byConn[e[2]].order = e[1]
Dead == {e \in ordered : ~IsMark(e) /\ \A f \in ordered : IsMark(f) => e[1] < f[1]}
IsOldest(s) == \E e \in ordered : e[2] = s /\ IsMark(e) /\ \A f \in ordered : IsMark(f) => e[1] <= f[1]

FindOldest(s) ==
  /\ idlePc[s] = "oldest"
  /\ ordered' = ordered \ Dead
  /\ IF ordered = Dead
       THEN consumed' = IF consumed = spent[s] THEN latest[s] ELSE consumed
       ELSE UNCHANGED consumed
  /\ IF IsOldest(s) /\ byConn[s].pressure # latest[s]
       THEN Go(s, "claim") /\ UNCHANGED <<latest, spent>>
       ELSE Go(s, "read") /\ ForgetPressure(s)
  /\ UNCHANGED <<idleSeen, place, after, byConn, markSeq, pressure, evicted>>

\* Mutant: the event is not claimed against other sessions.
ClaimRegardless(s) == TRUE
\* The comparison of the exchange that claims the event.
ClaimsEvent(s) == consumed = spent[s]

Claim(s) ==
  /\ idlePc[s] = "claim"
  /\ ForgetPressure(s)
  /\ IF ClaimsEvent(s)
       THEN /\ consumed' = latest[s]
            /\ evicted' = evicted + 1
            /\ RemoveEntry(s, "gone")
       ELSE Go(s, "read") /\ UNCHANGED <<consumed, evicted, byConn, place, after>>
  /\ UNCHANGED <<idleSeen, ordered, markSeq, pressure>>

IdleNext ==
  \/ note_relay_pressure_event_in
  \/ \E s \in Sessions :
       \/ mark_relay_idle_candidate_in(s) \/ \E next \in {"top", "gone"} : clear_relay_idle_candidate_in(s, next)
       \/ RemovePlace(s) \/ WakeUp(s) \/ LookAtPressure(s) \/ FindOldest(s) \/ Claim(s)

IdleSpec == IdleInit /\ [][IdleNext]_idleVars

-----------------------------------------------------------------------------
\* A pressure event evicts at most one session, though several look at it at
\* once and others mark and clear themselves meanwhile, and a session that is
\* gone never stands before live ones in the order for longer than a scan.
OneEvictionPerPressure ==
  /\ evicted <= consumed /\ consumed <= pressure
  /\ \A s \in Sessions : idlePc[s] = "gone" => byConn[s] = NoMark /\ \A e \in ordered : e[2] # s

=============================================================================
