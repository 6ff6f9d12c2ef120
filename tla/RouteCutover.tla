---------------------------- MODULE RouteCutover ----------------------------
(***************************************************************************)
(* The choice of route for new sessions and the cutover of running ones:   *)
(* the admission gate polls the Middle-End pool, publishes the route and   *)
(* the gate (src/src/maestro/admission.rs), and every session snapshots    *)
(* the route, runs its relay in that mode and leaves it when a newer route *)
(* of the other mode is published (src/src/proxy/route_mode.rs,            *)
(* direct_relay.rs, middle_relay/session.rs).                              *)
(*                                                                         *)
(* use_middle_proxy is on.  me2dc_fallback and me2dc_fast need a restart,  *)
(* so they never change.  A poll  of the gate is one unit of time.         *)
(***************************************************************************)
EXTENDS Integers

CONSTANTS
  Sessions,
  Configs,       \* pairs of general.me2dc_fallback and general.me2dc_fast
  RuntimeGrace,  \* RUNTIME_FALLBACK_AFTER, in polls
  StartupGrace,  \* STARTUP_FALLBACK_AFTER, in polls
  MaxFlips       \* bound on how often the pool's readiness changes

Modes == {"Direct", "Middle"}
Never == -1
LongestGrace == IF RuntimeGrace > StartupGrace THEN RuntimeGrace ELSE StartupGrace

VARIABLES
  config,         \* the pair in use
  flips,          \* readiness changes so far
  poolPresent,    \* the Middle-End pool was published
  ready,          \* admission_ready_conditional_cast of the pool
  route,          \* value of the route watch: mode and generation
  directSince,    \* direct_since_epoch_secs is set
  admission,      \* value of the admission watch
  gatePc,         \* "poll" or "publish": the route is out, the gate is not
  nextOpen,       \* gate the running poll decided on
  readyObserved,  \* ready_observed
  readySeen,      \* what the last poll read
  notReadyFor,    \* age of not_ready_since, Never when it is None
  pc,             \* where each session stands
  snap,           \* its route_snapshot
  kind,           \* the relay it runs
  seen            \* generation its route receiver has marked as seen

gateVars == <<gatePc, nextOpen, readyObserved, readySeen, notReadyFor>>
poolVars == <<config, flips, poolPresent, ready>>
routeVars == <<route, directSince, admission>>
sessionVars == <<pc, snap, kind, seen>>
vars == <<config, flips, poolPresent, ready, route, directSince, admission, gatePc, nextOpen, readyObserved,
          readySeen, notReadyFor, pc, snap, kind, seen>>

Fallback == config[1]
Fast == config[2]

-----------------------------------------------------------------------------
is_session_affected_by_cutover(s) ==
  route.generation > snap[s].generation /\ route.mode # kind[s]

NextRoute(mode) == IF route.mode = mode THEN route
                   ELSE [mode |-> mode, generation |-> route.generation + 1]

\* set_mode: a no-op for the current mode, else the next generation.
set_mode(mode) ==
  /\ route' = NextRoute(mode)
  /\ directSince' = (mode = "Direct")

NoSnapshot == [mode |-> "Direct", generation |-> 0]

\* configure_admission_gate.  With the fallback the pool is built in the
\* background, otherwise startup waited for it.
Init ==
  /\ config \in Configs /\ flips = 0
  /\ poolPresent = ~Fallback
  /\ ready \in IF poolPresent THEN BOOLEAN ELSE {FALSE}
  /\ route = [mode |-> IF Fallback THEN "Direct" ELSE "Middle", generation |-> 0]
  /\ directSince = Fallback
  /\ admission = (ready \/ Fallback)
  /\ gatePc = "poll" /\ nextOpen = admission
  /\ readyObserved = ready /\ readySeen = ready
  /\ notReadyFor = IF ready THEN Never ELSE 0
  /\ pc = [s \in Sessions |-> "idle"]
  /\ snap = [s \in Sessions |-> NoSnapshot]
  /\ kind = [s \in Sessions |-> "Direct"]
  /\ seen = [s \in Sessions |-> 0]

(***************************************************************************)
(* The pool, an input here: it appears once and then comes and goes.       *)
(***************************************************************************)
PoolPublished ==
  /\ ~poolPresent
  /\ poolPresent' = TRUE /\ ready' \in BOOLEAN
  /\ UNCHANGED <<config, flips, routeVars, gateVars, sessionVars>>

ReadinessChanges ==
  /\ poolPresent /\ flips < MaxFlips
  /\ ready' = ~ready /\ flips' = flips + 1
  /\ UNCHANGED <<config, poolPresent, routeVars, gateVars, sessionVars>>

(***************************************************************************)
(* The gate task.                                                          *)
(***************************************************************************)
Aged(n) == IF n = Never \/ n > LongestGrace THEN n ELSE n + 1
Grace == IF readyObserved THEN RuntimeGrace ELSE StartupGrace

NotReadyAgeRestarted == 0

\* The age not_ready_since.get_or_insert(now) measures.
NotReadyAge == IF notReadyFor = Never THEN 0 ELSE Aged(notReadyFor)

StartupFallback == Fallback /\ ~readyObserved
FastFallback == Fallback /\ Fast
GraceFallback == Fallback /\ NotReadyAge > Grace

\* One poll: <<gate, route>> by readiness and the three fallbacks.
Decision ==
  IF ready \/ ~(StartupFallback \/ FastFallback \/ GraceFallback)
  THEN <<ready, "Middle">>
  ELSE <<TRUE, "Direct">>

\* The route is published before the gate.
Poll ==
  /\ gatePc = "poll"
  /\ set_mode(Decision[2])
  /\ nextOpen' = Decision[1]
  /\ readySeen' = ready
  /\ readyObserved' = (readyObserved \/ ready)
  /\ notReadyFor' = IF ready THEN Never
                    ELSE IF StartupFallback \/ FastFallback THEN Aged(notReadyFor)
                    ELSE NotReadyAge
  /\ gatePc' = "publish"
  /\ UNCHANGED <<poolVars, admission, sessionVars>>

PublishGate ==
  /\ gatePc = "publish"
  /\ admission' = nextOpen
  /\ gatePc' = "poll"
  /\ UNCHANGED <<poolVars, route, directSince, nextOpen, readyObserved, readySeen, notReadyFor,
                 sessionVars>>

(***************************************************************************)
(* A session.                                                              *)
(***************************************************************************)
Goto(s, step) == pc' = [pc EXCEPT ![s] = step]

\* The listener drops a connection while the gate is closed.
Accept(s) ==
  /\ pc[s] = "idle" /\ admission
  /\ Goto(s, "handshake")
  /\ UNCHANGED <<poolVars, routeVars, gateVars, snap, kind, seen>>

\* After the handshake and admission of its user the session snapshots the route.
Snapshot(s) ==
  /\ pc[s] = "handshake"
  /\ snap' = [snap EXCEPT ![s] = route]
  /\ Goto(s, "snapped")
  /\ UNCHANGED <<poolVars, routeVars, gateVars, kind, seen>>

\* It picks its relay by the snapshot, Direct if there is no pool, and subscribes.
Subscribe(s) ==
  /\ pc[s] = "snapped"
  /\ kind' = [kind EXCEPT ![s] = IF snap[s].mode = "Middle" /\ poolPresent THEN "Middle"
                                 ELSE "Direct"]
  /\ seen' = [seen EXCEPT ![s] = route.generation]
  /\ Goto(s, "connecting")
  /\ UNCHANGED <<poolVars, routeVars, gateVars, snap>>

\* The relay loop starts with a look at the route ...
FirstCheckSkipped(s) == Goto(s, "waiting")
FirstCheck(s) == Goto(s, "checking")
EnterLoop(s) ==
  /\ pc[s] = "connecting"
  /\ FirstCheck(s)
  /\ UNCHANGED <<poolVars, routeVars, gateVars, snap, kind, seen>>

\* ... borrowed without marking it as seen.
Check(s) ==
  /\ pc[s] = "checking"
  /\ Goto(s, IF is_session_affected_by_cutover(s) THEN "parked" ELSE "waiting")
  /\ UNCHANGED <<poolVars, routeVars, gateVars, snap, kind, seen>>

\* changed() completes when the watch moved past what the receiver has seen.
RouteChanged(s) ==
  /\ pc[s] = "waiting" /\ seen[s] # route.generation
  /\ seen' = [seen EXCEPT ![s] = route.generation]
  /\ Goto(s, "checking")
  /\ UNCHANGED <<poolVars, routeVars, gateVars, snap, kind>>

\* The stagger delay elapses and the session closes with RouteSwitched.
LeaveParked(s) ==
  /\ pc[s] = "parked"
  /\ Goto(s, "idle")
  /\ snap' = [snap EXCEPT ![s] = NoSnapshot]
  /\ kind' = [kind EXCEPT ![s] = "Direct"] /\ seen' = [seen EXCEPT ![s] = 0]
  /\ UNCHANGED <<poolVars, routeVars, gateVars>>

\* The handshake, the connect or the relay ends for another reason.
End(s) ==
  /\ pc[s] \in {"handshake", "snapped", "connecting", "waiting"}
  /\ Goto(s, "idle")
  /\ snap' = [snap EXCEPT ![s] = NoSnapshot]
  /\ kind' = [kind EXCEPT ![s] = "Direct"] /\ seen' = [seen EXCEPT ![s] = 0]
  /\ UNCHANGED <<poolVars, routeVars, gateVars>>

SessionStep(s) == \/ Snapshot(s) \/ Subscribe(s) \/ EnterLoop(s) \/ Check(s)
                  \/ RouteChanged(s) \/ LeaveParked(s)
GateStep == Poll \/ PublishGate

Next ==
  \/ PoolPublished \/ ReadinessChanges \/ GateStep
  \/ \E s \in Sessions : Accept(s) \/ SessionStep(s) \/ End(s)

Spec == Init /\ [][Next]_vars

\* The gate polls on a timer, and a session's awaits on its own state complete.
FairSpec ==
  /\ Spec
  /\ WF_vars(GateStep)
  /\ \A s \in Sessions : WF_vars(SessionStep(s))

-----------------------------------------------------------------------------
Relaying(s) == pc[s] \in {"connecting", "checking", "waiting", "parked"}

\* The branch "use_middle_proxy=true but MePool not initialized" is never
\* taken: whoever snapshots a Middle route finds a pool.
MiddleRouteHasPool ==
  \A s \in Sessions : pc[s] = "snapped" /\ snap[s].mode = "Middle" => poolPresent

\* The gate opens only on a route that can serve: Direct, or Middle when the
\* poll that opened it found the pool ready.
GateOpensOnUsableRoute ==
  [][~admission /\ admission' => route.mode = "Direct" \/ readySeen]_vars

\* No session keeps relaying in a mode the route has left for good: it ends,
\* unless the route comes back to its mode first.
RelaysFollowTheRoute ==
  \A s \in Sessions :
    (Relaying(s) /\ kind[s] # route.mode) ~> (~Relaying(s) \/ kind[s] = route.mode)

\* With the fallback allowed, the gate never stays closed.
FallbackReopensGate == Fallback => []<>admission
=============================================================================
