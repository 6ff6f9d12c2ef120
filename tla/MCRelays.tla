------------------------------ MODULE MCRelays -------------------------------
(***************************************************************************)
(* Instances for TLC of what carries a session: the front it passes        *)
(* (ClientFront), the adaptive buffers of a Direct relay on the shared     *)
(* envelope (AdaptiveRelay), the route it was admitted on and the cutover  *)
(* to another (RouteCutover), and the tasks of a Middle-End relay          *)
(* (MiddleRelay).                                                          *)
(***************************************************************************)
EXTENDS AdaptiveRelay, TLC

\* Sessions of Quiet connect, hold their base buffers and leave; no bytes
\* flow through them.  They compete with the others for the envelope.
CONSTANTS l2, Quiet

VARIABLE view   \* what a behaviour is about
VARIABLES config, flips, poolPresent, ready, route, directSince, admission, gatePc, nextOpen,
          readyObserved, readySeen, notReadyFor, pc, snap, kind, seen   \* RouteCutover
VARIABLES middlePc, partial, torn, quiet, marked, grace, debt, result, queue, sender, inbox,
          writer, unflushed, registered, stop, cancelled, middleRoute, relayedTorn, left   \* MiddleRelay
VARIABLES conf, transport, first, trusted, sni, sent, end, got, frontPc, outcome, peer, hello,
          initial, pending, frontTarget, toMask, total, up, down, answers, maskOpen, toClient   \* ClientFront

\* Every size a session may ask for.
MCRequestSizes == 0..(CeilC2S + CeilS2C)

\* me2dc_fast has no effect without me2dc_fallback.
FallbackConfigs == {<<FALSE, FALSE>>, <<TRUE, FALSE>>, <<TRUE, TRUE>>}
\* A front with and without PROXY headers, masking to a host.
PlainFront == [proxy_protocol |-> FALSE, first_byte |-> FALSE, direct |-> TRUE, mask |-> TRUE, unix |-> FALSE]

routeVars == <<config, flips, poolPresent, ready, route, directSince, admission, gatePc,
               nextOpen, readyObserved, readySeen, notReadyFor, pc, snap, kind, seen>>
middleVars == <<middlePc, partial, torn, quiet, marked, grace, debt, result, queue, sender,
                inbox, writer, unflushed, registered, stop, cancelled, middleRoute,
                relayedTorn, left>>
frontVars == <<conf, transport, first, trusted, sni, sent, end, got, frontPc, outcome, peer,
               hello, initial, pending, frontTarget, toMask, total, up, down, answers,
               maskOpen, toClient>>
allVars == <<view, relayVars, routeVars, middleVars, frontVars>>

QuietStay == \A l \in Quiet : phase'[l] # "growing" /\ loaded'[l] = loaded[l]

Route == INSTANCE RouteCutover WITH
  Sessions <- {"s1"}, Configs <- FallbackConfigs, RuntimeGrace <- 1, StartupGrace <- 3,
  MaxFlips <- 4

Frames == INSTANCE MiddleRelay WITH
  IdlePolicy <- TRUE, QueueCap <- 1, InboxCap <- 1, BatchFrames <- 2, DebtPerTiny <- 2,
  DebtLimit <- 4, MaxFrames <- 2, MaxAnswers <- 0, MaxFlips <- 0, pc <- middlePc,
  route <- middleRoute

Answers == INSTANCE MiddleRelay WITH
  IdlePolicy <- TRUE, QueueCap <- 1, InboxCap <- 1, BatchFrames <- 2, DebtPerTiny <- 2,
  DebtLimit <- 4, MaxFrames <- 1, MaxAnswers <- 1, MaxFlips <- 0, pc <- middlePc,
  route <- middleRoute

Flips == INSTANCE MiddleRelay WITH
  IdlePolicy <- TRUE, QueueCap <- 1, InboxCap <- 1, BatchFrames <- 2, DebtPerTiny <- 2,
  DebtLimit <- 4, MaxFrames <- 1, MaxAnswers <- 0, MaxFlips <- 1, pc <- middlePc,
  route <- middleRoute

Front == INSTANCE ClientFront WITH
  Configs <- {PlainFront, [PlainFront EXCEPT !.proxy_protocol = TRUE]},
  Transports <- {"stream"}, Firsts <- {"tls", "other"}, MaskHost <- "none",
  MaskDynamic <- TRUE, Exclusive <- [x \in {"ex"} |-> "exhost"], Domains <- {"dom"},
  TlsDomain <- "tlsdom", Snis <- {"ex"}, SelfHosts <- {"dom"}, MaskProxyProtocol <- FALSE,
  ShapeHardening <- TRUE, Aggressive <- FALSE, BucketFloor <- 2, BucketCap <- 4, BlurMax <- 1,
  RelayCap <- 2, DrainCap <- 1, MaxUnits <- 5, MaxAnswers <- 1, pc <- frontPc,
  target <- frontTarget

\* The variables of the other views keep one value.
RouteInit == Route!Init /\ (view # "route" => config = <<TRUE, FALSE>>)

MiddleInit ==
  \/ view = "answers" /\ Answers!Init
  \/ view = "flips" /\ Flips!Init
  \/ view \notin {"answers", "flips"} /\ Frames!Init

FrontInit == Front!Init /\ (view # "front" => (conf = PlainFront /\ first = "other" /\ trusted = TRUE))

MCInit ==
  /\ view \in {"direct", "route", "frames", "answers", "flips", "front"}
  /\ RelayInit
  /\ RouteInit
  /\ MiddleInit
  /\ FrontInit

MCNext ==
  /\ UNCHANGED view
  /\ \/ view = "direct" /\ RelayNext /\ QuietStay /\ UNCHANGED <<routeVars, middleVars, frontVars>>
     \/ view = "route" /\ Route!Next /\ UNCHANGED <<relayVars, middleVars, frontVars>>
     \/ view = "frames" /\ Frames!Next /\ UNCHANGED <<relayVars, routeVars, frontVars>>
     \/ view = "answers" /\ Answers!Next /\ UNCHANGED <<relayVars, routeVars, frontVars>>
     \/ view = "flips" /\ Flips!Next /\ UNCHANGED <<relayVars, routeVars, frontVars>>
     \/ view = "front" /\ Front!Next /\ UNCHANGED <<relayVars, routeVars, middleVars>>

MCSpec ==
  /\ MCInit /\ [][MCNext]_allVars
  /\ WF_relayVars(view = "direct" /\ SetTarget)
  /\ WF_relayVars(view = "direct" /\ ControllerSample)
  /\ \A l \in Leases : WF_relayVars(view = "direct" /\ (Admit(l) \/ Retry(l) \/ Reject(l)))
  /\ \A l \in Leases \ Quiet :
       /\ WF_relayVars(view = "direct" /\ (PromoteGranted(l) \/ PromoteDenied(l)))
       /\ WF_relayVars(view = "direct" /\ reconcile_reservation(l))
       /\ SF_relayVars(view = "direct" /\ PressureChanged(l))
  /\ WF_routeVars(view = "route" /\ Route!GateStep)
  /\ \A s \in {"s1"} : WF_routeVars(view = "route" /\ Route!SessionStep(s))
  /\ WF_middleVars(\/ view = "frames" /\ Frames!Own
                   \/ view = "answers" /\ Answers!Own
                   \/ view = "flips" /\ Flips!Own)
  /\ WF_middleVars(\/ view = "frames" /\ Frames!TimePasses
                   \/ view = "answers" /\ Answers!TimePasses
                   \/ view = "flips" /\ Flips!TimePasses)
  /\ WF_middleVars(\/ view = "frames" /\ Frames!Flush
                   \/ view = "answers" /\ Answers!Flush
                   \/ view = "flips" /\ Flips!Flush)
  /\ WF_frontVars(view = "front" /\ Front!HandshakeStep)
  /\ WF_frontVars(view = "front" /\ Front!MaskStep)
  /\ WF_frontVars(view = "front" /\ Front!Timer)

\* Memory follows the pressure both ways.  A session at the top tier gives
\* memory back after every cut of the target (adaptive.rs), and the controller
\* leads the target back to the absolute ceiling when its samples stop showing
\* pressure, whatever the sessions hold (healthy_streak, increment).
MemoryFollowsPressure ==
  /\ \A l \in Leases \ Quiet : YieldsToPressure(l)
  /\ view = "direct" =>
       (<>[][\A a \in MemAvailable, c \in ConnectionPcts, k \in ConntrackPressure :
               Sample(a, c, k) => ~UnderPressure(a, c, k)]_relayVars
          => <>[](target = HardLimit))

\* The gate opens only on a route that can serve and, with the fallback
\* allowed, never stays closed; a session sent to Middle-End finds a pool
\* (admission.rs, client.rs).
GateFollowsRoute ==
  /\ [](view = "route" => Route!MiddleRouteHasPool)
  /\ Route!GateOpensOnUsableRoute
  /\ view = "route" => Route!FallbackReopensGate
\* No session keeps relaying in a mode the route has left for good.
RelaysFollowTheRoute == Route!RelaysFollowTheRoute

\* A Middle-End session that lost its routing entry, or whose user was
\* disabled, returns and leaves no task, mark or entry behind, whatever the
\* client sends meanwhile; until then it hands on whole frames (session.rs).
LostSessionReturns == []Frames!FramesWhole /\ Frames!LostSessionReturns

\* A connection reaches its relay or ends, whatever the client and the mask
\* host do or do not do: each wait of the front has a timer (client.rs).
ConnectionEnds == view = "front" => Front!ConnectionEnds
==============================================================================
