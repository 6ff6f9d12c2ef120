---------------------------- MODULE AdaptiveRelay ----------------------------
(***************************************************************************)
(* Direct relay sessions with resizable copy buffers                       *)
(* (src/src/proxy/relay/adaptive_copy.rs) on top of the shared envelope.   *)
(* Each session runs one task: its two readers, its watchdog tick and its  *)
(* pressure subscription interleave only at the task's select loop, while  *)
(* the budget counters are shared with every other session.                *)
(*                                                                         *)
(* What SessionAdaptiveController.observe decides is an input of a tick.   *)
(***************************************************************************)
EXTENDS DirectBufferBudget

CONSTANTS
  CeilC2S, CeilS2C,   \* configured buffer ceilings
  BaseC2S, BaseS2C,   \* DIRECT_BASE_C2S_BYTES, DIRECT_BASE_S2C_BYTES
  MaxConnections      \* max_connections, 0 when unlimited

Dirs == {"c2s", "s2c"}

ASSUME RelayAssumption ==
  /\ BaseC2S \in Nat \ {0} /\ BaseS2C \in Nat \ {0}
  /\ CeilC2S \in Nat \ {0} /\ CeilS2C \in Nat \ {0}
  /\ BaseC2S <= CeilC2S /\ BaseS2C <= CeilS2C
  /\ MinimumTotal = BaseC2S + BaseS2C
  /\ MaxConnections \in Nat

VARIABLES
  base,       \* effective_base of each session
  desired,    \* desired_bytes of each direction
  actual,     \* actual_bytes of each direction
  loaded,     \* pos # cap: the direction's buffer holds unconsumed bytes
  notified,   \* the pressure watch holds a value this session has not seen
  reconcile   \* reconcile_reservation is the session task's next step

relayOnly == <<base, desired, actual, loaded, notified, reconcile>>
relayVars == <<vars, relayOnly>>

-----------------------------------------------------------------------------
Floor(d) == IF d = "c2s" THEN BaseC2S ELSE BaseS2C
Ceil(d) == IF d = "c2s" THEN CeilC2S ELSE CeilS2C
Total(sizes) == sizes["c2s"] + sizes["s2c"]
NoSizes == [d \in Dirs |-> 0]

initial_base_sizes ==
  IF MaxConnections # 0 /\ (CeilC2S + CeilS2C) * MaxConnections <= target
  THEN [d \in Dirs |-> Ceil(d)]
  ELSE [d \in Dirs |-> Least(Floor(d), Ceil(d))]

direct_direction_size(b, ceiling, t) ==
  LET raw == CASE t = 0 -> b
               [] t = 1 -> ceiling \div 4
               [] t = 2 -> ceiling \div 2
               [] t = 3 -> ceiling
  IN Greatest(Least(Greatest(raw, b), Greatest(ceiling, b)), 1)

SizesForTier(l, t) ==
  [d \in Dirs |-> direct_direction_size(base[l][d], Ceil(d), t)]

RelayInit ==
  /\ Init
  /\ base = [l \in Leases |-> NoSizes]
  /\ desired = [l \in Leases |-> NoSizes]
  /\ actual = [l \in Leases |-> NoSizes]
  /\ loaded = [l \in Leases |-> [d \in Dirs |-> FALSE]]
  /\ notified = [l \in Leases |-> FALSE]
  /\ reconcile = [l \in Leases |-> FALSE]

\* The select loop of the session runs: no handler of its task is half done.
Polling(l) == phase[l] = "held" /\ ~reconcile[l]

-----------------------------------------------------------------------------
(* Admission (lines 162-222).                                              *)

Open(l) ==
  /\ base' = [base EXCEPT ![l] = initial_base_sizes]
  /\ BeginReserve(l, Total(initial_base_sizes))
  /\ UNCHANGED <<desired, actual, loaded, notified, reconcile>>

\* Buffers are allocated at the size the lease covers; the subscription
\* starts with the current pressure generation marked as seen.
StartRelay(l) ==
  LET effective == IF want[l] < Total(base[l])
                   THEN [d \in Dirs |-> Floor(d)] ELSE base[l]
  IN /\ base' = [base EXCEPT ![l] = effective]
     /\ desired' = [desired EXCEPT ![l] = effective]
     /\ actual' = [actual EXCEPT ![l] = effective]
     /\ UNCHANGED <<loaded, notified, reconcile>>

Admit(l) == (ReserveOk(l) \/ FallbackOk(l)) /\ StartRelay(l)

Retry(l) == ReserveRefused(l) /\ UNCHANGED relayOnly

Reject(l) ==
  /\ FallbackRefused(l)
  /\ base' = [base EXCEPT ![l] = NoSizes]
  /\ UNCHANGED <<desired, actual, loaded, notified, reconcile>>

-----------------------------------------------------------------------------
(* The copy loops.                                                         *)

\* poll_fill_buf on a drained buffer resizes it, then reads bytes or not.
Fill(l, d) ==
  /\ Polling(l) /\ ~loaded[l][d]
  /\ actual' = [actual EXCEPT ![l][d] = desired[l][d]]
  /\ \E got \in BOOLEAN : loaded' = [loaded EXCEPT ![l][d] = got]
  /\ UNCHANGED vars
  /\ UNCHANGED <<base, desired, notified, reconcile>>

\* The peer takes the rest of the buffered bytes.
Consume(l, d) ==
  /\ Polling(l) /\ loaded[l][d]
  /\ loaded' = [loaded EXCEPT ![l][d] = FALSE]
  /\ UNCHANGED vars
  /\ UNCHANGED <<base, desired, actual, notified, reconcile>>

-----------------------------------------------------------------------------
(* The watchdog tick and the pressure branch of the select loop.           *)

SetDesired(l, t) == desired' = [desired EXCEPT ![l] = SizesForTier(l, t)]
ReconcileNext(l) == reconcile' = [reconcile EXCEPT ![l] = TRUE]

TickNoTransition(l) ==
  /\ Polling(l)
  /\ ReconcileNext(l)
  /\ UNCHANGED vars
  /\ UNCHANGED <<base, desired, actual, loaded, notified>>

\* apply_controller_transition towards the next tier.
TickPromote(l) ==
  /\ Polling(l) /\ tier[l] < 3
  /\ LET bytes == Total(SizesForTier(l, tier[l] + 1))
     IN \/ /\ GrowCovered(l, bytes)
           /\ SetDesired(l, tier[l] + 1)
           /\ ReconcileNext(l)
        \/ BeginGrow(l, bytes) /\ UNCHANGED <<desired, reconcile>>
  /\ UNCHANGED <<base, actual, loaded, notified>>

PromoteGranted(l) ==
  /\ GrowOk(l)
  /\ SetDesired(l, tier[l] + 1)
  /\ ReconcileNext(l)
  /\ UNCHANGED <<base, actual, loaded, notified>>

\* The controller is put back to the old tier; sizes stay.
PromoteDenied(l) ==
  /\ GrowDenied(l)
  /\ ReconcileNext(l)
  /\ UNCHANGED <<base, desired, actual, loaded, notified>>

\* A quiet or write-pressure demotion of the session's own controller.
TickDemote(l) ==
  /\ Polling(l)
  /\ Demote(l)
  /\ SetDesired(l, tier[l] - 1)
  /\ ReconcileNext(l)
  /\ UNCHANGED <<base, actual, loaded, notified>>

\* apply_global_pressure_demotion.
PressureChanged(l) ==
  /\ Polling(l) /\ notified[l]
  /\ notified' = [notified EXCEPT ![l] = FALSE]
  /\ \/ tier[l] = 0 /\ UNCHANGED vars /\ UNCHANGED desired
     \/ Demote(l) /\ SetDesired(l, tier[l] - 1)
  /\ ReconcileNext(l)
  /\ UNCHANGED <<base, actual, loaded>>

coveredActualOnly(l) == Total(actual[l])

covered(l) ==
  Total([d \in Dirs |-> Greatest(actual[l][d], desired[l][d])])

reconcile_reservation(l) ==
  /\ reconcile[l]
  /\ reconcile' = [reconcile EXCEPT ![l] = FALSE]
  /\ \/ ShrinkTo(l, covered(l))
     \/ align_up(covered(l)) >= held[l] /\ UNCHANGED vars
  /\ UNCHANGED <<base, desired, actual, loaded, notified>>

\* The copy ends, the user is disabled, the session idles out or hits its
\* quota, or its task is dropped: buffers and lease go together.
Close(l) ==
  /\ Polling(l)
  /\ DropLease(l)
  /\ base' = [base EXCEPT ![l] = NoSizes]
  /\ desired' = [desired EXCEPT ![l] = NoSizes]
  /\ actual' = [actual EXCEPT ![l] = NoSizes]
  /\ loaded' = [loaded EXCEPT ![l] = [d \in Dirs |-> FALSE]]
  /\ notified' = [notified EXCEPT ![l] = FALSE]
  /\ UNCHANGED reconcile

-----------------------------------------------------------------------------
(* The controller; a lower target is sent through the watch channel.       *)

ControllerSample == Tick /\ UNCHANGED relayOnly

\* Whether session l finds a new value in the pressure watch.
Broadcast(l) == decided < target /\ phase[l] \in {"held", "growing"}

SetTarget ==
  /\ ApplyTarget
  /\ notified' = [l \in Leases |-> notified[l] \/ Broadcast(l)]
  /\ UNCHANGED <<base, desired, actual, loaded, reconcile>>

SessionStep(l) ==
  \/ Admit(l) \/ Retry(l) \/ Reject(l)
  \/ PromoteGranted(l) \/ PromoteDenied(l)
  \/ PressureChanged(l) \/ reconcile_reservation(l)

RelayNext ==
  \/ \E l \in Leases :
       \/ Open(l) \/ SessionStep(l)
       \/ \E d \in Dirs : Fill(l, d) \/ Consume(l, d)
       \/ TickNoTransition(l) \/ TickPromote(l) \/ TickDemote(l) \/ Close(l)
  \/ ControllerSample \/ SetTarget

RelaySpec == RelayInit /\ [][RelayNext]_relayVars

-----------------------------------------------------------------------------
(* Properties.                                                             *)

(* Whatever denied promotions, demotions and pressure broadcasts a session *)
(* went through, its lease covers the sizes its readers may grow to        *)
(* ("Promotion reserves the desired allocation before either reader        *)
(* grows", reconcile_reservation).                                         *)
DesiredCovered == \A l \in Leases : Total(desired[l]) <= held[l]

\* What a session's task keeps true of its sizes: they are those of its tier,
\* within the ceilings, and what it asks for covers the sizes it is to use.
SessionInv(l) ==
  /\ phase[l] \in {"none", "reserving", "fallback"} => desired[l] = NoSizes
  /\ phase[l] # "none" => \A d \in Dirs : base[l][d] \in 1..Ceil(d)
  /\ phase[l] = "reserving" => want[l] >= Total(base[l])
  /\ phase[l] = "fallback" => want[l] >= MinimumTotal
  /\ phase[l] \in {"held", "growing"} => desired[l] = SizesForTier(l, tier[l])
  /\ phase[l] = "growing" => want[l] >= Total(SizesForTier(l, tier[l] + 1))

(* What the coverage of a session's buffers rests on: the envelope's own   *)
(* invariant, and the sizes try_grow_to and shrink_to are called with.     *)
RelayInv ==
  /\ BudgetInv /\ DesiredCovered
  /\ base \in [Leases -> [Dirs -> Nat]]
  /\ desired \in [Leases -> [Dirs -> Nat]] /\ actual \in [Leases -> [Dirs -> Nat]]
  /\ \A l \in Leases : SessionInv(l)

(* A buffer grows only when it is drained, and only to the size its        *)
(* session's current tier gives it: a demotion is never outrun by a read   *)
(* of the old size (poll_fill_buf, desired_bytes).                         *)
DrainedBufferFollowsDemotion ==
  [][\A l \in Leases, d \in Dirs :
       actual'[l][d] > actual[l][d] /\ phase[l] = "held" =>
         ~loaded[l][d] /\ actual'[l][d] <= direct_direction_size(base[l][d], Ceil(d), tier[l])]_relayVars

(* A session at the top tier gives memory back after every cut of the     *)
(* target: the broadcast reaches it however its handlers interleave with   *)
(* the controller (pressure_rx, apply_global_pressure_demotion).           *)
YieldsToPressure(l) ==
  (decided # Undecided /\ decided < target /\ tier[l] = 3) ~> (tier[l] < 3)
=============================================================================
