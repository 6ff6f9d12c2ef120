------------------------- MODULE DirectBufferBudget -------------------------
(***************************************************************************)
(* The process-wide envelope of copy buffers of Direct relay sessions      *)
(* (src/src/proxy/direct_buffer_budget.rs).  A fixed ceiling bounds the    *)
(* bytes all leases hold; a controller moves a softer target between a     *)
(* floor and the ceiling.  A reservation loads its limit and only then     *)
(* runs the compare-and-swap loop, so the limit may be stale by then.      *)
(*                                                                         *)
(* Sizes are natural numbers; Unit is DIRECT_BUFFER_UNIT_BYTES.            *)
(***************************************************************************)
EXTENDS UnitSums

CONSTANTS
  Leases,            \* identities of leases, one per Direct session
  Unit,              \* accounting granularity
  HardLimit,         \* absolute ceiling
  FloorMin,          \* TARGET_FLOOR_MIN_BYTES
  IncrementMin,      \* least recovery step (4 MiB in the code)
  RecoverySamples,   \* HEALTHY_RECOVERY_SAMPLES
  MinimumTotal,      \* DIRECT_BASE_C2S_BYTES + DIRECT_BASE_S2C_BYTES
  RequestSizes,      \* sizes the sessions ask for
  MemTotal,          \* memory visible to the process, 0 when unknown
  MemAvailable,      \* values a sample of available memory may take
  ConnectionPcts,    \* values of connection_fill_pct, -1 when unlimited
  ConntrackPressure  \* values of conntrack_pressure_active

ASSUME BudgetAssumption ==
  /\ IsFiniteSet(Leases)
  /\ Unit \in Nat \ {0}
  /\ HardLimit \in Nat \ {0} /\ HardLimit % Unit = 0
  /\ FloorMin \in Nat /\ FloorMin >= Unit /\ IncrementMin \in Nat
  /\ RecoverySamples \in Nat \ {0}
  /\ MinimumTotal \in Nat \ {0}
  /\ RequestSizes \subseteq Nat
  /\ MemTotal \in Nat /\ MemAvailable \subseteq Nat
  /\ ConnectionPcts \subseteq Int
  /\ ConntrackPressure \subseteq BOOLEAN

Tiers == 0..3

Undecided == 0

Phases == {"none", "reserving", "fallback", "held", "growing"}

VARIABLES
  target,        \* target_bytes
  reserved,      \* reserved_bytes
  tierSessions,  \* tier_sessions gauges
  signals,       \* counters among denied/fallback/rejected that grew since the last tick
  healthyStreak, \* healthy_streak of the controller
  decided,       \* target the running tick is about to store
  phase,         \* where each session stands with its lease
  held,          \* reserved_bytes of each lease, 0 when there is none
  tier,          \* tier of each lease
  want,          \* size the running reservation asks for
  limit          \* limit it loaded

budgetVars == <<target, reserved, tierSessions, signals, healthyStreak, decided>>
leaseVars == <<phase, held, tier, want, limit>>
vars == <<target, reserved, tierSessions, signals, healthyStreak, decided,
          phase, held, tier, want, limit>>

-----------------------------------------------------------------------------
(* Arithmetic.                                                             *)

Greatest(a, b) == IF a >= b THEN a ELSE b

align_up(n) == ((n + Unit - 1) \div Unit) * Unit
align_down(n) == (n \div Unit) * Unit

\* percentage(value, total); -1 stands for None.
percentage(value, total) ==
  IF total = 0 THEN -1 ELSE Least((value * 100) \div total, 100)

target_floor_bytes == Least(Greatest(HardLimit \div 8, FloorMin), HardLimit)

ClampedTarget(t) ==
  align_down(Least(Greatest(t, target_floor_bytes), HardLimit))

PromotionLimit == Least(target, HardLimit)

FitsIgnoringReserved(n, lim) == n <= lim

\* try_add_reserved refuses when the request exceeds what is left.
Fits(n, lim) == n <= SaturatingSub(lim, reserved)

-----------------------------------------------------------------------------
Init ==
  /\ target = HardLimit
  /\ reserved = 0
  /\ tierSessions = [t \in Tiers |-> 0]
  /\ signals = {}
  /\ healthyStreak = 0 /\ decided = Undecided
  /\ phase = [l \in Leases |-> "none"]
  /\ held = [l \in Leases |-> 0]
  /\ tier = [l \in Leases |-> 0]
  /\ want = [l \in Leases |-> 0]
  /\ limit = [l \in Leases |-> 0]

(***************************************************************************)
(* Admission of a session: try_reserve at its base size against the        *)
(* target, then at the minimum size against the ceiling.                   *)
(***************************************************************************)

\* The first try_reserve(bytes, false) rounds the size and loads the target.
BeginReserve(l, bytes) ==
  /\ phase[l] = "none"
  /\ phase' = [phase EXCEPT ![l] = "reserving"]
  /\ want' = [want EXCEPT ![l] = align_up(bytes)]
  /\ limit' = [limit EXCEPT ![l] = PromotionLimit]
  /\ UNCHANGED <<held, tier>>
  /\ UNCHANGED budgetVars

\* want and limit are locals of the call: they die with it.
CallReturns(l) ==
  /\ want' = [want EXCEPT ![l] = 0]
  /\ limit' = [limit EXCEPT ![l] = 0]

Admitted(l) ==
  /\ reserved' = reserved + want[l]
  /\ held' = [held EXCEPT ![l] = want[l]]
  /\ tier' = [tier EXCEPT ![l] = 0]
  /\ tierSessions' = [tierSessions EXCEPT ![0] = @ + 1]
  /\ phase' = [phase EXCEPT ![l] = "held"]

\* The compare-and-swap of the first attempt succeeds.
ReserveOk(l) ==
  /\ phase[l] = "reserving"
  /\ Fits(want[l], limit[l])
  /\ Admitted(l) /\ CallReturns(l)
  /\ UNCHANGED <<target, signals, healthyStreak, decided>>

\* It is refused; the caller retries at minimum size against the ceiling.
ReserveRefused(l) ==
  /\ phase[l] = "reserving"
  /\ ~Fits(want[l], limit[l])
  /\ phase' = [phase EXCEPT ![l] = "fallback"]
  /\ want' = [want EXCEPT ![l] = align_up(MinimumTotal)]
  /\ limit' = [limit EXCEPT ![l] = HardLimit]
  /\ UNCHANGED <<held, tier>>
  /\ UNCHANGED budgetVars

FallbackOk(l) ==
  /\ phase[l] = "fallback"
  /\ Fits(want[l], limit[l])
  /\ Admitted(l) /\ CallReturns(l)
  /\ signals' = signals \cup {"fallback"}
  /\ UNCHANGED <<target, healthyStreak, decided>>

\* Not even the minimum fits: the session is rejected.
FallbackRefused(l) ==
  /\ phase[l] = "fallback"
  /\ ~Fits(want[l], limit[l])
  /\ phase' = [phase EXCEPT ![l] = "none"]
  /\ signals' = signals \cup {"rejected"}
  /\ CallReturns(l)
  /\ UNCHANGED <<target, reserved, tierSessions, healthyStreak, decided, held, tier>>

(***************************************************************************)
(* Operations of a held lease.                                             *)
(***************************************************************************)

\* What a growing lease adds.
Delta(l) == want[l] - held[l]

MoveTier(l, t) ==
  /\ tier' = [tier EXCEPT ![l] = t]
  /\ tierSessions' = IF t = tier[l] THEN tierSessions
                     ELSE [tierSessions EXCEPT ![tier[l]] = SaturatingSub(@, 1),
                                               ![t] = @ + 1]

\* try_grow_to, early return: the lease already covers the size.
GrowCovered(l, bytes) ==
  /\ phase[l] = "held" /\ tier[l] < 3
  /\ align_up(bytes) <= held[l]
  /\ MoveTier(l, tier[l] + 1)
  /\ UNCHANGED <<target, reserved, signals, healthyStreak, decided, phase, held, want, limit>>

\* try_grow_to loads the target ...
BeginGrow(l, bytes) ==
  /\ phase[l] = "held" /\ tier[l] < 3
  /\ align_up(bytes) > held[l]
  /\ phase' = [phase EXCEPT ![l] = "growing"]
  /\ want' = [want EXCEPT ![l] = align_up(bytes)]
  /\ limit' = [limit EXCEPT ![l] = PromotionLimit]
  /\ UNCHANGED <<held, tier>>
  /\ UNCHANGED budgetVars

\* ... and adds the difference, after which the caller sets the new tier.
GrowOk(l) ==
  /\ phase[l] = "growing"
  /\ Fits(Delta(l), limit[l])
  /\ reserved' = reserved + Delta(l)
  /\ held' = [held EXCEPT ![l] = want[l]]
  /\ MoveTier(l, tier[l] + 1)
  /\ phase' = [phase EXCEPT ![l] = "held"]
  /\ CallReturns(l)
  /\ UNCHANGED <<target, signals, healthyStreak, decided>>

GrowDenied(l) ==
  /\ phase[l] = "growing"
  /\ ~Fits(Delta(l), limit[l])
  /\ phase' = [phase EXCEPT ![l] = "held"]
  /\ signals' = signals \cup {"denied"}
  /\ CallReturns(l)
  /\ UNCHANGED <<target, reserved, tierSessions, healthyStreak, decided, held, tier>>

\* set_tier on a demotion; the bytes stay until the buffers have drained.
Demote(l) ==
  /\ phase[l] = "held" /\ tier[l] > 0
  /\ MoveTier(l, tier[l] - 1)
  /\ UNCHANGED <<target, reserved, signals, healthyStreak, decided, phase, held, want, limit>>

\* shrink_to; a size that is not smaller changes nothing.
ShrinkTo(l, bytes) ==
  /\ phase[l] = "held"
  /\ align_up(bytes) < held[l]
  /\ reserved' = reserved - (held[l] - align_up(bytes))
  /\ held' = [held EXCEPT ![l] = align_up(bytes)]
  /\ UNCHANGED <<target, tierSessions, signals, healthyStreak, decided, phase, tier, want, limit>>

\* The lease is dropped with its session.
DropLease(l) ==
  /\ phase[l] = "held"
  /\ reserved' = reserved - held[l]
  /\ held' = [held EXCEPT ![l] = 0]
  /\ tierSessions' = [tierSessions EXCEPT ![tier[l]] = SaturatingSub(@, 1)]
  /\ tier' = [tier EXCEPT ![l] = 0]
  /\ phase' = [phase EXCEPT ![l] = "none"]
  /\ UNCHANGED <<target, signals, healthyStreak, decided, want, limit>>

(***************************************************************************)
(* One tick of run_direct_buffer_budget_controller.                        *)
(***************************************************************************)

UnderPressure(avail, connPct, conntrack) ==
  \/ conntrack
  \/ connPct >= 85
  \/ percentage(avail, MemTotal) \in 0..15
  \/ percentage(reserved, target) >= 90
  \/ signals # {}

Healthy(avail, connPct) ==
  /\ percentage(avail, MemTotal) \notin 0..29
  /\ connPct <= 70

HeadroomTarget(avail) ==
  IF MemTotal = 0 THEN HardLimit
  ELSE Least(reserved + (avail \div 4), HardLimit)

IncrementWithoutMinimum == target \div 16
Increment == Greatest(target \div 16, IncrementMin)

RecoveryDue == healthyStreak + 1 >= RecoverySamples

\* The tick decides from one snapshot of the counters; sessions go on
\* reserving before the decision is stored by ApplyTarget.
Sample(avail, connPct, conntrack) ==
  /\ decided = Undecided
  /\ signals' = {}
  /\ \/ /\ UnderPressure(avail, connPct, conntrack)
        /\ healthyStreak' = 0
        /\ decided' = ClampedTarget(Least((target * 3) \div 4, HeadroomTarget(avail)))
     \/ /\ ~UnderPressure(avail, connPct, conntrack)
        /\ ~Healthy(avail, connPct)
        /\ healthyStreak' = 0
        /\ decided' = IF HeadroomTarget(avail) < target
                      THEN ClampedTarget(HeadroomTarget(avail)) ELSE Undecided
     \/ /\ ~UnderPressure(avail, connPct, conntrack)
        /\ Healthy(avail, connPct)
        /\ IF RecoveryDue
           THEN /\ healthyStreak' = 0
                /\ decided' = ClampedTarget(Least(target + Increment, HeadroomTarget(avail)))
           ELSE /\ healthyStreak' = healthyStreak + 1
                /\ decided' = Undecided
  /\ UNCHANGED <<target, reserved, tierSessions>>
  /\ UNCHANGED leaseVars

Tick == \E avail \in MemAvailable, c \in ConnectionPcts, k \in ConntrackPressure :
          Sample(avail, c, k)

\* set_target_bytes; a lower target is broadcast to the sessions (AdaptiveRelay).
ApplyTarget ==
  /\ decided # Undecided
  /\ target' = decided
  /\ decided' = Undecided
  /\ UNCHANGED <<reserved, tierSessions, signals, healthyStreak>>
  /\ UNCHANGED leaseVars

Request(l, b) == BeginReserve(l, b) \/ GrowCovered(l, b) \/ BeginGrow(l, b) \/ ShrinkTo(l, b)

LeaseStep(l) ==
  \/ ReserveOk(l) \/ ReserveRefused(l) \/ FallbackOk(l) \/ FallbackRefused(l)
  \/ GrowOk(l) \/ GrowDenied(l) \/ Demote(l) \/ DropLease(l)

Next ==
  \/ \E l \in Leases : (\E b \in RequestSizes : Request(l, b)) \/ LeaseStep(l)
  \/ Tick \/ ApplyTarget

Spec == Init /\ [][Next]_vars

-----------------------------------------------------------------------------
(* Properties.                                                             *)

TypeOK ==
  /\ target \in Nat \ {0} /\ reserved \in Int /\ decided \in Nat
  /\ tierSessions \in [Tiers -> Nat]
  /\ signals \subseteq {"denied", "fallback", "rejected"}
  /\ healthyStreak \in 0..(RecoverySamples - 1)
  /\ phase \in [Leases -> Phases]
  /\ held \in [Leases -> Nat] /\ tier \in [Leases -> Tiers]
  /\ want \in [Leases -> Nat] /\ limit \in [Leases -> Nat]

(* Whatever stale limits the concurrent reservations loaded, the leases    *)
(* together never hold more than the absolute ceiling (try_add_reserved).  *)
CeilingRespected == reserved <= HardLimit

(* Every byte added by a reservation is released exactly once: the atomic  *)
(* counter is the sum of the live leases, so fetch_sub in shrink_to and in *)
(* Drop can never wrap below zero.                                         *)
NoLeakedBytes == reserved = SumOver(Leases, held)

\* What holds of one session: its loaded limit is below the ceiling, without
\* a lease it holds nothing, and it grows only to a larger size and tier.
LeaseInv(l) ==
  /\ limit[l] <= HardLimit
  /\ phase[l] \notin {"held", "growing"} => held[l] = 0
  /\ phase[l] = "growing" => want[l] > held[l] /\ tier[l] < 3

(* What the budget's correctness rests on: the two invariants above, with  *)
(* what try_reserve and try_grow_to keep true of each session.             *)
BudgetInv ==
  /\ TypeOK /\ CeilingRespected /\ NoLeakedBytes
  /\ \A l \in Leases : LeaseInv(l)

=============================================================================
