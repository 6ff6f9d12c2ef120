---------------------------- MODULE Budget_proofs ----------------------------
(***************************************************************************)
(* Proofs about budgets that many sessions draw on.  For the envelope of   *)
(* copy buffers: the absolute ceiling holds and the byte counter is exact, *)
(* for any number of sessions, any sizes and any samples of the controller *)
(* (Spec, BudgetInv); and the sessions of the adaptive relay keep the      *)
(* sizes they ask of their buffers covered by their leases                 *)
(* (DesiredCovered) and let a buffer grow only when it is drained          *)
(* (RelaySpec, RelayInv).  For the gate of full certificates: its gauge is *)
(* exact (CertSpec, CertInv).                                              *)
(***************************************************************************)
EXTENDS AdaptiveRelay, CertBudget

(* Rounding to accounting units (align_up, align_down) stays in Nat.       *)
LEMMA AlignType ==
  ASSUME NEW n \in Nat
  PROVE  align_up(n) \in Nat /\ align_down(n) \in Nat
<1>1. Unit \in Nat \ {0}
  BY BudgetAssumption
<1> DEFINE u == Unit
<1> HIDE DEF u
<1>2. u \in Nat \ {0}
  BY <1>1 DEF u
<1>3. (n \div u) \in Nat /\ ((n + u - 1) \div u) \in Nat
  BY <1>2
<1>4. \A q \in Nat : q * u \in Nat
  BY <1>2
<1> QED
  BY <1>3, <1>4 DEF align_up, align_down, u

(* set_target_bytes clamps to a natural number.                            *)
LEMMA ClampType ==
  ASSUME NEW n \in Nat
  PROVE  ClampedTarget(n) \in Nat
<1>1. HardLimit \in Nat /\ FloorMin \in Nat
  BY BudgetAssumption
<1>2. target_floor_bytes \in Nat
  BY <1>1 DEF target_floor_bytes, Least, Greatest
<1>3. Least(Greatest(n, target_floor_bytes), HardLimit) \in Nat
  BY <1>1, <1>2 DEF Least, Greatest
<1> QED
  BY <1>3, AlignType DEF ClampedTarget

(* A tier change keeps the gauges natural numbers (decrement_saturating).  *)
LEMMA MoveTierType ==
  ASSUME tierSessions \in [Tiers -> Nat], tier \in [Leases -> Tiers],
         NEW l \in Leases, NEW t \in Tiers, MoveTier(l, t)
  PROVE  tierSessions' \in [Tiers -> Nat] /\ tier' \in [Leases -> Tiers]
<1>1. tier[l] \in Tiers
  OBVIOUS
<1>2. SaturatingSub(tierSessions[tier[l]], 1) \in Nat
  BY <1>1 DEF SaturatingSub
<1> QED
  BY <1>1, <1>2 DEF MoveTier

LEMMA BudgetInit == Init => BudgetInv
<1> SUFFICES ASSUME Init PROVE BudgetInv
  OBVIOUS
<1>1. SumOver(Leases, held) = 0
  BY SumZero DEF Init
<1> QED
  BY <1>1, BudgetAssumption
     DEF Init, BudgetInv, LeaseInv, TypeOK, CeilingRespected, NoLeakedBytes, Tiers, Phases, Undecided

(* What a step that changes one lease does to the sum.                     *)
LEMMA HeldSum ==
  ASSUME held \in [Leases -> Nat], held' \in [Leases -> Nat], NEW l \in Leases,
         \A y \in Leases \ {l} : held'[y] = held[y]
  PROVE  SumOver(Leases, held') = SumOver(Leases, held) - held[l] + held'[l]
<1>1. IsFiniteSet(Leases)
  BY BudgetAssumption
<1> QED
  BY <1>1, SumUpdate

(* The counter stays exact when it moves with the lease.                   *)
LEMMA HeldUpdate ==
  ASSUME BudgetInv, NEW l \in Leases, NEW n \in Nat,
         held' = [held EXCEPT ![l] = n], reserved' = reserved - held[l] + n
  PROVE  NoLeakedBytes' /\ held' \in [Leases -> Nat] /\ reserved' \in Int
<1>1. held \in [Leases -> Nat] /\ IsFiniteSet(Leases)
  BY BudgetAssumption DEF BudgetInv, TypeOK
<1>2. held' \in [Leases -> Nat] /\ held'[l] = n /\ \A y \in Leases \ {l} : held'[y] = held[y]
  BY <1>1
<1>3. SumOver(Leases, held') = SumOver(Leases, held) - held[l] + held'[l]
  BY <1>1, <1>2, HeldSum, Zenon
<1> QED
  BY <1>1, <1>2, <1>3 DEF BudgetInv, TypeOK, NoLeakedBytes

(* A request for any number of bytes keeps the envelope's invariant.       *)
LEMMA RequestKeeps ==
  ASSUME BudgetInv, NEW l \in Leases, NEW b \in Nat, Request(l, b)
  PROVE  BudgetInv'
<1> USE DEF Undecided
<1>a. TypeOK /\ CeilingRespected /\ NoLeakedBytes
  BY DEF BudgetInv
<1>b. HardLimit \in Nat
  BY BudgetAssumption
<1>1. CASE BeginReserve(l, b) \/ BeginGrow(l, b)
  <2>1. align_up(b) \in Nat
    BY AlignType
  <2>2. PromotionLimit \in Nat /\ PromotionLimit <= HardLimit
    BY <1>a, <1>b DEF PromotionLimit, Least, TypeOK
  <2>3. UNCHANGED <<target, reserved, tierSessions, signals, healthyStreak, decided, held, tier>>
    BY <1>1 DEF BeginReserve, BeginGrow, budgetVars
  <2>4. /\ want' = [want EXCEPT ![l] = align_up(b)]
        /\ limit' = [limit EXCEPT ![l] = PromotionLimit]
    BY <1>1 DEF BeginReserve, BeginGrow
  <2>5. TypeOK'
    BY <1>1, <1>a, <2>1, <2>2, <2>3, <2>4, Zenon DEF BeginReserve, BeginGrow, TypeOK, Phases
  <2>6. CeilingRespected' /\ NoLeakedBytes'
    BY <1>a, <2>3, Zenon DEF CeilingRespected, NoLeakedBytes
  <2>7. ASSUME NEW m \in Leases
        PROVE  LeaseInv(m)'
    BY <1>1, <1>a, <2>1, <2>2, <2>3, <2>4, Zenon
       DEF BeginReserve, BeginGrow, BudgetInv, LeaseInv, TypeOK
  <2> QED
    BY <2>5, <2>6, <2>7 DEF BudgetInv
<1>2. CASE GrowCovered(l, b)
  <2>1. tier[l] + 1 \in Tiers
    BY <1>2, <1>a DEF GrowCovered, TypeOK, Tiers
  <2>2. tierSessions' \in [Tiers -> Nat] /\ tier' \in [Leases -> Tiers]
    BY <1>2, <1>a, <2>1, MoveTierType, Zenon DEF GrowCovered, TypeOK
  <2> QED
    BY <1>2, <2>2 DEF GrowCovered, MoveTier, BudgetInv, LeaseInv, TypeOK, CeilingRespected, NoLeakedBytes
<1>3. CASE ShrinkTo(l, b)
  <2>1. align_up(b) \in Nat
    BY AlignType
  <2>2. held[l] \in Nat /\ reserved \in Int
    BY <1>a DEF TypeOK
  <2>3. reserved' = reserved - held[l] + align_up(b) /\ reserved' <= reserved
    BY <1>3, <2>1, <2>2 DEF ShrinkTo
  <2>4. NoLeakedBytes' /\ held' \in [Leases -> Nat] /\ reserved' \in Int
    BY <1>3, <2>1, <2>3, HeldUpdate, Zenon DEF ShrinkTo
  <2> QED
    BY <1>3, <1>b, <2>1, <2>2, <2>3, <2>4 DEF ShrinkTo, BudgetInv, LeaseInv, TypeOK, CeilingRespected
<1> QED
  BY <1>1, <1>2, <1>3 DEF Request

(* So does whatever a session goes on to do with its lease.                *)
LEMMA LeaseStepKeeps ==
  ASSUME BudgetInv, NEW l \in Leases, LeaseStep(l)
  PROVE  BudgetInv'
<1> USE DEF Undecided
<1>a. TypeOK /\ CeilingRespected /\ NoLeakedBytes
  BY DEF BudgetInv
<1>b. HardLimit \in Nat
  BY BudgetAssumption, Zenon
<1>1. CASE ReserveOk(l) \/ FallbackOk(l)
  <2>1. held[l] = 0 /\ want[l] \in Nat /\ limit[l] \in Nat /\ limit[l] <= HardLimit
    BY <1>1 DEF BudgetInv, LeaseInv, TypeOK, ReserveOk, FallbackOk
  <2>2. reserved' = reserved - held[l] + want[l]
    BY <1>1, <1>a, <2>1 DEF ReserveOk, FallbackOk, Admitted, TypeOK
  <2>3. NoLeakedBytes' /\ held' \in [Leases -> Nat] /\ reserved' \in Int
    BY <1>1, <2>1, <2>2, HeldUpdate, Zenon DEF ReserveOk, FallbackOk, Admitted
  <2>4. CeilingRespected'
    BY <1>1, <1>a, <1>b, <2>1, <2>2
       DEF ReserveOk, FallbackOk, Fits, SaturatingSub, CeilingRespected, TypeOK
  <2>5. tierSessions' \in [Tiers -> Nat] /\ tier' \in [Leases -> Tiers]
    BY <1>1, <1>a DEF ReserveOk, FallbackOk, Admitted, TypeOK, Tiers
  <2>6. /\ want' = [want EXCEPT ![l] = 0] /\ limit' = [limit EXCEPT ![l] = 0]
        /\ phase' = [phase EXCEPT ![l] = "held"] /\ held' = [held EXCEPT ![l] = want[l]]
        /\ tier' = [tier EXCEPT ![l] = 0]
        /\ UNCHANGED <<target, healthyStreak, decided>>
    BY <1>1 DEF ReserveOk, FallbackOk, Admitted, CallReturns
  <2>7. signals' \subseteq {"denied", "fallback", "rejected"}
    BY <1>1, <1>a, Zenon DEF ReserveOk, FallbackOk, TypeOK
  <2>8. TypeOK'
    BY <1>a, <2>3, <2>5, <2>6, <2>7, Zenon DEF TypeOK, Phases
  <2> QED
    BY <1>b, <2>3, <2>4, <2>6, <2>8 DEF BudgetInv, LeaseInv, TypeOK
<1>2. CASE ReserveRefused(l)
  <2>1. align_up(MinimumTotal) \in Nat
    BY AlignType, BudgetAssumption, Zenon
  <2>2. TypeOK'
    BY <1>2, <1>a, <1>b, <2>1, Zenon DEF ReserveRefused, budgetVars, TypeOK, Phases
  <2>3. CeilingRespected' /\ NoLeakedBytes'
    BY <1>2, <1>a, Zenon DEF ReserveRefused, budgetVars, CeilingRespected, NoLeakedBytes
  <2> QED
    BY <1>2, <1>b, <2>2, <2>3 DEF ReserveRefused, BudgetInv, LeaseInv, TypeOK
<1>3. CASE FallbackRefused(l) \/ GrowDenied(l)
  <2>1. TypeOK'
    <3>1. signals' \subseteq {"denied", "fallback", "rejected"}
      BY <1>3, <1>a, Zenon DEF FallbackRefused, GrowDenied, TypeOK
    <3>2. phase' \in [Leases -> Phases]
      BY <1>3, <1>a, Zenon DEF FallbackRefused, GrowDenied, TypeOK, Phases
    <3>3. want' \in [Leases -> Nat] /\ limit' \in [Leases -> Nat]
      BY <1>3, <1>a DEF FallbackRefused, GrowDenied, CallReturns, TypeOK
    <3> QED
      BY <1>3, <1>a, <3>1, <3>2, <3>3, Zenon DEF FallbackRefused, GrowDenied, TypeOK
  <2>2. CeilingRespected' /\ NoLeakedBytes'
    BY <1>3, <1>a, Zenon DEF FallbackRefused, GrowDenied, CeilingRespected, NoLeakedBytes
  <2> QED
    BY <1>3, <1>b, <2>1, <2>2
       DEF FallbackRefused, GrowDenied, CallReturns, BudgetInv, LeaseInv, TypeOK
<1>4. CASE GrowOk(l)
  <2>1. /\ held[l] \in Nat /\ want[l] \in Nat /\ want[l] > held[l]
        /\ limit[l] \in Nat /\ limit[l] <= HardLimit /\ reserved \in Int
    BY <1>4, Zenon DEF BudgetInv, LeaseInv, TypeOK, GrowOk
  <2>2. reserved' = reserved - held[l] + want[l]
    BY <1>4, <2>1 DEF GrowOk, Delta
  <2>3. NoLeakedBytes' /\ held' \in [Leases -> Nat] /\ reserved' \in Int
    BY <1>4, <2>1, <2>2, HeldUpdate, Zenon DEF GrowOk
  <2>4. CeilingRespected'
    BY <1>4, <1>a, <1>b, <2>1, <2>2 DEF GrowOk, Delta, Fits, SaturatingSub, CeilingRespected
  <2>5. tierSessions' \in [Tiers -> Nat] /\ tier' \in [Leases -> Tiers]
    <3>1. tier[l] + 1 \in Tiers
      BY <1>4 DEF BudgetInv, LeaseInv, GrowOk, TypeOK, Tiers
    <3> QED
      BY <1>4, <1>a, <3>1, MoveTierType, Zenon DEF GrowOk, TypeOK
  <2>6. TypeOK'
    BY <1>4, <1>a, <2>3, <2>5, Zenon DEF GrowOk, CallReturns, TypeOK, Phases
  <2> QED
    BY <1>4, <1>b, <2>3, <2>4, <2>6
       DEF GrowOk, MoveTier, CallReturns, BudgetInv, LeaseInv, TypeOK
<1>5. CASE Demote(l)
  <2>1. tier[l] - 1 \in Tiers
    BY <1>5, <1>a DEF Demote, TypeOK, Tiers
  <2>2. tierSessions' \in [Tiers -> Nat] /\ tier' \in [Leases -> Tiers]
    BY <1>5, <1>a, <2>1, MoveTierType, Zenon DEF Demote, TypeOK
  <2> QED
    BY <1>5, <2>2, Zenon DEF Demote, MoveTier, BudgetInv, LeaseInv, TypeOK, CeilingRespected, NoLeakedBytes
<1>6. CASE DropLease(l)
  <2>1. held[l] \in Nat /\ reserved \in Int /\ tier[l] \in Tiers
    BY <1>a DEF TypeOK
  <2>2. reserved' = reserved - held[l] + 0 /\ reserved' <= reserved
    BY <1>6, <2>1 DEF DropLease
  <2>3. NoLeakedBytes' /\ held' \in [Leases -> Nat] /\ reserved' \in Int
    BY <1>6, <2>1, <2>2, HeldUpdate, Zenon DEF DropLease
  <2>4. tierSessions' \in [Tiers -> Nat] /\ tier' \in [Leases -> Tiers]
    BY <1>6, <1>a, <2>1 DEF DropLease, TypeOK, SaturatingSub, Tiers
  <2> QED
    BY <1>6, <1>b, <2>1, <2>2, <2>3, <2>4
       DEF DropLease, BudgetInv, LeaseInv, TypeOK, CeilingRespected, Phases
<1> QED
  BY <1>1, <1>2, <1>3, <1>4, <1>5, <1>6, Zenon DEF LeaseStep

(* And a tick of the controller, and the store of what it decided.         *)
LEMMA ControllerKeeps ==
  ASSUME BudgetInv, Tick \/ ApplyTarget
  PROVE  BudgetInv'
<1> USE DEF Undecided
<1>a. TypeOK /\ CeilingRespected /\ NoLeakedBytes
  BY DEF BudgetInv
<1>b. HardLimit \in Nat
  BY BudgetAssumption, Zenon
<1>1. CASE Tick
  <2> PICK avail \in MemAvailable, c \in ConnectionPcts, k \in ConntrackPressure :
        Sample(avail, c, k)
    BY <1>1, Zenon DEF Tick
  <2>1. reserved \in Nat
    BY <1>a, UnitsFinite, BudgetAssumption, Zenon DEF NoLeakedBytes, TypeOK
  <2>2. avail \in Nat /\ target \in Nat /\ IncrementMin \in Nat /\ RecoverySamples \in Nat \ {0}
    BY <1>a, BudgetAssumption, Zenon DEF TypeOK
  <2>3. HeadroomTarget(avail) \in Nat
    BY <1>b, <2>1, <2>2 DEF HeadroomTarget, Least
  <2>4. Least((target * 3) \div 4, HeadroomTarget(avail)) \in Nat
    BY <2>2, <2>3 DEF Least
  <2>5. Least(target + Increment, HeadroomTarget(avail)) \in Nat
    BY <2>2, <2>3 DEF Least, Increment, Greatest
  <2>6. decided' \in Nat
    BY <2>3, <2>4, <2>5, ClampType DEF Sample
  <2>7. healthyStreak' \in 0..(RecoverySamples - 1)
    BY <1>a, <2>2 DEF Sample, RecoveryDue, TypeOK
  <2>8. UNCHANGED <<target, reserved, tierSessions, phase, held, tier, want, limit>> /\ signals' = {}
    BY Zenon DEF Sample, leaseVars
  <2> QED
    BY <2>6, <2>7, <2>8, Zenon DEF BudgetInv, LeaseInv, TypeOK, CeilingRespected, NoLeakedBytes
<1>2. CASE ApplyTarget
  BY <1>2, Zenon DEF ApplyTarget, leaseVars, BudgetInv, LeaseInv, TypeOK, CeilingRespected, NoLeakedBytes
<1> QED
  BY <1>1, <1>2

LEMMA BudgetStutters == BudgetInv /\ UNCHANGED vars => BudgetInv'
  BY DEF vars, BudgetInv, LeaseInv, TypeOK, CeilingRespected, NoLeakedBytes

LEMMA BudgetStep == BudgetInv /\ [Next]_vars => BudgetInv'
  BY BudgetStutters, RequestKeeps, LeaseStepKeeps, ControllerKeeps, BudgetAssumption, Zenon DEF Next

(* The inductive invariant holds in every behaviour of the envelope.       *)
THEOREM BudgetInvariant == Spec => []BudgetInv
  BY BudgetInit, BudgetStep, PTL DEF Spec

(* The leases never hold more than the absolute ceiling (try_add_reserved) *)
(* although each one checked a limit that may have been stale.             *)
THEOREM CeilingHolds == Spec => []CeilingRespected
<1>1. BudgetInv => CeilingRespected
  BY DEF BudgetInv
<1> QED
  BY <1>1, BudgetInvariant, PTL

(* reserved_bytes is the sum of the leases (shrink_to, Drop): no byte is   *)
(* leaked or released twice.                                               *)
THEOREM BytesConserved == Spec => []NoLeakedBytes
<1>1. BudgetInv => NoLeakedBytes
  BY DEF BudgetInv
<1> QED
  BY <1>1, BudgetInvariant, PTL

-----------------------------------------------------------------------------
(* Sizes of a session's buffers.                                           *)

(* A size rounded up to accounting units is not smaller (align_up).        *)
LEMMA AlignCovers ==
  ASSUME NEW n \in Nat
  PROVE  align_up(n) \in Nat /\ align_up(n) >= n
<1>1. Unit \in Nat \ {0}
  BY BudgetAssumption
<1> DEFINE u == Unit
           q == (n + u - 1) \div u
<1>2. u \in Nat \ {0}
  BY <1>1
<1>3. q \in Nat /\ q * u \in Nat /\ q * u + u > n + u - 1
  BY <1>2
<1> QED
  BY <1>2, <1>3 DEF align_up

(* A buffer's size is positive, grows with the tier, and is the base size  *)
(* at tier 0 (direct_direction_size).                                      *)
LEMMA SizeType ==
  ASSUME NEW b \in Nat \ {0}, NEW c \in Nat, NEW t \in Tiers
  PROVE  direct_direction_size(b, c, t) \in Nat
  BY DEF direct_direction_size, Least, Greatest, Tiers

LEMMA SizeAtBase ==
  ASSUME NEW b \in Nat \ {0}, NEW c \in Nat
  PROVE  direct_direction_size(b, c, 0) = b
  BY DEF direct_direction_size, Least, Greatest

LEMMA SizeMonotone ==
  ASSUME NEW b \in Nat \ {0}, NEW c \in Nat, NEW t \in 0..2
  PROVE  direct_direction_size(b, c, t) <= direct_direction_size(b, c, t + 1)
<1>1. CASE t = 0
  BY <1>1 DEF direct_direction_size, Least, Greatest
<1>2. CASE t = 1
  BY <1>2 DEF direct_direction_size, Least, Greatest
<1>3. CASE t = 2
  BY <1>3 DEF direct_direction_size, Least, Greatest
<1> QED
  BY <1>1, <1>2, <1>3

LEMMA CeilType ==
  /\ \A d \in Dirs : Ceil(d) \in Nat \ {0} /\ Floor(d) \in 1..Ceil(d)
  /\ Total([d \in Dirs |-> Floor(d)]) = MinimumTotal
  /\ MinimumTotal \in Nat
  BY RelayAssumption DEF Dirs, Ceil, Floor, Total

LEMMA TotalType ==
  ASSUME NEW s \in [Dirs -> Nat]
  PROVE  Total(s) \in Nat
  BY DEF Total, Dirs

-----------------------------------------------------------------------------
(* Buffers never outgrow their lease.                                      *)

LEMMA RelayInitially == RelayInit => RelayInv
<1> SUFFICES ASSUME RelayInit PROVE RelayInv
  OBVIOUS
<1>1. BudgetInv
  BY BudgetInit DEF RelayInit
<1>2. NoSizes \in [Dirs -> Nat] /\ Total(NoSizes) = 0
  BY DEF NoSizes, Total, Dirs
<1> QED
  BY <1>1, <1>2 DEF RelayInit, Init, RelayInv, DesiredCovered, SessionInv

(* The sizes of a session's tiers, within its own base and ceilings.       *)
LEMMA TierSizes ==
  ASSUME RelayInv, NEW l \in Leases, phase[l] # "none", NEW t \in Tiers
  PROVE  /\ SizesForTier(l, t) \in [Dirs -> Nat]
         /\ t = 0 => SizesForTier(l, t) = base[l]
         /\ t < 3 => Total(SizesForTier(l, t)) <= Total(SizesForTier(l, t + 1))
<1>1. base[l] \in [Dirs -> Nat] /\ \A d \in Dirs : base[l][d] \in Nat \ {0} /\ Ceil(d) \in Nat
  BY CeilType DEF RelayInv, SessionInv
<1>2. SizesForTier(l, t) \in [Dirs -> Nat]
  BY <1>1, SizeType, Zenon DEF SizesForTier
<1>3. ASSUME t = 0 PROVE SizesForTier(l, t) = base[l]
  BY <1>1, <1>3, SizeAtBase, Zenon DEF SizesForTier
<1>4. ASSUME t < 3 PROVE Total(SizesForTier(l, t)) <= Total(SizesForTier(l, t + 1))
  <2>1. t \in 0..2 /\ t + 1 \in Tiers
    BY <1>4 DEF Tiers
  <2>2. SizesForTier(l, t + 1) \in [Dirs -> Nat]
    BY <1>1, <2>1, SizeType, Zenon DEF SizesForTier
  <2>3. \A d \in Dirs : SizesForTier(l, t)[d] <= SizesForTier(l, t + 1)[d]
    BY <1>1, <2>1, SizeMonotone, Zenon DEF SizesForTier
  <2> HIDE DEF SizesForTier
  <2> QED
    BY <1>2, <2>2, <2>3 DEF Total, Dirs
<1> QED
  BY <1>2, <1>3, <1>4, Zenon

(* A step of one session leaves what the others rely on alone.             *)
LEMMA OneSession ==
  ASSUME RelayInv, BudgetInv', NEW l \in Leases,
         base' \in [Leases -> [Dirs -> Nat]],
         desired' \in [Leases -> [Dirs -> Nat]], actual' \in [Leases -> [Dirs -> Nat]],
         \A m \in Leases \ {l} :
           /\ phase'[m] = phase[m] /\ held'[m] = held[m] /\ tier'[m] = tier[m]
           /\ want'[m] = want[m] /\ base'[m] = base[m] /\ desired'[m] = desired[m],
         SessionInv(l)', Total(desired'[l]) <= held'[l]
  PROVE  RelayInv'
<1>1. ASSUME NEW m \in Leases
      PROVE  SessionInv(m)' /\ Total(desired'[m]) <= held'[m]
  <2>1. CASE m = l
    BY <2>1, Zenon
  <2>2. CASE m # l
    <3>1. SessionInv(m) /\ Total(desired[m]) <= held[m]
      BY Zenon DEF RelayInv, DesiredCovered
    <3>2. /\ phase'[m] = phase[m] /\ held'[m] = held[m] /\ tier'[m] = tier[m]
          /\ want'[m] = want[m] /\ base'[m] = base[m] /\ desired'[m] = desired[m]
      BY <2>2, Zenon
    <3>3. \A t : SizesForTier(m, t)' = SizesForTier(m, t)
      BY <3>2, Zenon DEF SizesForTier
    <3>4. SessionInv(m)'
      BY <3>1, <3>2, <3>3, Zenon DEF SessionInv
    <3> QED
      BY <3>1, <3>2, <3>4, Zenon
  <2> QED
    BY <2>1, <2>2
<1> QED
  BY <1>1, Zenon DEF RelayInv, DesiredCovered

LEMMA RelayStep == RelayInv /\ [RelayNext]_relayVars => RelayInv'
<1> SUFFICES ASSUME RelayInv, [RelayNext]_relayVars PROVE RelayInv'
  OBVIOUS
<1>a. BudgetInv /\ TypeOK /\ \A l \in Leases : LeaseInv(l) /\ SessionInv(l)
  BY DEF RelayInv, BudgetInv
<1>b. /\ base \in [Leases -> [Dirs -> Nat]]
      /\ desired \in [Leases -> [Dirs -> Nat]] /\ actual \in [Leases -> [Dirs -> Nat]]
      /\ \A l \in Leases : Total(desired[l]) <= held[l]
  BY DEF RelayInv, DesiredCovered
<1>c. NoSizes \in [Dirs -> Nat] /\ Total(NoSizes) = 0
  BY DEF NoSizes, Total, Dirs
<1>1. ASSUME UNCHANGED <<vars, base, desired>>, actual' \in [Leases -> [Dirs -> Nat]]
      PROVE  RelayInv'
  <2>1. BudgetInv'
    BY <1>1, <1>a, BudgetStutters
  <2> QED
    BY <1>1, <2>1, Zenon DEF RelayInv, DesiredCovered, SessionInv, SizesForTier, vars
<1>2. ASSUME NEW l \in Leases, Open(l)
      PROVE  RelayInv'
  <2>1. initial_base_sizes \in [Dirs -> Nat] /\ \A d \in Dirs : initial_base_sizes[d] \in 1..Ceil(d)
    BY CeilType DEF initial_base_sizes, Least
  <2>2. Total(initial_base_sizes) \in Nat
    BY <2>1, TotalType, Zenon
  <2> HIDE DEF initial_base_sizes
  <2>3. BudgetInv'
    BY <1>2, <1>a, <2>2, RequestKeeps, Zenon DEF Open, Request
  <2>4. align_up(Total(initial_base_sizes)) >= Total(initial_base_sizes)
    BY <2>2, AlignCovers, Zenon
  <2>5. held[l] = 0 /\ desired[l] = NoSizes
    BY <1>2, <1>a DEF Open, BeginReserve, LeaseInv, SessionInv
  <2>6. /\ phase' = [phase EXCEPT ![l] = "reserving"] /\ base' = [base EXCEPT ![l] = initial_base_sizes]
        /\ want' = [want EXCEPT ![l] = align_up(Total(initial_base_sizes))]
        /\ UNCHANGED <<held, tier, desired, actual>>
    BY <1>2, Zenon DEF Open, BeginReserve
  <2>7. SessionInv(l)'
    BY <1>a, <1>b, <2>1, <2>4, <2>5, <2>6, Zenon DEF SessionInv, TypeOK
  <2> QED
    BY <1>a, <1>b, <1>c, <2>1, <2>3, <2>5, <2>6, <2>7, OneSession, Zenon DEF TypeOK
<1>3. ASSUME NEW l \in Leases, Admit(l)
      PROVE  RelayInv'
  <2> DEFINE e == IF want[l] < Total(base[l]) THEN [d \in Dirs |-> Floor(d)] ELSE base[l]
  <2>1. phase[l] \in {"reserving", "fallback"}
    BY <1>3 DEF Admit, ReserveOk, FallbackOk
  <2>2. base[l] \in [Dirs -> Nat] /\ Total(base[l]) \in Nat /\ want[l] \in Nat
    BY <1>a, <1>b, TotalType, Zenon DEF TypeOK
  <2>3. e \in [Dirs -> Nat] /\ \A d \in Dirs : e[d] \in 1..Ceil(d)
    BY <1>a, <2>1, <2>2, CeilType DEF SessionInv
  <2>4. Total(e) <= want[l]
    BY <1>a, <2>1, <2>2, CeilType DEF SessionInv
  <2>5. base' = [base EXCEPT ![l] = e] /\ desired' = [desired EXCEPT ![l] = e]
        /\ actual' = [actual EXCEPT ![l] = e]
    BY <1>3, Zenon DEF Admit, StartRelay
  <2>6. /\ phase' = [phase EXCEPT ![l] = "held"] /\ held' = [held EXCEPT ![l] = want[l]]
        /\ tier' = [tier EXCEPT ![l] = 0] /\ want' = [want EXCEPT ![l] = 0]
    BY <1>3 DEF Admit, ReserveOk, FallbackOk, Admitted, CallReturns
  <2>7. BudgetInv'
    BY <1>3, <1>a, LeaseStepKeeps, Zenon DEF Admit, LeaseStep
  <2> HIDE DEF e
  <2>8. SizesForTier(l, 0)' = e
    <3>1. \A d \in Dirs : e[d] \in Nat \ {0} /\ Ceil(d) \in Nat
      BY <2>3, CeilType
    <3>2. \A d \in Dirs : direct_direction_size(e[d], Ceil(d), 0) = e[d]
      BY <3>1, SizeAtBase
    <3>3. base'[l] = e
      BY <1>b, <2>5, Zenon
    <3> QED
      BY <2>3, <3>2, <3>3, Zenon DEF SizesForTier
  <2>9. SessionInv(l)'
    BY <1>a, <1>b, <2>3, <2>5, <2>6, <2>8, Zenon DEF SessionInv, TypeOK
  <2> QED
    BY <1>a, <1>b, <2>3, <2>4, <2>5, <2>6, <2>7, <2>9, OneSession, Zenon DEF TypeOK
<1>4. ASSUME NEW l \in Leases, Retry(l)
      PROVE  RelayInv'
  <2>1. BudgetInv'
    BY <1>4, <1>a, LeaseStepKeeps, Zenon DEF Retry, LeaseStep
  <2>2. align_up(MinimumTotal) >= MinimumTotal
    BY AlignCovers, CeilType, Zenon
  <2>3. /\ phase[l] = "reserving" /\ phase' = [phase EXCEPT ![l] = "fallback"]
        /\ want' = [want EXCEPT ![l] = align_up(MinimumTotal)]
        /\ UNCHANGED <<held, tier, base, desired, actual>>
    BY <1>4, Zenon DEF Retry, ReserveRefused, relayOnly
  <2>4. SessionInv(l)'
    BY <1>a, <2>2, <2>3, Zenon DEF SessionInv, TypeOK
  <2> QED
    BY <1>a, <1>b, <2>1, <2>3, <2>4, OneSession, Zenon DEF TypeOK
<1>5. ASSUME NEW l \in Leases, Reject(l)
      PROVE  RelayInv'
  <2>1. BudgetInv'
    BY <1>5, <1>a, LeaseStepKeeps, Zenon DEF Reject, LeaseStep
  <2>2. /\ phase[l] = "fallback" /\ phase' = [phase EXCEPT ![l] = "none"]
        /\ want' = [want EXCEPT ![l] = 0] /\ base' = [base EXCEPT ![l] = NoSizes]
        /\ UNCHANGED <<held, tier, desired, actual>>
    BY <1>5, Zenon DEF Reject, FallbackRefused, CallReturns
  <2>3. SessionInv(l)'
    BY <1>a, <2>2, Zenon DEF SessionInv, TypeOK
  <2> QED
    BY <1>a, <1>b, <1>c, <2>1, <2>2, <2>3, OneSession, Zenon DEF TypeOK
<1>6. ASSUME NEW l \in Leases, NEW d \in Dirs, Fill(l, d) \/ Consume(l, d)
      PROVE  RelayInv'
  <2>1. actual' \in [Leases -> [Dirs -> Nat]]
    BY <1>6, <1>b DEF Fill, Consume
  <2> QED
    BY <1>1, <1>6, <2>1, Zenon DEF Fill, Consume
\* A larger tier: the lease covers it already, or is asked to.
<1>7. ASSUME NEW l \in Leases, TickPromote(l)
      PROVE  RelayInv'
  <2> DEFINE up == SizesForTier(l, tier[l] + 1)
  <2>1. phase[l] = "held" /\ tier[l] \in Tiers /\ tier[l] + 1 \in Tiers
    BY <1>7, <1>a DEF TickPromote, Polling, TypeOK, Tiers
  <2>2. up \in [Dirs -> Nat]
    BY <2>1, TierSizes, Zenon
  <2>3. Total(up) \in Nat
    BY <2>2, TotalType, Zenon
  <2>4. align_up(Total(up)) >= Total(up) /\ align_up(Total(up)) \in Nat
    BY <2>3, AlignCovers
  <2>5. UNCHANGED <<base, actual>>
    BY <1>7, Zenon DEF TickPromote
  <2> HIDE DEF up
  <2>6. CASE GrowCovered(l, Total(up)) /\ desired' = [desired EXCEPT ![l] = up]
    <3>1. BudgetInv'
      BY <2>6, <1>a, <2>3, RequestKeeps, Zenon DEF Request
    <3>2. /\ align_up(Total(up)) <= held[l] /\ held[l] \in Nat
          /\ tier' = [tier EXCEPT ![l] = tier[l] + 1] /\ UNCHANGED <<phase, held, want>>
      BY <2>6, <1>a, Zenon DEF GrowCovered, MoveTier, TypeOK
    <3>3. Total(up) <= held[l]
      BY <2>3, <2>4, <3>2
    <3>4. SessionInv(l)'
      BY <1>a, <1>b, <2>1, <2>5, <2>6, <3>2, Zenon DEF SessionInv, SizesForTier, TypeOK, up
    <3> QED
      BY <1>a, <1>b, <2>2, <2>5, <2>6, <3>1, <3>2, <3>3, <3>4, OneSession, Zenon DEF TypeOK
  <2>7. CASE BeginGrow(l, Total(up)) /\ UNCHANGED desired
    <3>1. BudgetInv'
      BY <2>7, <1>a, <2>3, RequestKeeps, Zenon DEF Request
    <3>2. /\ phase' = [phase EXCEPT ![l] = "growing"] /\ want' = [want EXCEPT ![l] = align_up(Total(up))]
          /\ UNCHANGED <<held, tier>>
      BY <2>7, Zenon DEF BeginGrow
    <3>3. SessionInv(l)'
      BY <1>a, <2>1, <2>4, <2>5, <2>7, <3>2, Zenon DEF SessionInv, SizesForTier, TypeOK, up
    <3> QED
      BY <1>a, <1>b, <2>5, <2>7, <3>1, <3>2, <3>3, OneSession, Zenon DEF TypeOK
  <2> QED
    BY <1>7, <2>6, <2>7, Zenon DEF TickPromote, SetDesired, up
<1>8. ASSUME NEW l \in Leases, PromoteGranted(l)
      PROVE  RelayInv'
  <2> DEFINE up == SizesForTier(l, tier[l] + 1)
  <2>1. phase[l] = "growing" /\ tier[l] \in Tiers /\ tier[l] + 1 \in Tiers
    BY <1>8, <1>a DEF PromoteGranted, GrowOk, LeaseInv, TypeOK, Tiers
  <2>2. up \in [Dirs -> Nat] /\ Total(up) <= want[l]
    BY <1>a, <2>1, TierSizes, Zenon DEF SessionInv
  <2>3. BudgetInv'
    BY <1>8, <1>a, LeaseStepKeeps, Zenon DEF PromoteGranted, LeaseStep
  <2>4. /\ phase' = [phase EXCEPT ![l] = "held"] /\ held' = [held EXCEPT ![l] = want[l]]
        /\ tier' = [tier EXCEPT ![l] = tier[l] + 1] /\ want' = [want EXCEPT ![l] = 0]
        /\ desired' = [desired EXCEPT ![l] = up] /\ UNCHANGED <<base, actual>>
    BY <1>8, Zenon DEF PromoteGranted, GrowOk, MoveTier, CallReturns, SetDesired
  <2> HIDE DEF up
  <2>5. SessionInv(l)'
    BY <1>a, <1>b, <2>1, <2>4, Zenon DEF SessionInv, SizesForTier, TypeOK, up
  <2> QED
    BY <1>a, <1>b, <2>2, <2>3, <2>4, <2>5, OneSession, Zenon DEF TypeOK
<1>9. ASSUME NEW l \in Leases, PromoteDenied(l)
      PROVE  RelayInv'
  <2>1. BudgetInv'
    BY <1>9, <1>a, LeaseStepKeeps, Zenon DEF PromoteDenied, LeaseStep
  <2>2. /\ phase[l] = "growing" /\ phase' = [phase EXCEPT ![l] = "held"]
        /\ want' = [want EXCEPT ![l] = 0]
        /\ UNCHANGED <<held, tier, base, desired, actual>>
    BY <1>9, Zenon DEF PromoteDenied, GrowDenied, CallReturns
  <2>3. SessionInv(l)'
    BY <1>a, <2>2, Zenon DEF SessionInv, SizesForTier, TypeOK
  <2> QED
    BY <1>a, <1>b, <2>1, <2>2, <2>3, OneSession, Zenon DEF TypeOK
\* A smaller tier: the lease keeps its bytes until the buffers have drained.
<1>10. ASSUME NEW l \in Leases, Demote(l), SetDesired(l, tier[l] - 1), UNCHANGED <<base, actual>>
       PROVE  RelayInv'
  <2> DEFINE low == SizesForTier(l, tier[l] - 1)
  <2>1. /\ phase[l] = "held" /\ tier[l] \in Tiers /\ tier[l] - 1 \in Tiers
        /\ (tier[l] - 1) + 1 = tier[l] /\ tier[l] - 1 < 3
    BY <1>10, <1>a DEF Demote, TypeOK, Tiers
  <2>2. low \in [Dirs -> Nat] /\ Total(low) <= Total(desired[l])
    BY <1>a, <2>1, TierSizes, Zenon DEF SessionInv
  <2>3. Total(low) <= held[l]
    BY <1>a, <1>b, <2>2, TotalType DEF TypeOK
  <2>4. BudgetInv'
    BY <1>10, <1>a, LeaseStepKeeps, Zenon DEF LeaseStep
  <2>5. /\ tier' = [tier EXCEPT ![l] = tier[l] - 1] /\ desired' = [desired EXCEPT ![l] = low]
        /\ UNCHANGED <<phase, held, want, base, actual>>
    BY <1>10, Zenon DEF Demote, MoveTier, SetDesired
  <2> HIDE DEF low
  <2>6. SessionInv(l)'
    BY <1>a, <1>b, <2>1, <2>5, Zenon DEF SessionInv, SizesForTier, TypeOK, low
  <2> QED
    BY <1>a, <1>b, <2>2, <2>3, <2>4, <2>5, <2>6, OneSession, Zenon DEF TypeOK
<1>11. ASSUME NEW l \in Leases, ShrinkTo(l, covered(l)), UNCHANGED <<base, desired, actual>>
       PROVE  RelayInv'
  <2>1. desired[l] \in [Dirs -> Nat] /\ actual[l] \in [Dirs -> Nat]
    BY <1>b, Zenon
  <2>2. covered(l) \in Nat /\ Total(desired[l]) \in Nat /\ Total(desired[l]) <= covered(l)
    BY <2>1 DEF covered, Total, Greatest, Dirs
  <2>3. align_up(covered(l)) \in Nat /\ align_up(covered(l)) >= covered(l)
    BY <2>2, AlignCovers, Zenon
  <2>4. BudgetInv'
    BY <1>11, <1>a, <2>2, RequestKeeps, Zenon DEF Request
  <2>5. held' = [held EXCEPT ![l] = align_up(covered(l))] /\ UNCHANGED <<phase, tier, want>>
    BY <1>11, Zenon DEF ShrinkTo
  <2> HIDE DEF covered
  <2>6. SessionInv(l)'
    BY <1>11, <1>a, <2>5, Zenon DEF SessionInv, SizesForTier
  <2>7. Total(desired[l]) <= align_up(covered(l))
    BY <2>2, <2>3
  <2> QED
    BY <1>11, <1>a, <1>b, <2>4, <2>5, <2>6, <2>7, OneSession, Zenon DEF TypeOK
<1>12. ASSUME NEW l \in Leases, Close(l)
       PROVE  RelayInv'
  <2>1. BudgetInv'
    BY <1>12, <1>a, LeaseStepKeeps, Zenon DEF Close, LeaseStep
  <2>2. /\ phase' = [phase EXCEPT ![l] = "none"] /\ held' = [held EXCEPT ![l] = 0]
        /\ tier' = [tier EXCEPT ![l] = 0] /\ UNCHANGED want
        /\ base' = [base EXCEPT ![l] = NoSizes] /\ desired' = [desired EXCEPT ![l] = NoSizes]
        /\ actual' = [actual EXCEPT ![l] = NoSizes]
    BY <1>12, Zenon DEF Close, DropLease
  <2>3. SessionInv(l)'
    BY <1>a, <1>b, <2>2, Zenon DEF SessionInv, TypeOK
  <2>4. /\ base' \in [Leases -> [Dirs -> Nat]]
        /\ desired' \in [Leases -> [Dirs -> Nat]] /\ actual' \in [Leases -> [Dirs -> Nat]]
    BY <1>b, <1>c, <2>2, Zenon
  <2>5. Total(desired'[l]) <= held'[l]
    BY <1>a, <1>b, <1>c, <2>2 DEF TypeOK
  <2> QED
    BY <1>a, <1>b, <2>1, <2>2, <2>3, <2>4, <2>5, OneSession, Zenon DEF TypeOK
<1>13. ASSUME Tick \/ ApplyTarget, UNCHANGED <<base, desired, actual>>
       PROVE  RelayInv'
  <2>1. BudgetInv'
    BY <1>13, <1>a, ControllerKeeps, Zenon
  <2>2. UNCHANGED <<phase, held, tier, want>>
    BY <1>13 DEF Tick, Sample, ApplyTarget, leaseVars
  <2> QED
    BY <1>13, <2>1, <2>2, Zenon DEF RelayInv, DesiredCovered, SessionInv, SizesForTier
<1>14. CASE UNCHANGED relayVars
  BY <1>1, <1>14, <1>b, Zenon DEF relayVars, relayOnly
<1>15. ASSUME NEW l \in Leases, TickNoTransition(l) \/ TickDemote(l) \/ PressureChanged(l) \/ reconcile_reservation(l)
       PROVE  RelayInv'
  BY <1>15, <1>1, <1>10, <1>11, <1>b, Zenon
     DEF TickNoTransition, TickDemote, PressureChanged, reconcile_reservation
<1> QED
  BY <1>2, <1>3, <1>4, <1>5, <1>6, <1>7, <1>8, <1>9, <1>12, <1>13, <1>14, <1>15, Zenon
     DEF RelayNext, SessionStep, ControllerSample, SetTarget, relayOnly

(* Every session's lease covers the sizes its readers may grow to, for any *)
(* number of sessions, any sizes and any demotions and denials             *)
(* (apply_controller_transition, reconcile_reservation).                   *)
THEOREM BuffersCovered == RelaySpec => []DesiredCovered
<1>1. RelayInv => DesiredCovered
  BY DEF RelayInv
<1> QED
  BY <1>1, RelayInitially, RelayStep, PTL DEF RelaySpec

(* With the sizes the relays really ask for, the envelope's invariant      *)
(* holds: what all Direct sessions reserve stays under the ceiling.        *)
THEOREM RelaysRespectBudget == RelaySpec => []BudgetInv
<1>1. RelayInv => BudgetInv
  BY DEF RelayInv
<1> QED
  BY <1>1, RelayInitially, RelayStep, PTL DEF RelaySpec

(* A buffer of a running session grows only when it is drained, and then   *)
(* to the size of the session's current tier (poll_fill_buf).              *)
THEOREM GrowthFollowsTier == RelaySpec => DrainedBufferFollowsDemotion
<1> DEFINE Grows(l, d) ==
      actual'[l][d] > actual[l][d] /\ phase[l] = "held" =>
        ~loaded[l][d] /\ actual'[l][d] <= direct_direction_size(base[l][d], Ceil(d), tier[l])
<1>1. RelayInv /\ [RelayNext]_relayVars => [\A l \in Leases, d \in Dirs : Grows(l, d)]_relayVars
  <2> SUFFICES ASSUME RelayInv, RelayNext, NEW l \in Leases, NEW d \in Dirs,
                      actual'[l][d] > actual[l][d], phase[l] = "held"
               PROVE  ~loaded[l][d] /\ actual'[l][d] <= direct_direction_size(base[l][d], Ceil(d), tier[l])
    BY Zenon
  <2>1. /\ actual \in [Leases -> [Dirs -> Nat]] /\ desired \in [Leases -> [Dirs -> Nat]]
        /\ actual[l][d] \in Nat
    BY Zenon DEF RelayInv
  <2>2. desired[l][d] = direct_direction_size(base[l][d], Ceil(d), tier[l])
    BY Zenon DEF RelayInv, SessionInv, SizesForTier
  <2>3. ~(actual[l][d] > actual[l][d])
    BY <2>1
  <2>4. actual' # actual
    BY <2>3, Zenon
  <2>5. PICK m \in Leases : Admit(m) \/ Close(m) \/ \E e \in Dirs : Fill(m, e)
    BY <2>4 DEF RelayNext, SessionStep, Open, Retry, Reject, PromoteGranted, PromoteDenied,
                PressureChanged, reconcile_reservation, Consume, TickNoTransition, TickPromote,
                TickDemote, ControllerSample, SetTarget, relayOnly
  <2>6. ~Admit(m)
    <3>1. ASSUME Admit(m) PROVE m # l
      BY <3>1, Zenon DEF Admit, ReserveOk, FallbackOk
    <3>2. ASSUME Admit(m) PROVE actual'[l] = actual[l]
      BY <2>1, <3>1, <3>2, Zenon DEF Admit, StartRelay
    <3> QED
      BY <2>3, <3>2, Zenon
  <2>7. ~Close(m)
    <3>1. ASSUME Close(m) PROVE actual'[l] \in {actual[l], NoSizes}
      BY <2>1, <3>1, Zenon DEF Close
    <3>2. ~(NoSizes[d] > actual[l][d])
      BY <2>1 DEF NoSizes
    <3> QED
      BY <2>3, <3>1, <3>2, Zenon
  <2>8. PICK e \in Dirs : Fill(m, e)
    BY <2>5, <2>6, <2>7, Zenon
  <2>9. ~loaded[m][e] /\ actual' = [actual EXCEPT ![m][e] = desired[m][e]]
    BY <2>8, Zenon DEF Fill
  <2>10. m = l /\ e = d
    BY <2>1, <2>3, <2>9, Zenon
  <2>11. actual'[l][d] = desired[l][d] /\ desired[l][d] \in Nat
    BY <2>1, <2>9, <2>10, Zenon
  <2> HIDE DEF direct_direction_size
  <2> QED
    BY <2>2, <2>9, <2>10, <2>11
<1> HIDE DEF Grows
<1>2. RelaySpec => [][\A l \in Leases, d \in Dirs : Grows(l, d)]_relayVars
  BY <1>1, RelayInitially, RelayStep, PTL DEF RelaySpec
<1> QED
  BY <1>2, Zenon DEF DrainedBufferFollowsDemotion, Grows

-----------------------------------------------------------------------------
(***************************************************************************)
(* The gate of the full certificate.  What makes GaugeExact inductive is   *)
(* only that no entry bears the time that stands for none.                 *)
(***************************************************************************)
CertRequest == [pc : {"idle", "sweep", "take"}, g : Gens, ip : Ips, at : Nat, shard : Nat]

CertTypes ==
  /\ now \in Nat /\ gen \in Gens /\ gauge \in Nat
  /\ sent \in [Gens -> [Ips -> Nat \cup {Never}]]
  /\ req \in [Requests -> CertRequest]

CertInv == CertTypes /\ GaugeExact

LEMMA SomeEntries ==
  ASSUME NEW S \in SUBSET (Gens \X Ips)
  PROVE  IsFiniteSet(S) /\ Cardinality(S) \in Nat
  BY CertAssumption, FS_Product, FS_Subset, FS_CardinalityType, Zenon

LEMMA NoRequestType == NoRequest \in CertRequest
<1>1. (CHOOSE i \in Ips : TRUE) \in Ips
  BY CertAssumption, Zenon
<1> QED
  BY <1>1, CertAssumption DEF NoRequest, CertRequest

LEMMA CertStarts == CertInit => CertInv
<1> SUFFICES ASSUME CertInit PROVE CertInv
  OBVIOUS
<1>1. CertTypes
  BY CertAssumption, NoRequestType, Zenon DEF CertInit, CertTypes
<1>2. Entries = {}
  BY Zenon DEF CertInit, Entries, Tracked
<1> QED
  BY <1>1, <1>2, FS_EmptySet, CertAssumption DEF CertInit, CertInv, GaugeExact

(* A sweep takes from the gauge what it removes from a shard.              *)
LEMMA CertSweeps ==
  ASSUME CertInv, NEW r \in Requests, sweep_full_cert_sent_shards(r)
  PROVE  CertInv'
<1> DEFINE q == req[r]
           mine == {i \in Tracked(q.g) : Shard[i] = q.shard}
           kept == {i \in mine : q.at - sent[q.g][i] < Ttl}
           gone == mine \ kept
           swept == [i \in Ips |-> IF i \in gone THEN Never ELSE sent[q.g][i]]
<1>1. /\ q \in CertRequest /\ q.g \in Gens /\ sent \in [Gens -> [Ips -> Nat \cup {Never}]]
      /\ mine \subseteq Ips /\ kept \subseteq mine /\ mine \subseteq Tracked(q.g)
  BY Zenon DEF CertInv, CertTypes, CertRequest, Tracked
<1>2. /\ sent' = [sent EXCEPT ![q.g] = swept]
      /\ gauge' = decrement_full_cert_sent_entries(Cardinality(mine) - Cardinality(kept))
      /\ req' = [req EXCEPT ![r].shard = @ + 1, ![r].pc = IF q.shard = Shards THEN "take" ELSE "sweep"]
      /\ now' = now /\ gen' = gen
  BY <1>1, Zenon DEF sweep_full_cert_sent_shards
<1> HIDE DEF mine, kept
<1>3. sent' \in [Gens -> [Ips -> Nat \cup {Never}]]
  BY <1>1, <1>2, Zenon
<1>4. req' \in [Requests -> CertRequest]
  <2>1. q \in CertRequest /\ req \in [Requests -> CertRequest]
    BY DEF CertInv, CertTypes
  <2>2. \A s \in Nat, c \in {"take", "sweep"} : [q EXCEPT !.shard = s, !.pc = c] \in CertRequest
    BY <2>1, Zenon DEF CertRequest
  <2>3. req' = [req EXCEPT ![r] = [q EXCEPT !.shard = q.shard + 1, !.pc = IF q.shard = Shards THEN "take" ELSE "sweep"]]
    BY <1>2, <2>1, Zenon DEF CertRequest
  <2>4. q.shard + 1 \in Nat
    BY <2>1 DEF CertRequest
  <2> QED
    BY <2>1, <2>2, <2>3, <2>4, Zenon
<1>5. Entries' = Entries \ ({q.g} \X gone)
  <2>1. ASSUME NEW p \in Gens \X Ips
        PROVE  sent'[p[1]][p[2]] # Never <=> sent[p[1]][p[2]] # Never /\ p \notin {q.g} \X gone
    <3>1. CASE p[1] = q.g
      BY <1>1, <1>2, <3>1, Zenon
    <3>2. CASE p[1] # q.g
      BY <1>1, <1>2, <3>2, Zenon
    <3> QED
      BY <3>1, <3>2, Zenon
  <2> QED
    BY <2>1, Zenon DEF Entries, Tracked
<1>6. {q.g} \X gone \subseteq Entries
  BY <1>1, Zenon DEF Entries, Tracked
<1>7. IsFiniteSet(mine) /\ IsFiniteSet(kept) /\ IsFiniteSet(gone)
  BY <1>1, CertAssumption, FS_Subset, Zenon
<1>8. Cardinality(gone) = Cardinality(mine) - Cardinality(kept) /\ Cardinality(gone) \in Nat
  <2>1. mine \cap kept = kept
    BY <1>1
  <2> QED
    BY <1>7, <2>1, FS_Difference, FS_CardinalityType, Zenon
<1>9. IsFiniteSet({q.g} \X gone) /\ Cardinality({q.g} \X gone) = Cardinality(gone)
  <2>1. IsFiniteSet({q.g}) /\ Cardinality({q.g}) = 1
    BY FS_Singleton, Zenon
  <2>2. IsFiniteSet({q.g} \X gone) /\ Cardinality({q.g} \X gone) = Cardinality({q.g}) * Cardinality(gone)
    BY <1>7, <2>1, FS_Product
  <2> QED
    BY <1>8, <2>1, <2>2
<1>10. IsFiniteSet(Entries) /\ Cardinality(Entries) \in Nat
  BY SomeEntries, Zenon DEF Entries
<1> HIDE DEF gone
<1>11. Cardinality(Entries') = Cardinality(Entries) - Cardinality(gone) /\ Cardinality(gone) <= Cardinality(Entries)
  <2>1. Entries \cap ({q.g} \X gone) = {q.g} \X gone
    BY <1>6, Zenon
  <2> DEFINE taken == {q.g} \X gone
  <2> HIDE DEF taken
  <2>4. Cardinality(Entries \ taken) = Cardinality(Entries) - Cardinality(Entries \cap taken)
    BY <1>10, FS_Difference, Zenon
  <2>2. Cardinality(Entries') = Cardinality(Entries) - Cardinality(gone)
    BY <1>5, <1>9, <2>1, <2>4, Zenon DEF taken
  <2>3. Cardinality({q.g} \X gone) <= Cardinality(Entries)
    BY <1>6, <1>10, FS_Subset, Zenon
  <2> QED
    BY <1>9, <2>2, <2>3, Zenon
<1>12. gauge' = gauge - Cardinality(gone) /\ gauge = Cardinality(Entries) /\ gauge <= MaxIps
  BY <1>2, <1>8, <1>11, Zenon DEF decrement_full_cert_sent_entries, CertInv, GaugeExact
<1>13. GaugeExact' /\ gauge' \in Nat
  BY <1>8, <1>10, <1>11, <1>12, CertAssumption DEF GaugeExact
<1> QED
  BY <1>2, <1>3, <1>4, <1>13, Zenon DEF CertInv, CertTypes

(* A new address makes one entry more, a known one is only renewed.        *)
LEMMA CertTakes ==
  ASSUME CertInv, NEW r \in Requests, Take(r)
  PROVE  CertInv'
<1> DEFINE q == req[r]
           known == sent[q.g][q.ip] # Never
           allowed == IF known THEN q.at - sent[q.g][q.ip] >= Ttl ELSE try_reserve_full_cert_sent_entry
<1>1. /\ q.g \in Gens /\ q.ip \in Ips /\ q.at \in Nat
      /\ sent \in [Gens -> [Ips -> Nat \cup {Never}]] /\ gauge \in Nat /\ now \in Nat /\ gen \in Gens
      /\ req \in [Requests -> CertRequest] /\ gauge = Cardinality(Entries) /\ gauge <= MaxIps
  BY Zenon DEF CertInv, CertTypes, CertRequest, GaugeExact
<1>2. /\ sent' = IF allowed THEN [sent EXCEPT ![q.g][q.ip] = q.at] ELSE sent
      /\ gauge' = IF allowed /\ ~known THEN gauge + 1 ELSE gauge
      /\ req' = [req EXCEPT ![r] = NoRequest]
      /\ now' = now /\ gen' = gen
  BY Zenon DEF Take
<1>3. allowed /\ ~known => gauge < MaxIps
  BY Zenon DEF try_reserve_full_cert_sent_entry
<1> HIDE DEF allowed
<1>4. sent' \in [Gens -> [Ips -> Nat \cup {Never}]] /\ req' \in [Requests -> CertRequest]
  BY <1>1, <1>2, NoRequestType, Zenon
<1>5. Entries' = IF allowed THEN Entries \cup {<<q.g, q.ip>>} ELSE Entries
  <2>1. CASE ~allowed
    BY <1>2, <2>1, Zenon DEF Entries, Tracked
  <2>2. CASE allowed
    <3>1. ASSUME NEW p \in Gens \X Ips
          PROVE  sent'[p[1]][p[2]] # Never <=> sent[p[1]][p[2]] # Never \/ p = <<q.g, q.ip>>
      <4>1. q.at # Never
        BY <1>1 DEF Never
      <4>2. CASE p = <<q.g, q.ip>>
        BY <1>1, <1>2, <2>2, <4>1, <4>2, Zenon
      <4>3. CASE p # <<q.g, q.ip>>
        <5>1. p[1] # q.g \/ p[2] # q.ip
          BY <4>3
        <5> QED
          BY <1>1, <1>2, <2>2, <4>3, <5>1, Zenon
      <4> QED
        BY <4>2, <4>3, Zenon
    <3>2. <<q.g, q.ip>> \in Gens \X Ips
      BY <1>1, Zenon
    <3> QED
      BY <2>2, <3>1, <3>2, Zenon DEF Entries, Tracked
  <2> QED
    BY <2>1, <2>2, Zenon
<1>6. known <=> <<q.g, q.ip>> \in Entries
  BY <1>1, Zenon DEF Entries, Tracked
<1>7. IsFiniteSet(Entries) /\ Cardinality(Entries) \in Nat
  BY SomeEntries DEF Entries
<1> HIDE DEF known
<1>8. Cardinality(Entries') = IF allowed /\ ~known THEN Cardinality(Entries) + 1 ELSE Cardinality(Entries)
  <2>1. CASE allowed /\ ~known
    BY <1>5, <1>6, <1>7, <2>1, FS_AddElement, Zenon
  <2>2. CASE ~(allowed /\ ~known)
    <3>1. Entries' = Entries
      BY <1>5, <1>6, <2>2
    <3> QED
      BY <2>2, <3>1
  <2> QED
    BY <2>1, <2>2, Zenon
<1>9. GaugeExact' /\ gauge' \in Nat
  BY <1>1, <1>2, <1>3, <1>7, <1>8, CertAssumption DEF GaugeExact
<1> QED
  BY <1>1, <1>2, <1>4, <1>9, Zenon DEF CertInv, CertTypes

LEMMA CertKeeps == CertInv /\ [CertNext]_certVars => CertInv'
<1> SUFFICES ASSUME CertInv, [CertNext]_certVars PROVE CertInv'
  OBVIOUS
<1>1. ASSUME sent' = sent, gauge' = gauge PROVE GaugeExact'
  BY <1>1, Zenon DEF CertInv, GaugeExact, Entries, Tracked
<1>2. ASSUME NEW r \in Requests, NEW i \in Ips, take_full_cert_budget_for_ip(r, i)
      PROVE  CertInv'
  <2>1. sent' = sent /\ gauge' = gauge /\ now' = now /\ gen' = gen
    BY <1>2, Zenon DEF take_full_cert_budget_for_ip
  <2>2. req' \in [Requests -> CertRequest]
    BY <1>2, Zenon DEF take_full_cert_budget_for_ip, CertInv, CertTypes, CertRequest
  <2> QED
    BY <1>1, <2>1, <2>2, Zenon DEF CertInv, CertTypes
<1>3. CASE CertTick \/ Reload \/ UNCHANGED certVars
  BY <1>1, <1>3 DEF CertTick, Reload, certVars, CertInv, CertTypes
<1> QED
  BY <1>2, <1>3, CertSweeps, CertTakes, Zenon DEF CertNext

(* For any addresses, requests, generations and cap: whatever sweeps,      *)
(* renewals and insertions of take_full_cert_budget_for_ip meet, the gauge *)
(* is the number of entries and stays within the cap.                      *)
THEOREM GaugeStaysExact == CertSpec => []GaugeExact
<1>1. CertInv => GaugeExact
  BY DEF CertInv
<1> QED
  BY <1>1, CertStarts, CertKeeps, PTL DEF CertSpec
=============================================================================
