-------------------------- MODULE Registry_proofs ---------------------------
(***************************************************************************)
(* Proofs about the registry of leases of the traffic limiter, which       *)
(* sessions share without a common lock: for any number of sessions and    *)
(* any policies.                                                           *)
(***************************************************************************)
EXTENDS TrafficLimiter

-----------------------------------------------------------------------------
(***************************************************************************)
(* The registry of leases.  What makes CountsExact inductive: a lease      *)
(* refers at each of its steps to just the objects it has found; an object *)
(* has one role; a share that can be found has a lease that will still     *)
(* look whether to remove it; and while the policy stands, the registry    *)
(* keeps the bucket its leases refer to.                                   *)
(***************************************************************************)
LeaseSteps == {"none", "find_user", "count_user", "find_cidr", "count_cidr", "find_share",
               "count_share", "leased", "drop_share", "test_share", "remove_share", "drop_cidr"}

\* The steps at which a lease counts on the object in a slot, if it has one.
CountSteps(s) ==
  IF s = "user" THEN {"find_cidr", "count_cidr", "find_share", "count_share", "leased"}
  ELSE IF s = "cidr" THEN {"find_share", "count_share", "leased", "drop_share", "test_share",
                           "remove_share", "drop_cidr"}
  ELSE {"leased", "drop_share"}

\* The steps at which a lease refers to a subnet's bucket, to a share, and
\* has still to look whether the share is to be removed.
CidrSteps == {"count_cidr"} \cup CountSteps("cidr")
ShareSteps == {"count_share", "leased", "drop_share", "test_share", "remove_share", "drop_cidr"}
WatchSteps == ShareSteps \ {"drop_cidr"}

Root(s) == IF s = "user" THEN userAt ELSE IF s = "cidr" THEN cidrAt ELSE NoObject
Objs(s) == ({Root(s)} \cup {held[l][s] : l \in Leases}) \ {NoObject}
OnIt(s, o) == {l \in Leases : leasePc[l] \in CountSteps(s) /\ held[l][s] = o}
OnSlot(s) == {l \in Leases : leasePc[l] \in CountSteps(s) /\ held[l][s] # NoObject}

SomeObject == Objects \cup {NoObject}

RegistryOK ==
  /\ explicit \in BOOLEAN /\ limited \in BOOLEAN /\ policies \in Nat
  /\ userAt \in SomeObject /\ cidrAt \in SomeObject /\ shareAt \in [Objects -> SomeObject]
  /\ count \in [Objects -> Nat] /\ gauge \in [{"user", "cidr"} -> Nat]
  /\ leasePc \in [Leases -> LeaseSteps] /\ held \in [Leases -> [Slots -> SomeObject]]
  /\ cleaner \in [step : {"idle", "users", "cidrs"}, limited : BOOLEAN]

\* What a lease refers to at each of its steps.
RefsOK ==
  \A l \in Leases :
    /\ leasePc[l] \in {"none", "find_user"} => held[l]["user"] = NoObject
    /\ leasePc[l] = "count_user" => held[l]["user"] # NoObject
    /\ held[l]["cidr"] # NoObject <=> leasePc[l] \in CidrSteps
    /\ held[l]["share"] # NoObject <=> leasePc[l] \in ShareSteps

\* An object is a user's bucket, a subnet's bucket or a share, and counts
\* the leases that count on it in that role.
RolesOK == \A s, t \in Slots : s # t => Objs(s) \cap Objs(t) = {}
CountOK == \A s \in Slots : \A o \in Objs(s) : count[o] = Cardinality(OnIt(s, o))
GaugeOK == \A s \in {"user", "cidr"} : gauge[s] = Cardinality(OnSlot(s))

\* A share belongs to one bucket, and one that can be found there has a lease
\* that will still look at it.
SharesOK ==
  /\ \A l, m \in Leases : held[l]["share"] # NoObject /\ held[l]["share"] = held[m]["share"]
                          => held[l]["cidr"] = held[m]["cidr"]
  /\ \A b \in Objects : shareAt[b] # NoObject =>
       \E l \in Leases : held[l]["cidr"] = b /\ held[l]["share"] = shareAt[b] /\ leasePc[l] \in WatchSteps

\* While the policy stands the registry keeps the bucket the leases hold.
RootsOK ==
  /\ policies = 0 => /\ limited /\ (cleaner.step = "users" => cleaner.limited)
                     /\ \A l \in Leases : held[l]["user"] \in {NoObject, userAt}
  /\ explicit => \A l \in Leases : held[l]["cidr"] \in {NoObject, cidrAt}

RegistryInv == RegistryOK /\ RefsOK /\ RolesOK /\ CountOK /\ GaugeOK /\ SharesOK /\ RootsOK

-----------------------------------------------------------------------------
LEMMA SomeLeases ==
  ASSUME NEW S \in SUBSET Leases
  PROVE  IsFiniteSet(S) /\ Cardinality(S) \in Nat
  BY RegistryAssumption, FS_Subset, FS_CardinalityType

(* All that can be reached has one of the three roles.                     *)
LEMMA InUseRoles ==
  ASSUME RegistryOK, SharesOK
  PROVE  /\ InUse = Objs("user") \cup Objs("cidr") \cup Objs("share")
         /\ InUse \subseteq Objects
         /\ \A s \in Slots : Objs(s) \subseteq InUse
<1>1. \A b \in Objects : shareAt[b] # NoObject => \E l \in Leases : shareAt[b] = held[l]["share"]
  BY DEF SharesOK
<1>2. Range(shareAt) = {shareAt[b] : b \in Objects}
  BY DEF RegistryOK, Range
<1>3. Range(shareAt) \subseteq {held[l]["share"] : l \in Leases} \cup {NoObject}
  BY <1>1, <1>2
<1>4. Refs = {held[l]["user"] : l \in Leases} \cup {held[l]["cidr"] : l \in Leases}
               \cup {held[l]["share"] : l \in Leases}
  BY DEF Refs, Slots
<1>5. InUse = Objs("user") \cup Objs("cidr") \cup Objs("share")
  BY <1>3, <1>4 DEF InUse, Objs, Root
<1>6. \A s \in Slots : Objs(s) \subseteq Objects
  BY DEF RegistryOK, Objs, Root, SomeObject
<1> QED
  BY <1>5, <1>6 DEF Slots

(* An allocation finds an identity nobody refers to.                       *)
LEMMA FreshIsFree ==
  ASSUME RegistryOK, SharesOK
  PROVE  Fresh \in Objects /\ Fresh \notin InUse /\ Fresh # NoObject
<1> DEFINE Pairs == Leases \X Slots
           Held == {held[p[1]][p[2]] : p \in Pairs}
           f == [p \in Pairs |-> held[p[1]][p[2]]]
<1>1. IsFiniteSet(Slots) /\ Cardinality(Slots) = 3
  <2>1. Slots = {"user", "cidr"} \cup {"share"} /\ {"user", "cidr"} = {"user"} \cup {"cidr"}
    BY DEF Slots
  <2>2. IsFiniteSet({"user"}) /\ Cardinality({"user"}) = 1
    BY FS_Singleton, Zenon
  <2>3. IsFiniteSet({"user", "cidr"}) /\ Cardinality({"user", "cidr"}) = 2
    BY <2>1, <2>2, FS_AddElement
  <2> QED
    BY <2>1, <2>3, FS_AddElement
<1>2. IsFiniteSet(Pairs) /\ Cardinality(Pairs) = Cardinality(Leases) * 3
  BY <1>1, RegistryAssumption, FS_Product, Zenon
<1>3. f \in Surjection(Pairs, Held)
  BY DEF Surjection
<1>4. IsFiniteSet(Held) /\ Cardinality(Held) <= Cardinality(Pairs)
  <2> HIDE DEF Pairs, Held, f
  <2> QED
    BY <1>2, <1>3, FS_Surjection
<1> HIDE DEF f
<1>5. IsFiniteSet({userAt, cidrAt}) /\ Cardinality({userAt, cidrAt}) <= 2
  <2>1. {userAt, cidrAt} = {userAt} \cup {cidrAt}
    OBVIOUS
  <2>2. IsFiniteSet({userAt}) /\ Cardinality({userAt}) = 1
    BY FS_Singleton, Zenon
  <2> QED
    BY <2>1, <2>2, FS_AddElement
<1>6. InUse \subseteq Held \cup {userAt, cidrAt}
  <2>1. \A l \in Leases, s \in Slots : held[l][s] \in Held
    <3> SUFFICES ASSUME NEW l \in Leases, NEW s \in Slots PROVE held[l][s] \in Held
      OBVIOUS
    <3>1. <<l, s>> \in Pairs /\ <<l, s>>[1] = l /\ <<l, s>>[2] = s
      OBVIOUS
    <3> QED
      BY <3>1
  <2>2. \A s \in Slots : Objs(s) \subseteq Held \cup {userAt, cidrAt}
    <3> HIDE DEF Held
    <3> QED
      BY <2>1 DEF Objs, Root
  <2>3. InUse = Objs("user") \cup Objs("cidr") \cup Objs("share")
    BY InUseRoles
  <2> HIDE DEF Held
  <2> QED
    BY <2>2, <2>3 DEF Slots
<1> HIDE DEF Held, Pairs
<1>7. IsFiniteSet(Held \cup {userAt, cidrAt})
      /\ Cardinality(Held \cup {userAt, cidrAt}) <= 3 * Cardinality(Leases) + 2
  <2> DEFINE A == Held
             B == {userAt, cidrAt}
  <2>1. IsFiniteSet(A) /\ IsFiniteSet(B)
    BY <1>4, <1>5
  <2> HIDE DEF A, B
  <2>2. IsFiniteSet(A \cup B) /\ IsFiniteSet(A \cap B)
        /\ Cardinality(A \cup B) = Cardinality(A) + Cardinality(B) - Cardinality(A \cap B)
    BY <2>1, FS_Union, FS_Intersection
  <2>3. /\ Cardinality(A) \in Nat /\ Cardinality(B) \in Nat /\ Cardinality(A \cap B) \in Nat
        /\ Cardinality(Leases) \in Nat
    BY <2>1, <2>2, RegistryAssumption, FS_CardinalityType
  <2>4. Cardinality(A) <= Cardinality(Leases) * 3 /\ Cardinality(B) <= 2
    BY <1>2, <1>4, <1>5 DEF A, B
  <2>5. Cardinality(A \cup B) <= 3 * Cardinality(Leases) + 2
    BY <2>2, <2>3, <2>4
  <2> QED
    BY <2>2, <2>5 DEF A, B
<1>8. IsFiniteSet(InUse) /\ Cardinality(InUse) <= 3 * Cardinality(Leases) + 2
  <2>1. IsFiniteSet(InUse) /\ Cardinality(InUse) <= Cardinality(Held \cup {userAt, cidrAt})
    BY <1>6, <1>7, FS_Subset
  <2>2. Cardinality(InUse) \in Nat /\ Cardinality(Held \cup {userAt, cidrAt}) \in Nat
        /\ Cardinality(Leases) \in Nat
    BY <1>7, <2>1, RegistryAssumption, FS_CardinalityType
  <2> QED
    BY <1>7, <2>1, <2>2
<1>9. InUse # Objects
  <2>1. Cardinality(Leases) \in Nat /\ Cardinality(InUse) \in Nat
    BY <1>8, RegistryAssumption, FS_CardinalityType
  <2> QED
    BY <1>8, <2>1, RegistryAssumption
<1>10. \E o \in Objects : o \notin InUse
  BY <1>9, InUseRoles
<1> QED
  BY <1>10, RegistryAssumption DEF Fresh

-----------------------------------------------------------------------------
(* Who counts on what, when one lease takes a step.                        *)
OthersStay(l) == \A m \in Leases \ {l} : leasePc'[m] = leasePc[m] /\ held'[m] = held[m]
CountsStay(s) == OnSlot(s)' = OnSlot(s) /\ \A o : o # NoObject => OnIt(s, o)' = OnIt(s, o)

(* What the leases refer to, when one of them goes on.                     *)
LEMMA RefsStay ==
  ASSUME RefsOK, NEW l \in Leases, OthersStay(l),
         leasePc'[l] \in {"none", "find_user"} => held'[l]["user"] = NoObject,
         leasePc'[l] = "count_user" => held'[l]["user"] # NoObject,
         held'[l]["cidr"] # NoObject <=> leasePc'[l] \in CidrSteps,
         held'[l]["share"] # NoObject <=> leasePc'[l] \in ShareSteps
  PROVE  RefsOK'
<1> SUFFICES ASSUME NEW m \in Leases, m # l
             PROVE  /\ leasePc'[m] \in {"none", "find_user"} => held'[m]["user"] = NoObject
                    /\ leasePc'[m] = "count_user" => held'[m]["user"] # NoObject
                    /\ held'[m]["cidr"] # NoObject <=> leasePc'[m] \in CidrSteps
                    /\ held'[m]["share"] # NoObject <=> leasePc'[m] \in ShareSteps
  BY DEF RefsOK, CidrSteps, CountSteps, ShareSteps
<1>1. leasePc'[m] = leasePc[m] /\ held'[m] = held[m]
  BY Zenon DEF OthersStay
<1> QED
  BY <1>1, Zenon DEF RefsOK

LEMMA LeaseStays ==
  ASSUME NEW l \in Leases, OthersStay(l), NEW s \in Slots,
         leasePc[l] \in CountSteps(s) /\ held[l][s] # NoObject
           <=> leasePc'[l] \in CountSteps(s) /\ held'[l][s] # NoObject,
         leasePc[l] \in CountSteps(s) /\ held[l][s] # NoObject => held'[l][s] = held[l][s]
  PROVE  CountsStay(s)
  BY DEF OthersStay, CountsStay, OnSlot, OnIt

LEMMA LeaseJoins ==
  ASSUME NEW l \in Leases, OthersStay(l), NEW s \in Slots, held'[l] = held[l], held[l][s] # NoObject,
         leasePc[l] \notin CountSteps(s), leasePc'[l] \in CountSteps(s)
  PROVE  /\ Cardinality(OnSlot(s)') = Cardinality(OnSlot(s)) + 1
         /\ \A o : o # NoObject => Cardinality(OnIt(s, o)') =
                                   Cardinality(OnIt(s, o)) + (IF o = held[l][s] THEN 1 ELSE 0)
<1>1. OnSlot(s)' = OnSlot(s) \cup {l} /\ l \notin OnSlot(s)
  BY DEF OthersStay, OnSlot
<1>2. IsFiniteSet(OnSlot(s))
  BY SomeLeases DEF OnSlot
<1>3. ASSUME NEW o, o # NoObject
      PROVE  Cardinality(OnIt(s, o)') = Cardinality(OnIt(s, o)) + (IF o = held[l][s] THEN 1 ELSE 0)
  <2>1. l \notin OnIt(s, o) /\ OnIt(s, o)' = (IF o = held[l][s] THEN OnIt(s, o) \cup {l} ELSE OnIt(s, o))
    BY DEF OthersStay, OnIt
  <2>2. IsFiniteSet(OnIt(s, o)) /\ Cardinality(OnIt(s, o)) \in Nat
    BY SomeLeases DEF OnIt
  <2>3. Cardinality(OnIt(s, o) \cup {l}) = Cardinality(OnIt(s, o)) + 1
    BY <2>1, <2>2, FS_AddElement, Zenon
  <2> QED
    BY <2>1, <2>2, <2>3
<1>4. Cardinality(OnSlot(s)') = Cardinality(OnSlot(s)) + 1
  BY <1>1, <1>2, FS_AddElement, Zenon
<1> QED
  BY <1>3, <1>4

LEMMA LeaseLeaves ==
  ASSUME NEW l \in Leases, OthersStay(l), NEW s \in Slots, held[l][s] # NoObject,
         leasePc[l] \in CountSteps(s), leasePc'[l] \notin CountSteps(s)
  PROVE  /\ Cardinality(OnSlot(s)') = Cardinality(OnSlot(s)) - 1
         /\ Cardinality(OnSlot(s)) \in Nat \ {0}
         /\ \A o : o # NoObject =>
              /\ Cardinality(OnIt(s, o)) \in Nat
              /\ Cardinality(OnIt(s, o)') = Cardinality(OnIt(s, o)) - (IF o = held[l][s] THEN 1 ELSE 0)
              /\ o = held[l][s] => Cardinality(OnIt(s, o)) # 0
<1>1. OnSlot(s)' = OnSlot(s) \ {l} /\ l \in OnSlot(s)
  BY DEF OthersStay, OnSlot
<1>2. IsFiniteSet(OnSlot(s)) /\ Cardinality(OnSlot(s)) \in Nat
  BY SomeLeases, Zenon DEF OnSlot
<1>3. ASSUME NEW o, o # NoObject
      PROVE  /\ Cardinality(OnIt(s, o)) \in Nat
             /\ Cardinality(OnIt(s, o)') = Cardinality(OnIt(s, o)) - (IF o = held[l][s] THEN 1 ELSE 0)
             /\ o = held[l][s] => Cardinality(OnIt(s, o)) # 0
  <2>1. /\ o = held[l][s] => l \in OnIt(s, o)
        /\ OnIt(s, o)' = (IF o = held[l][s] THEN OnIt(s, o) \ {l} ELSE OnIt(s, o))
    BY DEF OthersStay, OnIt
  <2>2. IsFiniteSet(OnIt(s, o)) /\ Cardinality(OnIt(s, o)) \in Nat
    BY SomeLeases DEF OnIt
  <2>3. CASE o = held[l][s]
    <3>1. Cardinality(OnIt(s, o) \ {l}) = Cardinality(OnIt(s, o)) - 1
      BY <2>1, <2>2, <2>3, FS_RemoveElement, Zenon
    <3>2. Cardinality(OnIt(s, o)) # 0
      BY <2>1, <2>2, <2>3, FS_EmptySet, Zenon
    <3> QED
      BY <2>1, <2>2, <2>3, <3>1, <3>2, Zenon
  <2>4. CASE o # held[l][s]
    BY <2>1, <2>2, <2>4
  <2> QED
    BY <2>3, <2>4, Zenon
<1>4. Cardinality(OnSlot(s)') = Cardinality(OnSlot(s)) - 1
  BY <1>1, <1>2, FS_RemoveElement, Zenon
<1>5. Cardinality(OnSlot(s)) # 0
  BY <1>1, <1>2, FS_EmptySet
<1> QED
  BY <1>2, <1>3, <1>4, <1>5, Zenon

(* Nothing is counted: objects may be forgotten, none is added.            *)
LEMMA NothingCounted ==
  ASSUME RolesOK, CountOK, GaugeOK, \A s \in Slots : CountsStay(s),
         \A s \in Slots : Objs(s)' \subseteq Objs(s), UNCHANGED <<count, gauge>>
  PROVE  RolesOK' /\ CountOK' /\ GaugeOK'
<1>1. RolesOK'
  BY DEF RolesOK
<1>2. ASSUME NEW s \in Slots, NEW o \in Objs(s)' PROVE count'[o] = Cardinality(OnIt(s, o)')
  <2>1. o # NoObject /\ o \in Objs(s)
    BY <1>2 DEF Objs
  <2>2. OnIt(s, o)' = OnIt(s, o)
    BY <2>1 DEF CountsStay
  <2> QED
    BY <2>1, <2>2 DEF CountOK
<1>3. GaugeOK'
  BY DEF GaugeOK, CountsStay, Slots
<1> QED
  BY <1>1, <1>2, <1>3 DEF CountOK

(* A new object is given a role; nobody counts on it yet.                  *)
LEMMA ObjectAllocated ==
  ASSUME RegistryOK, SharesOK, RolesOK, CountOK, GaugeOK, NEW r \in Slots, NEW o \in Objects, o \notin InUse,
         \A s \in Slots : CountsStay(s), Objs(r)' \subseteq Objs(r) \cup {o},
         \A s \in Slots \ {r} : Objs(s)' \subseteq Objs(s),
         count' = [count EXCEPT ![o] = 0], gauge' = gauge
  PROVE  RolesOK' /\ CountOK' /\ GaugeOK'
<1>1. o # NoObject /\ \A s \in Slots : o \notin Objs(s)
  BY RegistryAssumption, InUseRoles
<1>2. RolesOK'
  BY <1>1 DEF RolesOK
<1>3. ASSUME NEW s \in Slots, NEW x \in Objs(s)' PROVE count'[x] = Cardinality(OnIt(s, x)')
  <2>1. x # NoObject /\ (x = o \/ x \in Objs(s))
    BY <1>3 DEF Objs
  <2>2. OnIt(s, x)' = OnIt(s, x)
    BY <2>1 DEF CountsStay
  <2>3. CASE x = o
    <3>1. OnIt(s, x) = {}
      BY <1>1, <2>3 DEF OnIt, Objs
    <3>2. count'[x] = 0
      BY <2>3 DEF RegistryOK
    <3> QED
      BY <2>2, <3>1, <3>2, FS_EmptySet, Zenon
  <2>4. CASE x # o /\ x \in Objs(s)
    <3>1. count'[x] = count[x]
      BY <2>4 DEF RegistryOK
    <3> QED
      BY <2>2, <2>4, <3>1, Zenon DEF CountOK
  <2> QED
    BY <2>1, <2>3, <2>4, Zenon
<1>4. GaugeOK'
  BY Zenon DEF GaugeOK, CountsStay, Slots
<1> QED
  BY <1>2, <1>3, <1>4 DEF CountOK

SameObjs == \A s \in Slots : Objs(s)' = Objs(s)
SlotGauge(s, g) == IF s = "share" THEN gauge' = gauge ELSE gauge' = [gauge EXCEPT ![s] = g]

(* A lease counts on the object in one of its slots.                       *)
LEMMA LeaseCounts ==
  ASSUME RegistryOK, SharesOK, RolesOK, CountOK, GaugeOK, NEW l \in Leases, OthersStay(l), NEW r \in Slots,
         held'[l] = held[l], held[l][r] # NoObject,
         leasePc[l] \notin CountSteps(r), leasePc'[l] \in CountSteps(r),
         \A s \in Slots \ {r} : leasePc[l] \in CountSteps(s) <=> leasePc'[l] \in CountSteps(s),
         SameObjs, CountUp(held[l][r]), SlotGauge(r, gauge[r] + 1)
  PROVE  RolesOK' /\ CountOK' /\ GaugeOK'
<1>1. \A s \in Slots \ {r} : CountsStay(s)
  BY LeaseStays
<1>2. /\ Cardinality(OnSlot(r)') = Cardinality(OnSlot(r)) + 1
      /\ \A o : o # NoObject => Cardinality(OnIt(r, o)') =
                                Cardinality(OnIt(r, o)) + (IF o = held[l][r] THEN 1 ELSE 0)
  BY LeaseJoins, Zenon
<1>3. held[l][r] \in Objs(r) /\ held[l][r] \in Objects
  BY InUseRoles DEF Objs
<1>4. RolesOK'
  BY DEF RolesOK, SameObjs
<1>5. ASSUME NEW s \in Slots, NEW o \in Objs(s)' PROVE count'[o] = Cardinality(OnIt(s, o)')
  <2>1. o # NoObject /\ o \in Objs(s) /\ o \in Objects /\ count[o] = Cardinality(OnIt(s, o))
    BY <1>5, InUseRoles, Zenon DEF SameObjs, CountOK, Objs
  <2>2. count'[o] = count[o] + (IF o = held[l][r] THEN 1 ELSE 0) /\ count[o] \in Nat
    BY <1>3, <2>1 DEF CountUp, RegistryOK
  <2>3. CASE s = r
    BY <1>2, <2>1, <2>2, <2>3, Zenon
  <2>4. CASE s # r
    <3>1. o # held[l][r] /\ OnIt(s, o)' = OnIt(s, o)
      BY <1>1, <1>3, <2>1, <2>4, Zenon DEF RolesOK, CountsStay
    <3> QED
      BY <2>1, <2>2, <3>1
  <2> QED
    BY <2>3, <2>4, Zenon
<1>6. ASSUME NEW s \in {"user", "cidr"} PROVE gauge'[s] = Cardinality(OnSlot(s)')
  <2>1. gauge[s] = Cardinality(OnSlot(s)) /\ gauge \in [{"user", "cidr"} -> Nat]
    BY DEF GaugeOK, RegistryOK
  <2>2. CASE s = r
    BY <1>2, <2>1, <2>2, Zenon DEF SlotGauge
  <2>3. CASE s # r
    BY <1>1, <2>1, <2>3, Zenon DEF SlotGauge, CountsStay, Slots
  <2> QED
    BY <2>2, <2>3, Zenon
<1> QED
  BY <1>4, <1>5, <1>6, Zenon DEF CountOK, GaugeOK

(* A lease takes its count back.                                           *)
LEMMA LeaseUncounts ==
  ASSUME RegistryOK, SharesOK, RolesOK, CountOK, GaugeOK, NEW l \in Leases, OthersStay(l), NEW r \in Slots,
         held[l][r] # NoObject, leasePc[l] \in CountSteps(r), leasePc'[l] \notin CountSteps(r),
         \A s \in Slots \ {r} : CountsStay(s), \A s \in Slots : Objs(s)' \subseteq Objs(s),
         CountDown(held[l][r]), SlotGauge(r, SaturatingDec(gauge[r]))
  PROVE  RolesOK' /\ CountOK' /\ GaugeOK'
<1>1. /\ Cardinality(OnSlot(r)') = Cardinality(OnSlot(r)) - 1 /\ Cardinality(OnSlot(r)) \in Nat \ {0}
      /\ \A o : o # NoObject =>
           /\ Cardinality(OnIt(r, o)) \in Nat
           /\ Cardinality(OnIt(r, o)') = Cardinality(OnIt(r, o)) - (IF o = held[l][r] THEN 1 ELSE 0)
           /\ o = held[l][r] => Cardinality(OnIt(r, o)) # 0
  BY LeaseLeaves, Zenon
<1>2. held[l][r] \in Objs(r) /\ held[l][r] \in Objects
  BY InUseRoles DEF Objs
<1>3. RolesOK'
  BY Zenon DEF RolesOK
<1>4. ASSUME NEW s \in Slots, NEW o \in Objs(s)' PROVE count'[o] = Cardinality(OnIt(s, o)')
  <2>1. o # NoObject /\ o \in Objs(s) /\ o \in Objects /\ count[o] = Cardinality(OnIt(s, o))
    BY <1>4, InUseRoles, Zenon DEF CountOK, Objs
  <2>2. count'[o] = (IF o = held[l][r] THEN SaturatingDec(count[o]) ELSE count[o]) /\ count[o] \in Nat
    BY <1>2, <2>1, Zenon DEF CountDown, RegistryOK
  <2>3. CASE s = r
    BY <1>1, <2>1, <2>2, <2>3 DEF SaturatingDec
  <2>4. CASE s # r
    <3>1. o # held[l][r] /\ OnIt(s, o)' = OnIt(s, o)
      BY <1>2, <2>1, <2>4 DEF RolesOK, CountsStay
    <3> QED
      BY <2>1, <2>2, <3>1, Zenon
  <2> QED
    BY <2>3, <2>4, Zenon
<1>5. ASSUME NEW s \in {"user", "cidr"} PROVE gauge'[s] = Cardinality(OnSlot(s)')
  <2>1. gauge[s] = Cardinality(OnSlot(s)) /\ gauge \in [{"user", "cidr"} -> Nat]
    BY Zenon DEF GaugeOK, RegistryOK
  <2>2. CASE s = r
    BY <1>1, <2>1, <2>2, Zenon DEF SlotGauge, SaturatingDec
  <2>3. CASE s # r
    BY <2>1, <2>3, Zenon DEF SlotGauge, CountsStay, Slots
  <2> QED
    BY <2>2, <2>3, Zenon
<1> QED
  BY <1>3, <1>4, <1>5, Zenon DEF CountOK, GaugeOK

-----------------------------------------------------------------------------
(* A lease goes on to a step with the objects it has.                      *)
LEMMA LeaseGoesOn ==
  ASSUME RegistryInv, NEW l \in Leases, NEW step \in LeaseSteps, Advance(l, step),
         UNCHANGED <<explicit, limited, policies, userAt, cidrAt, shareAt, held, cleaner>>,
         step \notin {"none", "find_user", "count_user"},
         leasePc[l] \in CidrSteps <=> step \in CidrSteps, leasePc[l] \in ShareSteps <=> step \in ShareSteps,
         leasePc[l] \in WatchSteps => step \in WatchSteps
  PROVE  /\ RefsOK' /\ SharesOK' /\ RootsOK' /\ SameObjs /\ OthersStay(l) /\ held'[l] = held[l]
         /\ leasePc'[l] = step /\ leasePc' \in [Leases -> LeaseSteps]
<1>1. leasePc' = [leasePc EXCEPT ![l] = step] /\ leasePc \in [Leases -> LeaseSteps]
  BY DEF Advance, RegistryInv, RegistryOK
<1>2. /\ OthersStay(l) /\ held'[l] = held[l] /\ leasePc'[l] = step /\ leasePc' \in [Leases -> LeaseSteps]
  BY <1>1, Zenon DEF OthersStay
<1>3. RefsOK'
  <2>1. RefsOK
    BY Zenon DEF RegistryInv
  <2> QED
    BY <1>1, <2>1 DEF RefsOK
<1>4. SharesOK'
  <2>1. SharesOK
    BY DEF RegistryInv
  <2>2. \A m \in Leases : leasePc[m] \in WatchSteps => leasePc'[m] \in WatchSteps
    BY <1>1, Zenon
  <2> QED
    BY <2>1, <2>2 DEF SharesOK
<1>5. RootsOK'
  BY Zenon DEF RegistryInv, RootsOK
<1>6. SameObjs
  BY DEF SameObjs, Objs, Root
<1> QED
  BY <1>2, <1>3, <1>4, <1>5, <1>6, Zenon

LEMMA StepLoadPolicy ==
  ASSUME RegistryInv, NEW l \in Leases, LoadPolicy(l)
  PROVE  RegistryInv'
<1>1. RegistryOK /\ RefsOK /\ RolesOK /\ CountOK /\ GaugeOK /\ SharesOK /\ RootsOK
  BY DEF RegistryInv
<1>2. PICK step \in {"find_user", "find_cidr"} : leasePc' = [leasePc EXCEPT ![l] = step]
  BY Zenon DEF LoadPolicy, Advance
<1>3. /\ leasePc[l] = "none"
      /\ UNCHANGED <<explicit, limited, policies, userAt, cidrAt, shareAt, count, gauge, held, cleaner>>
  BY DEF LoadPolicy
<1>4. RegistryOK'
  BY <1>1, <1>2, <1>3, Zenon DEF RegistryOK, LeaseSteps
<1>5. held[l]["user"] = NoObject /\ held[l]["cidr"] = NoObject /\ held[l]["share"] = NoObject
  BY <1>1, <1>3, Zenon DEF RefsOK, CidrSteps, CountSteps, ShareSteps
<1>6. RefsOK'
  BY <1>1, <1>2, <1>3, <1>5, Zenon DEF RefsOK, RegistryOK, CidrSteps, CountSteps, ShareSteps
<1>7. OthersStay(l) /\ held'[l] = held[l]
  BY <1>1, <1>2, <1>3, Zenon DEF OthersStay, RegistryOK
<1>8. ASSUME NEW s \in Slots PROVE CountsStay(s)
  BY <1>5, <1>7, LeaseStays, Zenon DEF Slots
<1>9. \A s \in Slots : Objs(s)' \subseteq Objs(s)
  BY <1>3 DEF Objs, Root
<1>10. RolesOK' /\ CountOK' /\ GaugeOK'
  BY <1>1, <1>3, <1>8, <1>9, NothingCounted, Zenon
<1>11. SharesOK'
  <2>1. \A m \in Leases : leasePc[m] \in WatchSteps => leasePc'[m] \in WatchSteps
    BY <1>1, <1>2, <1>3, Zenon DEF RegistryOK, WatchSteps, ShareSteps
  <2> QED
    BY <1>1, <1>3, <2>1 DEF SharesOK
<1>12. RootsOK'
  BY <1>1, <1>3, Zenon DEF RootsOK
<1> QED
  BY <1>4, <1>6, <1>10, <1>11, <1>12, Zenon DEF RegistryInv

(* The three ways to count, and the first two to take a count back.        *)
LEMMA StepCounts ==
  ASSUME RegistryInv, NEW l \in Leases, CountUser(l) \/ CountCidr(l) \/ CountShare(l)
  PROVE  RegistryInv'
<1>1. RegistryOK /\ RefsOK /\ RolesOK /\ CountOK /\ GaugeOK /\ SharesOK
  BY DEF RegistryInv
<1>2. PICK r \in Slots, step \in LeaseSteps :
        /\ Advance(l, step) /\ CountUp(held[l][r])
        /\ UNCHANGED <<explicit, limited, policies, userAt, cidrAt, shareAt, held, cleaner>>
        /\ \/ r = "user" /\ leasePc[l] = "count_user" /\ step = "find_cidr" /\ GaugeUp("user")
           \/ r = "cidr" /\ leasePc[l] = "count_cidr" /\ step = "find_share" /\ GaugeUp("cidr")
           \/ r = "share" /\ leasePc[l] = "count_share" /\ step = "leased" /\ gauge' = gauge
  BY Zenon DEF CountUser, CountCidr, CountShare, Slots, LeaseSteps
<1>3. /\ step \notin {"none", "find_user", "count_user"}
      /\ leasePc[l] \in CidrSteps <=> step \in CidrSteps
      /\ leasePc[l] \in ShareSteps <=> step \in ShareSteps
      /\ leasePc[l] \in WatchSteps => step \in WatchSteps
      /\ leasePc[l] \notin CountSteps(r) /\ step \in CountSteps(r)
      /\ \A s \in Slots \ {r} : leasePc[l] \in CountSteps(s) <=> step \in CountSteps(s)
  BY <1>2, Zenon DEF CidrSteps, CountSteps, ShareSteps, WatchSteps, Slots
<1>4. held[l][r] # NoObject /\ held[l][r] \in Objects
  BY <1>1, <1>2 DEF RefsOK, CidrSteps, ShareSteps, RegistryOK, SomeObject
<1>5. /\ RefsOK' /\ SharesOK' /\ RootsOK' /\ SameObjs /\ OthersStay(l) /\ held'[l] = held[l]
      /\ leasePc'[l] = step /\ leasePc' \in [Leases -> LeaseSteps]
  BY <1>2, <1>3, LeaseGoesOn, Zenon
<1>6. SlotGauge(r, gauge[r] + 1)
  BY <1>1, <1>2, Zenon DEF SlotGauge, GaugeUp, RegistryOK
<1>7. RolesOK' /\ CountOK' /\ GaugeOK'
  BY <1>1, <1>2, <1>3, <1>4, <1>5, <1>6, LeaseCounts, Zenon
<1>8. count' \in [Objects -> Nat] /\ gauge' \in [{"user", "cidr"} -> Nat]
  BY <1>1, <1>2, <1>4 DEF CountUp, GaugeUp, RegistryOK
<1>9. RegistryOK'
  BY <1>1, <1>2, <1>5, <1>8, Zenon DEF RegistryOK
<1> QED
  BY <1>5, <1>7, <1>9, Zenon DEF RegistryInv

LEMMA StepUncounts ==
  ASSUME RegistryInv, NEW l \in Leases, (DropUser(l) /\ held[l]["user"] # NoObject) \/ DropShare(l)
  PROVE  RegistryInv'
<1>1. RegistryOK /\ RefsOK /\ RolesOK /\ CountOK /\ GaugeOK /\ SharesOK
  BY DEF RegistryInv
<1>2. PICK r \in Slots, step \in LeaseSteps :
        /\ Advance(l, step) /\ CountDown(held[l][r])
        /\ UNCHANGED <<explicit, limited, policies, userAt, cidrAt, shareAt, held, cleaner>>
        /\ \/ /\ r = "user" /\ leasePc[l] = "leased" /\ step = "drop_share" /\ GaugeDown("user")
              /\ held[l]["user"] # NoObject
           \/ r = "share" /\ leasePc[l] = "drop_share" /\ step = "test_share" /\ gauge' = gauge
  BY Zenon DEF DropUser, DropShare, Slots, LeaseSteps
<1>3. /\ step \notin {"none", "find_user", "count_user"}
      /\ leasePc[l] \in CidrSteps <=> step \in CidrSteps
      /\ leasePc[l] \in ShareSteps <=> step \in ShareSteps
      /\ leasePc[l] \in WatchSteps => step \in WatchSteps
      /\ leasePc[l] \in CountSteps(r) /\ step \notin CountSteps(r)
      /\ \A s \in Slots \ {r} : leasePc[l] \in CountSteps(s) <=> step \in CountSteps(s)
  BY <1>2, Zenon DEF CidrSteps, CountSteps, ShareSteps, WatchSteps, Slots
<1>4. held[l][r] # NoObject /\ held[l][r] \in Objects
  BY <1>1, <1>2 DEF RefsOK, ShareSteps, RegistryOK, SomeObject
<1>5. /\ RefsOK' /\ SharesOK' /\ RootsOK' /\ SameObjs /\ OthersStay(l) /\ held'[l] = held[l]
      /\ leasePc'[l] = step /\ leasePc' \in [Leases -> LeaseSteps]
  BY <1>2, <1>3, LeaseGoesOn, Zenon
<1>6. SlotGauge(r, SaturatingDec(gauge[r]))
  BY <1>1, <1>2, Zenon DEF SlotGauge, GaugeDown, RegistryOK
<1>7. \A s \in Slots \ {r} : CountsStay(s)
  BY <1>3, <1>5, LeaseStays, Zenon
<1>8. RolesOK' /\ CountOK' /\ GaugeOK'
  BY <1>1, <1>2, <1>3, <1>4, <1>5, <1>6, <1>7, LeaseUncounts, Zenon DEF SameObjs
<1>9. count' \in [Objects -> Nat] /\ gauge' \in [{"user", "cidr"} -> Nat]
  <2>1. \A n \in Nat : SaturatingDec(n) \in Nat
    BY DEF SaturatingDec
  <2> QED
    BY <1>1, <1>2, <1>4, <2>1, Zenon DEF CountDown, GaugeDown, RegistryOK
<1>10. RegistryOK'
  BY <1>1, <1>2, <1>5, <1>9, Zenon DEF RegistryOK
<1> QED
  BY <1>5, <1>8, <1>10, Zenon DEF RegistryInv

(* A lease without a user's bucket has nothing to give back first; and a   *)
(* share found idle is to be removed.                                      *)
LEMMA StepPlain ==
  ASSUME RegistryInv, NEW l \in Leases,
         (DropUser(l) /\ held[l]["user"] = NoObject) \/ (TestShare(l) /\ ShareIsIdle(l))
  PROVE  RegistryInv'
<1>1. RegistryOK /\ RefsOK /\ RolesOK /\ CountOK /\ GaugeOK /\ SharesOK
  BY DEF RegistryInv
<1>2. PICK step \in LeaseSteps :
        /\ Advance(l, step)
        /\ UNCHANGED <<explicit, limited, policies, userAt, cidrAt, shareAt, count, gauge, held, cleaner>>
        /\ \/ leasePc[l] = "leased" /\ step = "drop_share" /\ held[l]["user"] = NoObject
           \/ leasePc[l] = "test_share" /\ step = "remove_share"
  BY Zenon DEF DropUser, TestShare, LeaseSteps
<1>3. /\ step \notin {"none", "find_user", "count_user"}
      /\ leasePc[l] \in CidrSteps <=> step \in CidrSteps
      /\ leasePc[l] \in ShareSteps <=> step \in ShareSteps
      /\ leasePc[l] \in WatchSteps => step \in WatchSteps
      /\ \A s \in Slots : held[l][s] = NoObject \/ (leasePc[l] \in CountSteps(s) <=> step \in CountSteps(s))
  BY <1>2, Zenon DEF CidrSteps, CountSteps, ShareSteps, WatchSteps, Slots
<1>4. /\ RefsOK' /\ SharesOK' /\ RootsOK' /\ SameObjs /\ OthersStay(l) /\ held'[l] = held[l]
      /\ leasePc'[l] = step /\ leasePc' \in [Leases -> LeaseSteps]
  BY <1>2, <1>3, LeaseGoesOn, Zenon
<1>5. \A s \in Slots : CountsStay(s)
  BY <1>3, <1>4, LeaseStays, Zenon
<1>6. RolesOK' /\ CountOK' /\ GaugeOK'
  BY <1>1, <1>2, <1>4, <1>5, NothingCounted, Zenon DEF SameObjs
<1>7. RegistryOK'
  BY <1>1, <1>2, <1>4 DEF RegistryOK
<1> QED
  BY <1>4, <1>6, <1>7, Zenon DEF RegistryInv

(* A share that is not idle has another lease that will look at it.        *)
LEMMA StepBusyShare ==
  ASSUME RegistryInv, NEW l \in Leases, TestShare(l), ~ShareIsIdle(l)
  PROVE  RegistryInv'
<1>1. RegistryOK /\ RefsOK /\ RolesOK /\ CountOK /\ GaugeOK /\ SharesOK /\ RootsOK
  BY DEF RegistryInv
<1>2. /\ leasePc[l] = "test_share" /\ leasePc' = [leasePc EXCEPT ![l] = "drop_cidr"]
      /\ UNCHANGED <<explicit, limited, policies, userAt, cidrAt, shareAt, count, gauge, held, cleaner>>
  BY Zenon DEF TestShare, Advance
<1>3. OthersStay(l) /\ held'[l] = held[l] /\ leasePc'[l] = "drop_cidr" /\ leasePc' \in [Leases -> LeaseSteps]
  BY <1>1, <1>2, Zenon DEF OthersStay, RegistryOK, LeaseSteps
<1>4. \A s \in Slots : CountsStay(s)
  <2>1. \A s \in Slots : leasePc[l] \in CountSteps(s) <=> leasePc'[l] \in CountSteps(s)
    BY <1>2, <1>3, Zenon DEF CountSteps, Slots
  <2> QED
    BY <1>3, <2>1, LeaseStays
<1>5. \A s \in Slots : Objs(s)' \subseteq Objs(s)
  BY <1>2, Zenon DEF Objs, Root
<1>6. RolesOK' /\ CountOK' /\ GaugeOK'
  BY <1>1, <1>2, <1>4, <1>5, NothingCounted, Zenon
<1>7. RefsOK'
  BY <1>1, <1>2, Zenon DEF RefsOK, RegistryOK, CidrSteps, CountSteps, ShareSteps
<1>8. SharesOK'
  <2>1. SUFFICES ASSUME NEW b \in Objects, shareAt[b] # NoObject
                 PROVE  \E m \in Leases : /\ held[m]["cidr"] = b /\ held[m]["share"] = shareAt[b]
                                          /\ leasePc'[m] \in WatchSteps
    BY <1>1, <1>2, Zenon DEF SharesOK
  <2>2. PICK k \in Leases : held[k]["cidr"] = b /\ held[k]["share"] = shareAt[b] /\ leasePc[k] \in WatchSteps
    BY <1>1, <2>1, Zenon DEF SharesOK
  <2>3. CASE k # l
    BY <1>3, <2>2, <2>3, Zenon DEF OthersStay
  <2>4. CASE k = l
    <3>1. shareAt[b] \in Objs("share") /\ shareAt[b] \in Objects
      BY <1>1, <2>1, <2>2, Zenon DEF Objs, RegistryOK, SomeObject
    <3>2. count[shareAt[b]] = Cardinality(OnIt("share", shareAt[b]))
      BY <1>1, <3>1, Zenon DEF CountOK, Slots
    <3>3. count[shareAt[b]] # 0
      BY <2>2, <2>4, Zenon DEF ShareIsIdle
    <3>4. OnIt("share", shareAt[b]) # {}
      BY <3>2, <3>3, FS_EmptySet, Zenon
    <3>5. PICK m \in Leases : leasePc[m] \in CountSteps("share") /\ held[m]["share"] = shareAt[b]
      BY <3>4, Zenon DEF OnIt
    <3>6. m # l /\ leasePc[m] \in WatchSteps
      BY <1>2, <3>5, Zenon DEF CountSteps, WatchSteps, ShareSteps
    <3>7. held[m]["cidr"] = b
      BY <1>1, <2>1, <2>2, <3>5 DEF SharesOK
    <3> QED
      BY <1>3, <3>5, <3>6, <3>7, Zenon DEF OthersStay
  <2> QED
    BY <2>3, <2>4, Zenon
<1>9. RootsOK'
  BY <1>1, <1>2, Zenon DEF RootsOK
<1>10. RegistryOK'
  BY <1>1, <1>2, <1>3, Zenon DEF RegistryOK
<1> QED
  BY <1>6, <1>7, <1>8, <1>9, <1>10, Zenon DEF RegistryInv

LEMMA StepRemoveShare ==
  ASSUME RegistryInv, NEW l \in Leases, RemoveShare(l)
  PROVE  RegistryInv'
<1>1. RegistryOK /\ RefsOK /\ RolesOK /\ CountOK /\ GaugeOK /\ SharesOK /\ RootsOK
  BY DEF RegistryInv
<1>2. /\ leasePc[l] = "remove_share" /\ leasePc' = [leasePc EXCEPT ![l] = "drop_cidr"]
      /\ shareAt' = [shareAt EXCEPT ![held[l]["cidr"]] = NoObject]
      /\ UNCHANGED <<explicit, limited, policies, userAt, cidrAt, count, gauge, held, cleaner>>
  BY Zenon DEF RemoveShare, Advance
<1>3. OthersStay(l) /\ held'[l] = held[l] /\ leasePc'[l] = "drop_cidr" /\ leasePc' \in [Leases -> LeaseSteps]
  BY <1>1, <1>2, Zenon DEF OthersStay, RegistryOK, LeaseSteps
<1>4. \A s \in Slots : CountsStay(s)
  <2>1. \A s \in Slots : leasePc[l] \in CountSteps(s) <=> leasePc'[l] \in CountSteps(s)
    BY <1>2, <1>3, Zenon DEF CountSteps, Slots
  <2> QED
    BY <1>3, <2>1, LeaseStays, Zenon
<1>5. \A s \in Slots : Objs(s)' \subseteq Objs(s)
  BY <1>2, Zenon DEF Objs, Root
<1>6. RolesOK' /\ CountOK' /\ GaugeOK'
  BY <1>1, <1>2, <1>4, <1>5, NothingCounted, Zenon
<1>7. RefsOK'
  BY <1>1, <1>2, Zenon DEF RefsOK, RegistryOK, CidrSteps, CountSteps, ShareSteps
<1>8. SharesOK'
  <2>1. \A b \in Objects : shareAt'[b] # NoObject => shareAt'[b] = shareAt[b] /\ b # held[l]["cidr"]
    BY <1>1, <1>2, Zenon DEF RegistryOK
  <2> QED
    BY <1>1, <1>2, <1>3, <2>1 DEF SharesOK, OthersStay
<1>9. RootsOK'
  BY <1>1, <1>2, Zenon DEF RootsOK
<1>10. RegistryOK'
  BY <1>1, <1>2, <1>3, Zenon DEF RegistryOK, SomeObject
<1> QED
  BY <1>6, <1>7, <1>8, <1>9, <1>10, Zenon DEF RegistryInv

LEMMA StepDropCidr ==
  ASSUME RegistryInv, NEW l \in Leases, DropCidr(l)
  PROVE  RegistryInv'
<1>1. RegistryOK /\ RefsOK /\ RolesOK /\ CountOK /\ GaugeOK /\ SharesOK /\ RootsOK
  BY DEF RegistryInv
<1>2. /\ leasePc[l] = "drop_cidr" /\ leasePc' = [leasePc EXCEPT ![l] = "none"]
      /\ held' = [held EXCEPT ![l] = [s \in Slots |-> NoObject]]
      /\ CountDown(held[l]["cidr"]) /\ GaugeDown("cidr")
      /\ UNCHANGED <<explicit, limited, policies, userAt, cidrAt, shareAt, cleaner>>
  BY DEF DropCidr, Advance, CidrGaugeDown
<1>3. /\ OthersStay(l) /\ \A s \in Slots : held'[l][s] = NoObject
      /\ leasePc'[l] = "none" /\ leasePc' \in [Leases -> LeaseSteps]
      /\ held' \in [Leases -> [Slots -> SomeObject]]
  BY <1>1, <1>2, Zenon DEF OthersStay, RegistryOK, LeaseSteps, SomeObject
<1>4. held[l]["cidr"] # NoObject /\ held[l]["cidr"] \in Objects
  BY <1>1, <1>2 DEF RefsOK, CidrSteps, CountSteps, RegistryOK, SomeObject, Slots
<1>5. \A s \in Slots \ {"cidr"} : CountsStay(s)
  <2>1. \A s \in Slots \ {"cidr"} : leasePc[l] \notin CountSteps(s) /\ leasePc'[l] \notin CountSteps(s)
    BY <1>2, <1>3, Zenon DEF CountSteps, Slots
  <2> QED
    BY <1>3, <2>1, LeaseStays, Zenon
<1>6. \A s \in Slots : Objs(s)' \subseteq Objs(s)
  BY <1>2, <1>3 DEF Objs, Root, OthersStay
<1>7. /\ SlotGauge("cidr", SaturatingDec(gauge["cidr"])) /\ "cidr" \in Slots
      /\ leasePc[l] \in CountSteps("cidr") /\ leasePc'[l] \notin CountSteps("cidr")
  BY <1>1, <1>2, <1>3, Zenon DEF SlotGauge, GaugeDown, RegistryOK, Slots, CountSteps
<1>8. RolesOK' /\ CountOK' /\ GaugeOK'
  BY <1>1, <1>2, <1>3, <1>4, <1>5, <1>6, <1>7, LeaseUncounts, Zenon
<1>9. RefsOK'
  BY <1>1, <1>2, <1>3, Zenon DEF RefsOK, RegistryOK, CidrSteps, CountSteps, ShareSteps, Slots
<1>10. SharesOK'
  <2>1. leasePc[l] \notin WatchSteps
    BY <1>2, Zenon DEF WatchSteps
  <2> QED
    BY <1>1, <1>2, <1>3, <2>1 DEF SharesOK, OthersStay, Slots
<1>11. RootsOK'
  BY <1>1, <1>2, <1>3, Zenon DEF RootsOK, OthersStay, Slots
<1>12. count' \in [Objects -> Nat] /\ gauge' \in [{"user", "cidr"} -> Nat]
  <2>1. \A n \in Nat : SaturatingDec(n) \in Nat
    BY DEF SaturatingDec
  <2> QED
    BY <1>1, <1>2, <1>4, <2>1, Zenon DEF CountDown, GaugeDown, RegistryOK
<1>13. RegistryOK'
  BY <1>1, <1>2, <1>3, <1>12, Zenon DEF RegistryOK
<1> QED
  BY <1>8, <1>9, <1>10, <1>11, <1>13, Zenon DEF RegistryInv

-----------------------------------------------------------------------------
(* A lease finds an object in a registry, or puts a new one there: the     *)
(* slot it fills is one it counts on neither before nor after.             *)
Found(l, s, o) ==
  /\ Hold(l, s, o) /\ o \in Objects /\ gauge' = gauge
  /\ leasePc[l] \notin CountSteps(s) /\ leasePc'[l] \notin CountSteps(s)
  /\ \A t \in Slots \ {s} : leasePc[l] \in CountSteps(t) <=> leasePc'[l] \in CountSteps(t)
  /\ \A m \in Leases \ {l} : leasePc'[m] = leasePc[m]
  /\ \A t \in Slots \ {s} : Root(t)' = Root(t)
  /\ \/ o \in Objs(s) /\ count' = count
     \/ o \notin InUse /\ count' = [count EXCEPT ![o] = 0]

LEMMA ObjectFound ==
  ASSUME RegistryOK, SharesOK, RolesOK, CountOK, GaugeOK, NEW l \in Leases, NEW s \in Slots, NEW o,
         Found(l, s, o), Root(s)' \in {Root(s), o}
  PROVE  /\ RolesOK' /\ CountOK' /\ GaugeOK' /\ OthersStay(l)
         /\ held'[l][s] = o /\ \A t \in Slots \ {s} : held'[l][t] = held[l][t]
         /\ held' \in [Leases -> [Slots -> SomeObject]]
         /\ count' \in [Objects -> Nat]
<1>1. /\ held \in [Leases -> [Slots -> SomeObject]] /\ count \in [Objects -> Nat]
      /\ held' = [held EXCEPT ![l][s] = o] /\ o \in Objects
  BY DEF RegistryOK, Found, Hold
<1>2. /\ held'[l][s] = o /\ \A t \in Slots \ {s} : held'[l][t] = held[l][t]
      /\ \A m \in Leases \ {l} : held'[m] = held[m]
  BY <1>1, Zenon
<1>3. held' \in [Leases -> [Slots -> SomeObject]] /\ count' \in [Objects -> Nat]
  BY <1>1 DEF SomeObject, Found
<1>4. OthersStay(l)
  BY <1>2 DEF OthersStay, Found
<1>5. \A t \in Slots : CountsStay(t)
  <2>1. CountsStay(s)
    BY <1>4, LeaseStays, Zenon DEF Found
  <2>2. ASSUME NEW t \in Slots \ {s} PROVE CountsStay(t)
    BY <1>2, <1>4, LeaseStays, Zenon DEF Found
  <2> QED
    BY <2>1, <2>2, Zenon
<1>6. Objs(s)' \subseteq Objs(s) \cup {o}
  <2>1. \A m \in Leases : held'[m][s] \in {held[m][s], o}
    BY <1>2, Zenon
  <2> QED
    BY <2>1, Zenon DEF Objs
<1>7. ASSUME NEW t \in Slots \ {s} PROVE Objs(t)' \subseteq Objs(t)
  <2>1. \A m \in Leases : held'[m][t] = held[m][t]
    BY <1>2, Zenon
  <2>2. Root(t)' = Root(t)
    BY Zenon DEF Found
  <2> QED
    BY <2>1, <2>2, Zenon DEF Objs
<1>8. CASE o \in Objs(s) /\ count' = count
  <2>1. \A t \in Slots : Objs(t)' \subseteq Objs(t)
    BY <1>6, <1>7, <1>8, Zenon
  <2>2. gauge' = gauge
    BY Zenon DEF Found
  <2> QED
    BY <1>2, <1>3, <1>4, <1>5, <1>8, <2>1, <2>2, NothingCounted, Zenon
<1>9. CASE o \notin InUse /\ count' = [count EXCEPT ![o] = 0]
  <2>1. gauge' = gauge
    BY DEF Found
  <2> QED
    BY <1>1, <1>2, <1>3, <1>4, <1>5, <1>6, <1>7, <1>9, <2>1, ObjectAllocated, Zenon
<1> QED
  BY <1>8, <1>9, Zenon DEF Found

LEMMA StepFindUser ==
  ASSUME RegistryInv, NEW l \in Leases, FindUser(l)
  PROVE  RegistryInv'
<1> DEFINE o == IF userAt = NoObject THEN Fresh ELSE userAt
<1>1. RegistryOK /\ RefsOK /\ RolesOK /\ CountOK /\ GaugeOK /\ SharesOK /\ RootsOK
  BY DEF RegistryInv
<1>2. /\ leasePc[l] = "find_user" /\ leasePc' = [leasePc EXCEPT ![l] = "count_user"]
      /\ userAt' = o /\ Hold(l, "user", o)
      /\ count' = IF userAt = NoObject THEN [count EXCEPT ![o] = 0] ELSE count
      /\ UNCHANGED <<explicit, limited, policies, cidrAt, shareAt, gauge, cleaner>>
  BY Zenon DEF FindUser, Advance
<1>3. o \in Objects /\ o # NoObject /\ (userAt = NoObject => o \notin InUse) /\ (userAt # NoObject => o = userAt)
  BY <1>1, FreshIsFree, Zenon DEF RegistryOK, SomeObject
<1> HIDE DEF o
<1>4. /\ leasePc'[l] = "count_user" /\ leasePc' \in [Leases -> LeaseSteps]
      /\ \A m \in Leases \ {l} : leasePc'[m] = leasePc[m]
  BY <1>1, <1>2, Zenon DEF RegistryOK, LeaseSteps
<1>5. /\ leasePc[l] \notin CountSteps("user") /\ leasePc'[l] \notin CountSteps("user")
      /\ \A t \in Slots \ {"user"} : leasePc[l] \in CountSteps(t) <=> leasePc'[l] \in CountSteps(t)
  BY <1>2, <1>4, Zenon DEF CountSteps, Slots
<1>6. \/ o \in Objs("user") /\ count' = count
      \/ o \notin InUse /\ count' = [count EXCEPT ![o] = 0]
  BY <1>2, <1>3 DEF Objs, Root
<1>7. \A t \in Slots \ {"user"} : Root(t)' = Root(t)
  BY <1>2, Zenon DEF Root
<1>8. Found(l, "user", o) /\ Root("user")' \in {Root("user"), o} /\ "user" \in Slots
  BY <1>2, <1>3, <1>4, <1>5, <1>6, <1>7, Zenon DEF Found, Root, Slots
<1>9. /\ RolesOK' /\ CountOK' /\ GaugeOK' /\ OthersStay(l)
      /\ held'[l]["user"] = o /\ \A t \in Slots \ {"user"} : held'[l][t] = held[l][t]
      /\ held' \in [Leases -> [Slots -> SomeObject]] /\ count' \in [Objects -> Nat]
  BY <1>1, <1>8, ObjectFound, Zenon
<1>10. held'[l]["cidr"] = held[l]["cidr"] /\ held'[l]["share"] = held[l]["share"]
  BY <1>9, Zenon DEF Slots
<1>11. RefsOK'
  BY <1>1, <1>2, <1>3, <1>4, <1>9, <1>10 DEF RefsOK, OthersStay, CidrSteps, CountSteps, ShareSteps
<1>12. SharesOK'
  <2>1. \A m \in Leases : held'[m]["cidr"] = held[m]["cidr"] /\ held'[m]["share"] = held[m]["share"]
    BY <1>9, <1>10, Zenon DEF OthersStay
  <2>2. leasePc[l] \notin WatchSteps
    BY <1>2 DEF WatchSteps, ShareSteps
  <2>3. \A m \in Leases : leasePc[m] \in WatchSteps => leasePc'[m] \in WatchSteps
    BY <1>4, <2>2, Zenon
  <2> QED
    BY <1>1, <1>2, <2>1, <2>3 DEF SharesOK
<1>13. RootsOK'
  BY <1>1, <1>2, <1>3, <1>9, <1>10, Zenon DEF RootsOK, OthersStay
<1>14. RegistryOK'
  BY <1>1, <1>2, <1>3, <1>4, <1>9, Zenon DEF RegistryOK, SomeObject
<1> QED
  BY <1>9, <1>11, <1>12, <1>13, <1>14, Zenon DEF RegistryInv

LEMMA StepFindCidr ==
  ASSUME RegistryInv, NEW l \in Leases, FindCidr(l)
  PROVE  RegistryInv'
<1> DEFINE o == IF cidrAt = NoObject THEN Fresh ELSE cidrAt
<1>1. RegistryOK /\ RefsOK /\ RolesOK /\ CountOK /\ GaugeOK /\ SharesOK /\ RootsOK
  BY DEF RegistryInv
<1>2. /\ leasePc[l] = "find_cidr" /\ leasePc' = [leasePc EXCEPT ![l] = "count_cidr"]
      /\ cidrAt' = o /\ Hold(l, "cidr", o)
      /\ \/ cidrAt = NoObject /\ count' = [count EXCEPT ![o] = 0] /\ shareAt' = [shareAt EXCEPT ![o] = NoObject]
         \/ cidrAt # NoObject /\ UNCHANGED <<count, shareAt>>
      /\ UNCHANGED <<explicit, limited, policies, userAt, gauge, cleaner>>
  BY Zenon DEF FindCidr, Advance
<1>3. o \in Objects /\ o # NoObject /\ (cidrAt = NoObject => o \notin InUse) /\ (cidrAt # NoObject => o = cidrAt)
  BY <1>1, FreshIsFree, Zenon DEF RegistryOK, SomeObject
<1> HIDE DEF o
<1>4. /\ leasePc'[l] = "count_cidr" /\ leasePc' \in [Leases -> LeaseSteps]
      /\ \A m \in Leases \ {l} : leasePc'[m] = leasePc[m]
  BY <1>1, <1>2, Zenon DEF RegistryOK, LeaseSteps
<1>5. /\ leasePc[l] \notin CountSteps("cidr") /\ leasePc'[l] \notin CountSteps("cidr")
      /\ \A t \in Slots \ {"cidr"} : leasePc[l] \in CountSteps(t) <=> leasePc'[l] \in CountSteps(t)
  BY <1>2, <1>4, Zenon DEF CountSteps, Slots
<1>6. \/ o \in Objs("cidr") /\ count' = count
      \/ o \notin InUse /\ count' = [count EXCEPT ![o] = 0]
  BY <1>2, <1>3, Zenon DEF Objs, Root
<1>7. \A t \in Slots \ {"cidr"} : Root(t)' = Root(t)
  BY <1>2, Zenon DEF Root
<1>8. Found(l, "cidr", o) /\ Root("cidr")' \in {Root("cidr"), o} /\ "cidr" \in Slots
  BY <1>2, <1>3, <1>4, <1>5, <1>6, <1>7, Zenon DEF Found, Root, Slots
<1>9. /\ RolesOK' /\ CountOK' /\ GaugeOK' /\ OthersStay(l)
      /\ held'[l]["cidr"] = o /\ \A t \in Slots \ {"cidr"} : held'[l][t] = held[l][t]
      /\ held' \in [Leases -> [Slots -> SomeObject]] /\ count' \in [Objects -> Nat]
  BY <1>1, <1>8, ObjectFound, Zenon
<1>10. held'[l]["user"] = held[l]["user"] /\ held'[l]["share"] = held[l]["share"]
  BY <1>9, Zenon DEF Slots
<1>11. RefsOK'
  BY <1>1, <1>2, <1>3, <1>4, <1>9, <1>10 DEF RefsOK, OthersStay, CidrSteps, CountSteps, ShareSteps
<1>12. held[l]["share"] = NoObject /\ leasePc[l] \notin WatchSteps
  BY <1>1, <1>2, Zenon DEF RefsOK, ShareSteps, WatchSteps
<1>13. SharesOK'
  <2>1. \A m \in Leases : held'[m]["share"] = held[m]["share"]
                          /\ (m # l => held'[m]["cidr"] = held[m]["cidr"] /\ leasePc'[m] = leasePc[m])
    BY <1>4, <1>9, <1>10, Zenon DEF OthersStay
  <2>2. \A b \in Objects : shareAt'[b] # NoObject => shareAt'[b] = shareAt[b]
    BY <1>1, <1>2, <1>3, Zenon DEF RegistryOK
  <2> QED
    BY <1>1, <1>12, <2>1, <2>2 DEF SharesOK
<1>14. RootsOK'
  BY <1>1, <1>2, <1>3, <1>9, <1>10, Zenon DEF RootsOK, OthersStay
<1>15. shareAt' \in [Objects -> SomeObject]
  BY <1>1, <1>2, <1>3, Zenon DEF RegistryOK, SomeObject
<1>16. RegistryOK'
  BY <1>1, <1>2, <1>3, <1>4, <1>9, <1>15, Zenon DEF RegistryOK, SomeObject
<1> QED
  BY <1>9, <1>11, <1>13, <1>14, <1>16, Zenon DEF RegistryInv

LEMMA StepFindShare ==
  ASSUME RegistryInv, NEW l \in Leases, FindShare(l)
  PROVE  RegistryInv'
<1> DEFINE b == held[l]["cidr"]
           o == IF shareAt[b] = NoObject THEN Fresh ELSE shareAt[b]
<1>1. RegistryOK /\ RefsOK /\ RolesOK /\ CountOK /\ GaugeOK /\ SharesOK /\ RootsOK
  BY DEF RegistryInv
<1>2. /\ leasePc[l] = "find_share" /\ leasePc' = [leasePc EXCEPT ![l] = "count_share"]
      /\ shareAt' = [shareAt EXCEPT ![b] = o] /\ Hold(l, "share", o)
      /\ count' = IF shareAt[b] = NoObject THEN [count EXCEPT ![o] = 0] ELSE count
      /\ UNCHANGED <<explicit, limited, policies, userAt, cidrAt, gauge, cleaner>>
  BY Zenon DEF FindShare, Advance
<1>3. b \in Objects /\ b # NoObject
  BY <1>1, <1>2 DEF RefsOK, CidrSteps, CountSteps, RegistryOK, SomeObject, Slots
<1>4. /\ o \in Objects /\ o # NoObject /\ (shareAt[b] = NoObject => o \notin InUse)
      /\ (shareAt[b] # NoObject => o = shareAt[b])
  BY <1>1, <1>3, FreshIsFree, Zenon DEF RegistryOK, SomeObject
<1> HIDE DEF o
<1>5. /\ leasePc'[l] = "count_share" /\ leasePc' \in [Leases -> LeaseSteps]
      /\ \A m \in Leases \ {l} : leasePc'[m] = leasePc[m]
  BY <1>1, <1>2, Zenon DEF RegistryOK, LeaseSteps
<1>6. /\ leasePc[l] \notin CountSteps("share") /\ leasePc'[l] \notin CountSteps("share")
      /\ \A t \in Slots \ {"share"} : leasePc[l] \in CountSteps(t) <=> leasePc'[l] \in CountSteps(t)
  BY <1>2, <1>5, Zenon DEF CountSteps, Slots
<1>7. /\ shareAt[b] # NoObject => \A m \in Leases : held[m]["share"] = o => held[m]["cidr"] = b
      /\ shareAt[b] # NoObject => \E m \in Leases : held[m]["share"] = o
  BY <1>1, <1>3, <1>4 DEF SharesOK
<1>8. shareAt[b] = NoObject => \A m \in Leases : held[m]["share"] # o
  BY <1>1, <1>4, InUseRoles, Zenon DEF Objs, Slots
<1>9. \/ o \in Objs("share") /\ count' = count
      \/ o \notin InUse /\ count' = [count EXCEPT ![o] = 0]
  BY <1>2, <1>4, <1>7, Zenon DEF Objs
<1>10. \A t \in Slots : Root(t)' = Root(t)
  BY <1>2, Zenon DEF Root
<1>11. Found(l, "share", o) /\ Root("share")' \in {Root("share"), o} /\ "share" \in Slots
  BY <1>2, <1>4, <1>5, <1>6, <1>9, <1>10, Zenon DEF Found, Slots
<1>12. /\ RolesOK' /\ CountOK' /\ GaugeOK' /\ OthersStay(l)
       /\ held'[l]["share"] = o /\ \A t \in Slots \ {"share"} : held'[l][t] = held[l][t]
       /\ held' \in [Leases -> [Slots -> SomeObject]] /\ count' \in [Objects -> Nat]
  BY <1>1, <1>11, ObjectFound, Zenon
<1>13. held'[l]["user"] = held[l]["user"] /\ held'[l]["cidr"] = b
  BY <1>12, Zenon DEF Slots
<1>14. RefsOK'
  <2>1. leasePc'[l] \in CidrSteps /\ leasePc'[l] \in ShareSteps /\ leasePc'[l] \notin {"none", "find_user", "count_user"}
    BY <1>5 DEF CidrSteps, CountSteps, ShareSteps
  <2>2. held'[l]["cidr"] # NoObject /\ held'[l]["share"] # NoObject
    BY <1>3, <1>4, <1>12, <1>13, Zenon
  <2> QED
    BY <1>1, <1>12, <2>1, <2>2, RefsStay, Zenon
<1>15. SharesOK'
  <2>1. \A m \in Leases : /\ held'[m]["cidr"] = held[m]["cidr"]
                          /\ m # l => held'[m]["share"] = held[m]["share"] /\ leasePc'[m] = leasePc[m]
    BY <1>5, <1>12, <1>13, Zenon DEF OthersStay
  <2>2. \A m \in Leases : m # l /\ held'[m]["share"] = o => held'[m]["cidr"] = b
    BY <1>7, <1>8, <2>1, Zenon
  <2>3. \A k, m \in Leases : held'[k]["share"] # NoObject /\ held'[k]["share"] = held'[m]["share"]
                             => held'[k]["cidr"] = held'[m]["cidr"]
    <3>1. \A k, m \in Leases : held[k]["share"] # NoObject /\ held[k]["share"] = held[m]["share"]
                               => held[k]["cidr"] = held[m]["cidr"]
      BY <1>1, Zenon DEF SharesOK
    <3>2. held'[l]["share"] = o /\ held'[l]["cidr"] = b
      BY <1>12, <1>13, Zenon
    <3> QED
      BY <2>1, <2>2, <3>1, <3>2
  <2>4. ASSUME NEW c \in Objects, shareAt'[c] # NoObject
        PROVE  \E m \in Leases : held'[m]["cidr"] = c /\ held'[m]["share"] = shareAt'[c] /\ leasePc'[m] \in WatchSteps
    <3>1. CASE c = b
      <4>1. shareAt'[c] = o
        BY <1>1, <1>2, <3>1, Zenon DEF RegistryOK
      <4>2. leasePc'[l] \in WatchSteps
        BY <1>5, Zenon DEF WatchSteps, ShareSteps
      <4> QED
        BY <1>12, <1>13, <3>1, <4>1, <4>2, Zenon
    <3>2. CASE c # b
      <4>1. shareAt'[c] = shareAt[c]
        BY <1>1, <1>2, <3>2, Zenon DEF RegistryOK
      <4>2. PICK m \in Leases : held[m]["cidr"] = c /\ held[m]["share"] = shareAt[c] /\ leasePc[m] \in WatchSteps
        BY <1>1, <2>4, <4>1, Zenon DEF SharesOK
      <4>3. m # l
        BY <3>2, <4>2, Zenon
      <4> QED
        BY <2>1, <4>1, <4>2, <4>3, Zenon
    <3> QED
      BY <3>1, <3>2, Zenon
  <2> QED
    BY <2>3, <2>4, Zenon DEF SharesOK
<1>16. RootsOK'
  BY <1>1, <1>2, <1>12, <1>13, Zenon DEF RootsOK, OthersStay
<1>17. RegistryOK'
  BY <1>1, <1>2, <1>3, <1>4, <1>5, <1>12, Zenon DEF RegistryOK, SomeObject
<1> QED
  BY <1>12, <1>14, <1>15, <1>16, <1>17, Zenon DEF RegistryInv

(* maybe_cleanup forgets objects, never one a lease still has to find.     *)
LEMMA StepCleanup ==
  ASSUME RegistryInv, StartCleanup \/ CleanupUsers \/ CleanupCidrs
  PROVE  RegistryInv'
<1>1. RegistryOK /\ RefsOK /\ RolesOK /\ CountOK /\ GaugeOK /\ SharesOK /\ RootsOK
  BY DEF RegistryInv
<1>2. /\ UNCHANGED <<explicit, limited, policies, count, gauge, leasePc, held>>
      /\ userAt' \in {userAt, NoObject} /\ cidrAt' \in {cidrAt, NoObject}
  BY Zenon DEF StartCleanup, CleanupUsers, CleanupCidrs
<1>3. \A s \in Slots : CountsStay(s)
  BY <1>2, Zenon DEF CountsStay, OnSlot, OnIt
<1>4. \A s \in Slots : Objs(s)' \subseteq Objs(s)
  BY <1>2, Zenon DEF Objs, Root
<1>5. RolesOK' /\ CountOK' /\ GaugeOK'
  BY <1>1, <1>2, <1>3, <1>4, NothingCounted, Zenon
<1>6. RefsOK'
  BY <1>1, <1>2, Zenon DEF RefsOK
<1>7. shareAt' \in [Objects -> SomeObject] /\ \A b \in Objects : shareAt'[b] \in {shareAt[b], NoObject}
  <2>1. CASE StartCleanup \/ CleanupUsers
    BY <1>1, <2>1, Zenon DEF StartCleanup, CleanupUsers, RegistryOK
  <2>2. CASE CleanupCidrs
    <3>1. CASE cidrAt # NoObject
      <4> DEFINE x == IF shareAt[cidrAt] # NoObject /\ count[shareAt[cidrAt]] > 0 THEN shareAt[cidrAt] ELSE NoObject
      <4>1. shareAt' = [shareAt EXCEPT ![cidrAt] = x] /\ x \in {shareAt[cidrAt], NoObject}
        BY <2>2, <3>1, Zenon DEF CleanupCidrs
      <4> HIDE DEF x
      <4> QED
        BY <1>1, <4>1, Zenon DEF RegistryOK, SomeObject
    <3>2. CASE cidrAt = NoObject
      BY <1>1, <2>2, <3>2, Zenon DEF CleanupCidrs, RegistryOK
    <3> QED
      BY <3>1, <3>2, Zenon
  <2> QED
    BY <2>1, <2>2
<1>8. SharesOK'
  BY <1>1, <1>2, <1>7, Zenon DEF SharesOK
<1>9. /\ cleaner' \in [step : {"idle", "users", "cidrs"}, limited : BOOLEAN]
      /\ policies = 0 => (cleaner'.step = "users" => cleaner'.limited)
  <2>1. CASE StartCleanup
    BY <1>1, <2>1 DEF StartCleanup, RegistryOK, RootsOK
  <2>2. CASE CleanupUsers
    BY <1>1, <2>2, Zenon DEF CleanupUsers, RegistryOK
  <2>3. CASE CleanupCidrs
    BY <2>3 DEF CleanupCidrs
  <2> QED
    BY <2>1, <2>2, <2>3
<1>10. policies = 0 => userAt' = userAt
  BY <1>1, Zenon DEF StartCleanup, CleanupUsers, CleanupCidrs, RootsOK, KeepUser
<1>11. explicit => cidrAt' = cidrAt
  BY <1>1, Zenon DEF StartCleanup, CleanupUsers, CleanupCidrs, KeepCidr
<1>12. RootsOK'
  BY <1>1, <1>2, <1>9, <1>10, <1>11, Zenon DEF RootsOK
<1>13. RegistryOK'
  BY <1>1, <1>2, <1>7, <1>9, Zenon DEF RegistryOK, SomeObject
<1> QED
  BY <1>5, <1>6, <1>8, <1>12, <1>13, Zenon DEF RegistryInv

LEMMA StepApplyPolicy ==
  ASSUME RegistryInv, ApplyPolicy
  PROVE  RegistryInv'
<1>1. /\ UNCHANGED <<explicit, userAt, cidrAt, shareAt, count, gauge, leasePc, held, cleaner>>
      /\ policies' \in Nat \ {0} /\ limited' \in BOOLEAN
  BY DEF ApplyPolicy, RegistryInv, RegistryOK
<1>2. RegistryOK' /\ RefsOK' /\ SharesOK' /\ RootsOK'
  BY <1>1 DEF RegistryInv, RegistryOK, RefsOK, SharesOK, RootsOK
<1>3. \A s \in Slots : CountsStay(s) /\ Objs(s)' \subseteq Objs(s)
  BY <1>1, Zenon DEF CountsStay, Objs, Root, OnIt, OnSlot
<1>4. RolesOK' /\ CountOK' /\ GaugeOK'
  BY <1>1, <1>3, NothingCounted, Zenon DEF RegistryInv
<1> QED
  BY <1>2, <1>4, Zenon DEF RegistryInv

LEMMA RegistryStutters ==
  ASSUME RegistryInv, UNCHANGED registryVars
  PROVE  RegistryInv'
<1>1. RegistryOK' /\ RefsOK' /\ SharesOK' /\ RootsOK'
  BY DEF registryVars, RegistryInv, RegistryOK, RefsOK, SharesOK, RootsOK
<1>2. \A s \in Slots : CountsStay(s) /\ Objs(s)' \subseteq Objs(s)
  BY Zenon DEF registryVars, CountsStay, Objs, Root, OnIt, OnSlot
<1>3. RolesOK' /\ CountOK' /\ GaugeOK'
  BY <1>2, NothingCounted DEF RegistryInv, registryVars
<1> QED
  BY <1>1, <1>3, Zenon DEF RegistryInv

LEMMA RegistryStarts == RegistryInit => RegistryInv
<1> SUFFICES ASSUME RegistryInit PROVE RegistryInv
  BY Zenon
<1>1. /\ \A l \in Leases : leasePc[l] = "none" /\ \A s \in Slots : held[l][s] = NoObject
      /\ userAt = NoObject /\ cidrAt = NoObject /\ \A b \in Objects : shareAt[b] = NoObject
      /\ \A s \in {"user", "cidr"} : gauge[s] = 0
  BY Zenon DEF RegistryInit
<1>2. RegistryOK
  BY Zenon DEF RegistryInit, RegistryOK, SomeObject, LeaseSteps
<1>3. \A s \in Slots : Objs(s) = {} /\ OnSlot(s) = {}
  BY <1>1 DEF Objs, Root, OnSlot
<1>4. RolesOK /\ CountOK
  BY <1>3, Zenon DEF RolesOK, CountOK
<1>5. GaugeOK
  BY <1>1, <1>3, FS_EmptySet, Zenon DEF GaugeOK, Slots
<1>6. RefsOK
  BY <1>1, Zenon DEF RefsOK, CidrSteps, CountSteps, ShareSteps, Slots
<1>7. SharesOK /\ RootsOK
  BY <1>1 DEF SharesOK, RootsOK, Slots, RegistryInit
<1> QED
  BY <1>2, <1>4, <1>5, <1>6, <1>7, Zenon DEF RegistryInv

LEMMA RegistryKeeps == RegistryInv /\ [RegistryNext]_registryVars => RegistryInv'
<1> SUFFICES ASSUME RegistryInv, [RegistryNext]_registryVars PROVE RegistryInv'
  OBVIOUS
<1>1. ASSUME NEW l \in Leases, Acquire(l) PROVE RegistryInv'
  BY <1>1, StepLoadPolicy, StepFindUser, StepCounts, StepFindCidr, StepFindShare, Zenon DEF Acquire
<1>2. ASSUME NEW l \in Leases, Drop(l) PROVE RegistryInv'
  <2>1. CASE DropUser(l)
    BY <2>1, StepUncounts, StepPlain, Zenon
  <2>2. CASE TestShare(l)
    BY <2>2, StepPlain, StepBusyShare, Zenon
  <2> QED
    BY <1>2, <2>1, <2>2, StepUncounts, StepRemoveShare, StepDropCidr, Zenon DEF Drop
<1>3. CASE StartCleanup \/ CleanupUsers \/ CleanupCidrs
  BY <1>3, StepCleanup, Zenon
<1>4. CASE ApplyPolicy
  BY <1>4, StepApplyPolicy
<1>5. CASE UNCHANGED registryVars
  BY <1>5, RegistryStutters, Zenon
<1> QED
  BY <1>1, <1>2, <1>3, <1>4, <1>5, Zenon DEF RegistryNext

(* What the registry promises, from the invariant.                         *)
LEMMA RegistryCounts == RegistryInv => CountsExact
<1> SUFFICES ASSUME RegistryInv PROVE CountsExact
  OBVIOUS
<1>1. RegistryOK /\ RefsOK /\ RolesOK /\ CountOK /\ GaugeOK /\ SharesOK /\ RootsOK
  BY Zenon DEF RegistryInv
<1>2. ASSUME NEW l \in Leases
      PROVE  Counted(l) = {s \in Slots : leasePc[l] \in CountSteps(s) /\ held[l][s] # NoObject}
  <2>1. leasePc[l] \in LeaseSteps
    BY <1>1, Zenon DEF RegistryOK
  <2>2. /\ held[l]["cidr"] # NoObject <=> leasePc[l] \in CidrSteps
        /\ held[l]["share"] # NoObject <=> leasePc[l] \in ShareSteps
    BY <1>1 DEF RefsOK
  <2>3. CASE leasePc[l] \in {"none", "find_user", "count_user"}
    BY <2>2, <2>3, Zenon DEF Counted, Slots, CountSteps, CidrSteps, ShareSteps
  <2>4. CASE leasePc[l] \in {"find_cidr", "count_cidr"}
    BY <2>2, <2>4, Zenon DEF Counted, Slots, CountSteps, CidrSteps, ShareSteps
  <2>5. CASE leasePc[l] \in {"find_share", "count_share"}
    BY <2>2, <2>5, Zenon DEF Counted, Slots, CountSteps, CidrSteps, ShareSteps
  <2>6. CASE leasePc[l] \in {"leased", "drop_share"}
    BY <2>2, <2>6, Zenon DEF Counted, Slots, CountSteps, CidrSteps, ShareSteps
  <2>7. CASE leasePc[l] \in {"test_share", "remove_share", "drop_cidr"}
    BY <2>2, <2>7, Zenon DEF Counted, Slots, CountSteps, CidrSteps, ShareSteps
  <2> QED
    BY <2>1, <2>3, <2>4, <2>5, <2>6, <2>7, Zenon DEF LeaseSteps
<1>3. ASSUME NEW o \in InUse PROVE count[o] = Cardinality(CountsOn(o))
  <2>1. PICK s \in Slots : o \in Objs(s)
    BY <1>1, InUseRoles DEF Slots
  <2>2. \A t \in Slots \ {s} : o \notin Objs(t)
    BY <1>1, <2>1, Zenon DEF RolesOK
  <2>3. o # NoObject
    BY <2>1, Zenon DEF Objs
  <2>4. CountsOn(o) = OnIt(s, o)
    <3>1. ASSUME NEW l \in Leases PROVE (\E t \in Counted(l) : held[l][t] = o)
                                        <=> (leasePc[l] \in CountSteps(s) /\ held[l][s] = o)
      <4>1. \A t \in Slots : held[l][t] = o => t = s
        BY <2>2, <2>3 DEF Objs
      <4> QED
        BY <1>2, <2>3, <4>1, Zenon
    <3> QED
      BY <3>1, Zenon DEF CountsOn, OnIt
  <2> QED
    BY <1>1, <2>1, <2>4, Zenon DEF CountOK
<1>4. ASSUME NEW s \in {"user", "cidr"} PROVE gauge[s] = Cardinality({l \in Leases : s \in Counted(l)})
  <2>1. {l \in Leases : s \in Counted(l)} = OnSlot(s)
    BY <1>2, Zenon DEF OnSlot, Slots
  <2> QED
    BY <1>1, <2>1, Zenon DEF GaugeOK
<1>5. BucketsShared
  BY <1>1, Zenon DEF RootsOK, BucketsShared, Shared
<1>6. NoShareLeftBehind
  <2> SUFFICES ASSUME \A l \in Leases : leasePc[l] = "none", cidrAt # NoObject, shareAt[cidrAt] # NoObject PROVE FALSE
    BY DEF NoShareLeftBehind
  <2>1. cidrAt \in Objects
    BY <1>1, Zenon DEF RegistryOK, SomeObject
  <2>2. PICK l \in Leases : leasePc[l] \in WatchSteps
    BY <1>1, <2>1 DEF SharesOK
  <2> QED
    BY <2>2, Zenon DEF WatchSteps, ShareSteps
<1> QED
  BY <1>3, <1>4, <1>5, <1>6, Zenon DEF CountsExact, EveryLeaseCounted

(* For any number of sessions, and however acquire_lease, Drop of a lease, *)
(* apply_policy and maybe_cleanup interleave: every bucket, share and gauge *)
(* counts exactly the leases that hold it, leases of one policy share their *)
(* buckets, and the last lease to go leaves no share behind.               *)
THEOREM LeasesStayCounted == RegistrySpec => []CountsExact
  BY RegistryStarts, RegistryKeeps, RegistryCounts, PTL DEF RegistrySpec
=============================================================================
