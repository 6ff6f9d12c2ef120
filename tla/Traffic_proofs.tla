--------------------------- MODULE Traffic_proofs ---------------------------
(***************************************************************************)
(* Proofs about what a user's traffic is held to, for any number of users, *)
(* sessions and relays and any caps: the rate of one bucket, atomic by     *)
(* atomic, the rate of a subnet through the leases of its users, and the   *)
(* data quota of a user, whose counter is exact and whose file is whole.   *)
(***************************************************************************)
EXTENDS TrafficLimiter, QuotaRelay

-----------------------------------------------------------------------------
(***************************************************************************)
(* The amortized rate of a DirectionBucket, for any number of tasks, any   *)
(* budgets and any length of run, from BucketInv.                          *)
(***************************************************************************)
\* A task that wins an epoch joins the tasks that are about to clear the
\* budget; every other task stays where it was.
LEMMA ClearingGrows ==
  ASSUME BucketAssumption, NEW t \in Tasks, pc \in [Tasks -> Steps],
         pc[t] # "clear", Goto(t, "clear")
  PROVE  Cardinality(Clearing') = Cardinality(Clearing) + 1
<1>1. Clearing' = Clearing \cup {t} /\ t \notin Clearing
  BY DEF Clearing, Goto, Steps
<1>2. IsFiniteSet(Clearing)
  BY FS_Subset DEF Clearing, BucketAssumption
<1> QED BY <1>1, <1>2, FS_AddElement, Zenon

\* A task that has cleared the budget leaves them.
LEMMA ClearingShrinks ==
  ASSUME BucketAssumption, NEW t \in Tasks, pc \in [Tasks -> Steps],
         pc[t] = "clear", Goto(t, "load")
  PROVE  Cardinality(Clearing') = Cardinality(Clearing) - 1
<1>1. Clearing' = Clearing \ {t} /\ t \in Clearing
  BY DEF Clearing, Goto, Steps
<1>2. IsFiniteSet(Clearing)
  BY FS_Subset DEF Clearing, BucketAssumption
<1> QED BY <1>1, <1>2, FS_RemoveElement, Zenon

\* Every other step leaves them alone.
LEMMA ClearingStays ==
  ASSUME NEW t \in Tasks, NEW step, pc \in [Tasks -> Steps],
         pc[t] # "clear", step # "clear", Goto(t, step)
  PROVE  Clearing' = Clearing
BY DEF Clearing, Goto, Steps

LEMMA ClearingNat ==
  ASSUME BucketAssumption
  PROVE  Cardinality(Clearing) \in Nat
BY FS_Subset, FS_CardinalityType DEF Clearing, BucketAssumption

\* One more reset makes room for one more budget.
LEMMA CapTimes ==
  ASSUME BucketAssumption, NEW n \in Nat
  PROVE  MaxCap * n \in Nat /\ MaxCap * (n + 1) = MaxCap * n + MaxCap
BY DEF BucketAssumption

\* More resets never leave less room.
LEMMA CapMonotone ==
  ASSUME BucketAssumption, NEW m \in Nat, NEW n \in Nat, m <= n
  PROVE  MaxCap * m <= MaxCap * n
<1>1. PICK d \in Nat : n = m + d
  BY n - m \in Nat, n = m + (n - m)
<1>2. MaxCap * n = MaxCap * m + MaxCap * d /\ MaxCap * m \in Nat /\ MaxCap * d \in Nat
  BY <1>1 DEF BucketAssumption
<1> QED BY <1>2

LEMMA InitInv == ASSUME BucketAssumption, BucketInit PROVE BucketInv
<1>1. Clearing = {}
  BY DEF Clearing, BucketInit
<1>2. Cardinality(Clearing) = 0
  BY <1>1, FS_EmptySet
<1>3. MaxCap * 0 = 0
  BY DEF BucketAssumption
<1> QED BY <1>2, <1>3 DEF BucketInit, BucketInv, TypeOK, Steps, BucketAssumption

\* The inductive step, one action at a time.
LEMMA NextInv ==
  ASSUME BucketAssumption, BucketInv, [BucketNext]_bucketVars
  PROVE  BucketInv'
<1> USE DEF BucketAssumption
<1>0. TypeOK /\ Cardinality(Clearing) \in Nat /\ MaxCap * resets \in Nat
  BY ClearingNat, CapTimes DEF BucketInv, TypeOK
<1>1. CASE Tick
  <2>1. Clearing' = Clearing
    BY <1>1 DEF Tick, Clearing
  <2> QED BY <1>0, <1>1, <2>1 DEF Tick, locals, ghosts, BucketInv, TypeOK
<1>10. ASSUME NEW c \in Caps, SetRates(c) PROVE BucketInv'
  <2>1. Clearing' = Clearing
    BY <1>10 DEF SetRates, locals, Clearing
  <2> QED BY <1>0, <1>10, <2>1
       DEF SetRates, locals, ghosts, BucketInv, TypeOK
<1>2. ASSUME NEW t \in Tasks, NEW n \in Requests, Begin(t, n)
      PROVE  BucketInv'
  <2>1. Clearing' = Clearing
    BY <1>0, <1>2, ClearingStays DEF Begin, TypeOK
  <2> QED BY <1>0, <1>2, <2>1 DEF Begin, Goto, ghosts, BucketInv, TypeOK, Steps
<1>3. ASSUME NEW t \in Tasks, Sync(t) PROVE BucketInv'
  <2>1. Clearing' = Clearing
    BY <1>0, <1>3, ClearingStays, Zenon DEF Sync, TypeOK
  <2> QED BY <1>0, <1>3, <2>1
       DEF Sync, Goto, locals, ghosts, BucketInv, TypeOK, Steps
<1>4. ASSUME NEW t \in Tasks, Swap(t) PROVE BucketInv'
  <2> USE DEF Swap, locals, ghosts
  <2>1. CASE SwapWins(t) /\ epoch' = mine[t] /\ Goto(t, "clear")
    <3>1. Cardinality(Clearing') = Cardinality(Clearing) + 1
      BY <1>0, <1>4, <2>1, ClearingGrows, Zenon DEF TypeOK
    <3>2. epoch < mine[t] /\ mine[t] <= now
      BY <1>0, <1>4, <2>1, Zenon DEF SwapWins, BucketInv
    <3>3. resets' + Cardinality(Clearing') <= epoch' /\ epoch' <= now'
      BY <1>0, <1>4, <2>1, <3>1, <3>2 DEF BucketInv, TypeOK
    <3> QED BY <1>0, <1>4, <2>1, <3>3, Zenon DEF Goto, BucketInv, TypeOK, Steps
  <2>2. CASE ~SwapWins(t) /\ epoch' = epoch /\ Goto(t, "load")
    <3>1. Clearing' = Clearing
      BY <1>0, <1>4, <2>2, ClearingStays, Zenon DEF TypeOK
    <3> QED BY <1>0, <1>4, <2>2, <3>1, Zenon DEF Goto, BucketInv, TypeOK, Steps
  <2> QED BY <1>4, <2>1, <2>2, Zenon
<1>5. ASSUME NEW t \in Tasks, Clear(t) PROVE BucketInv'
  <2> USE DEF Clear, locals
  <2>1. Cardinality(Clearing') = Cardinality(Clearing) - 1
    BY <1>0, <1>5, ClearingShrinks, Zenon DEF TypeOK
  <2>2. MaxCap * resets' = MaxCap * resets + MaxCap
    BY <1>0, <1>5, CapTimes, Zenon DEF TypeOK
  <2>3. net' <= used' + MaxCap * resets' + free'
    BY <1>0, <1>5, <2>2 DEF BucketInv, TypeOK
  <2>4. resets' + Cardinality(Clearing') <= epoch'
    BY <1>0, <1>5, <2>1 DEF BucketInv, TypeOK
  <2> QED BY <1>0, <1>5, <2>3, <2>4 DEF Goto, BucketInv, TypeOK, Steps
<1>6. ASSUME NEW t \in Tasks, Load(t) PROVE BucketInv'
  <2>1. Clearing' = Clearing
    BY <1>0, <1>6, ClearingStays, Zenon DEF Load, TypeOK
  <2> QED BY <1>0, <1>6, <2>1, Zenon
       DEF Load, Goto, locals, ghosts, BucketInv, TypeOK, Steps
<1>7. ASSUME NEW t \in Tasks, Add(t) PROVE BucketInv'
  <2>1. Clearing' = Clearing
    BY <1>0, <1>7, ClearingStays, Zenon DEF Add, TypeOK
  <2>2. Grant(t) \in Nat /\ (used = seen[t] => used + Grant(t) <= MaxCap)
    BY <1>0, <1>7 DEF Add, Grant, Least, BucketInv, TypeOK
  <2>3. net' <= used' + MaxCap * resets' + free' /\ used' <= MaxCap
    BY <1>0, <1>7, <2>2 DEF Add, BucketInv, TypeOK
  <2> QED BY <1>0, <1>7, <2>1, <2>2, <2>3
       DEF Add, Goto, BucketInv, TypeOK, Steps
<1>8. ASSUME NEW t \in Tasks, NEW n \in 0..want[t], Refund(t, n)
      PROVE  BucketInv'
  <2>1. Clearing' = Clearing
    BY <1>0, <1>8, ClearingStays, Zenon DEF Refund, TypeOK
  <2> QED BY <1>0, <1>8, <2>1
       DEF Refund, SaturatingSub, Goto, BucketInv, TypeOK, Steps
<1>9. CASE UNCHANGED bucketVars
  <2>1. Clearing' = Clearing
    BY <1>9 DEF bucketVars, Clearing
  <2> QED BY <1>0, <1>9, <2>1 DEF bucketVars, BucketInv, TypeOK
<1> QED BY <1>1, <1>2, <1>3, <1>4, <1>5, <1>6, <1>7, <1>8, <1>9, <1>10, Zenon
     DEF BucketNext, Step

\* BucketInv holds of every reachable state of the bucket, however the loads,
\* stores and swaps of sync_epoch, try_consume and refund interleave.
THEOREM BucketInvariant == BucketSpec => []BucketInv
<1>1. BucketInit => BucketInv
  BY BucketAssumption, InitInv
<1>2. BucketInv /\ [BucketNext]_bucketVars => BucketInv'
  BY BucketAssumption, NextInv, Zenon
<1> QED BY <1>1, <1>2, PTL DEF BucketSpec

LEMMA InvImpliesRate == ASSUME BucketAssumption, BucketInv PROVE AmortizedRate
<1>1. Cardinality(Clearing) \in Nat /\ resets \in Nat /\ now \in Nat
  BY ClearingNat DEF BucketInv, TypeOK
<1>2. resets <= now
  BY <1>1 DEF BucketInv, TypeOK
<1>3. MaxCap * resets <= MaxCap * now
  BY <1>1, <1>2, CapMonotone
<1>4. MaxCap * (now + 1) = MaxCap * now + MaxCap /\ MaxCap * now \in Nat
  BY <1>1, CapTimes
<1>5. MaxCap * resets \in Nat
  BY <1>1, CapTimes
<1> QED BY <1>3, <1>4, <1>5 DEF BucketInv, TypeOK, AmortizedRate, BucketAssumption

\* Whatever the traffic, what is charged to a bucket (try_consume, refund) stays
\* within one largest budget per epoch begun and the bytes that were refunded
\* to it but granted without a limit.
THEOREM RateIsAmortized == BucketSpec => []AmortizedRate
<1>1. BucketInv => AmortizedRate
  BY BucketAssumption, InvImpliesRate, Zenon
<1> QED BY <1>1, BucketInvariant, PTL

-----------------------------------------------------------------------------
(***************************************************************************)
(* SubnetRate for any number of users and relays and any caps.  What makes *)
(* it inductive: the bytes passed are at most a cap for every epoch before *)
(* the bucket's own and what the bucket counts in its epoch; and a relay   *)
(* holds of the subnet what it holds of the user once it has settled.      *)
(***************************************************************************)
Bucket == [epoch : Nat, used : Nat]
Relay == [step : {"idle", "cidr", "settle", "write"}, user : Nat, cidr : Nat]

LeaseTypes ==
  /\ leaseNow \in Nat /\ user \in [Users -> Bucket] /\ share \in [Users -> Bucket]
  /\ cidr \in [epoch : Nat, used : Nat, active : Nat]
  /\ task \in [RelayTasks -> Relay] /\ sent \in [Users -> Nat] /\ passed \in Int

RateInv ==
  /\ cidr.epoch <= leaseNow /\ cidr.used <= CidrCap
  /\ passed <= CidrCap * cidr.epoch + cidr.used

GrantOK(r) ==
  /\ r.step = "idle" => r.user = 0
  /\ r.step = "settle" => r.cidr <= r.user
  /\ r.step = "write" => r.user = r.cidr

GrantInv == \A t \in RelayTasks : GrantOK(task[t])

LeaseInv == LeaseTypes /\ RateInv /\ GrantInv /\ ThrottledBytesReturned

(* What the relays hold when one of them changes what it holds.            *)
LEMMA HoldingMoves ==
  ASSUME NEW a \in [RelayTasks -> Relay], NEW b \in [RelayTasks -> Relay],
         NEW t \in RelayTasks, \A y \in RelayTasks \ {t} : b[y] = a[y]
  PROVE  /\ \A u \in Users : Holding(a, u) \in Nat /\ Holding(b, u) \in Nat
         /\ \A u \in Users \ {Owner[t]} : Holding(b, u) = Holding(a, u)
         /\ Holding(b, Owner[t]) = Holding(a, Owner[t]) - a[t].user + b[t].user
<1>1. \A u \in Users : /\ IsFiniteSet(Relays(u)) /\ Relays(u) \subseteq RelayTasks
                       /\ [y \in Relays(u) |-> a[y].user] \in [Relays(u) -> Nat]
                       /\ [y \in Relays(u) |-> b[y].user] \in [Relays(u) -> Nat]
  <2> TAKE u \in Users
  <2>1. Relays(u) \subseteq RelayTasks
    BY DEF Relays
  <2>2. IsFiniteSet(Relays(u))
    BY <2>1, FS_Subset, LeaseAssumption
  <2>3. \A y \in RelayTasks : a[y].user \in Nat /\ b[y].user \in Nat
    BY DEF Relay
  <2> QED
    BY <2>1, <2>2, <2>3, Zenon
<1>2. \A u \in Users : Holding(a, u) \in Nat /\ Holding(b, u) \in Nat
  BY <1>1, UnitsFinite, Zenon DEF Holding
<1>3. ASSUME NEW u \in Users, u # Owner[t] PROVE Holding(b, u) = Holding(a, u)
  <2>1. t \notin Relays(u)
    BY <1>3 DEF Relays
  <2>2. [y \in Relays(u) |-> b[y].user] = [y \in Relays(u) |-> a[y].user]
    BY <1>1, <2>1, Zenon
  <2> QED
    BY <2>2 DEF Holding
<1>4. Holding(b, Owner[t]) = Holding(a, Owner[t]) - a[t].user + b[t].user
  <2> DEFINE S == Relays(Owner[t])
             h == [y \in S |-> a[y].user]
             k == [y \in S |-> b[y].user]
  <2>1. Owner[t] \in Users
    BY LeaseAssumption, Zenon
  <2>2. t \in S /\ IsFiniteSet(S) /\ h \in [S -> Nat] /\ k \in [S -> Nat]
    BY <1>1, <2>1, Zenon DEF Relays
  <2>3. \A y \in S \ {t} : k[y] = h[y]
    BY <1>1, <2>1, Zenon
  <2>4. h[t] = a[t].user /\ k[t] = b[t].user
    BY <2>2
  <2> HIDE DEF S, h, k
  <2>5. SumOver(S, k) = SumOver(S, h) - h[t] + k[t]
    BY <2>2, <2>3, SumUpdate
  <2> QED
    BY <2>4, <2>5 DEF Holding, S, h, k
<1> QED
  BY <1>2, <1>3, <1>4, Zenon

(* One cap per epoch covers the epochs between two readings of the clock.  *)
LEMMA CapGrows ==
  ASSUME NEW c \in Nat, NEW e \in Nat, NEW n \in Nat, e < n
  PROVE  c * e + c <= c * n
<1>1. PICK d \in Nat : n = e + 1 + d
  <2>1. n - e - 1 \in Nat /\ n = e + 1 + (n - e - 1)
    OBVIOUS
  <2> QED
    BY <2>1
<1>2. c * n = c * e + c + c * d
  BY <1>1
<1>3. c * d \in Nat /\ c * e \in Nat
  OBVIOUS
<1> QED
  BY <1>2, <1>3

(* A grant of the subnet's bucket fits under its cap and under the request.*)
LEMMA GrantFits ==
  ASSUME NEW asked \in Nat, NEW fair \in Nat, NEW own \in Nat, NEW total \in Nat,
         total <= CidrCap
  PROVE  /\ CidrGrant(asked, fair, own, total) \in Nat
         /\ CidrGrant(asked, fair, own, total) <= asked
         /\ total + CidrGrant(asked, fair, own, total) <= CidrCap
  BY LeaseAssumption DEF CidrGrant, Least, SaturatingSub

(* The start: nothing was asked for.                                       *)
LEMMA LeaseStart == LeaseInit => LeaseInv
<1> SUFFICES ASSUME LeaseInit PROVE LeaseInv
  OBVIOUS
<1>1. Idle \in Relay /\ GrantOK(Idle) /\ Idle.user = 0
  BY DEF Idle, Relay, GrantOK
<1>2. LeaseTypes
  BY <1>1 DEF LeaseInit, LeaseTypes, Bucket
<1>3. RateInv
  <2>1. cidr.epoch = 0 /\ cidr.used = 0 /\ passed = 0 /\ leaseNow = 0
    BY DEF LeaseInit
  <2>2. CidrCap * 0 = 0
    BY LeaseAssumption
  <2> QED
    BY <2>1, <2>2, LeaseAssumption DEF RateInv
<1>4. GrantInv
  BY <1>1 DEF LeaseInit, GrantInv
<1>5. ASSUME NEW u \in Users PROVE user[u].used <= sent[u] + Holding(task, u)
  <2>1. user[u].used = 0 /\ sent[u] = 0
    BY DEF LeaseInit
  <2>2. \A y \in Relays(u) : [t \in Relays(u) |-> task[t].user][y] = 0
    BY <1>1, Zenon DEF LeaseInit, Relays
  <2>3. Holding(task, u) = 0
    BY <2>2, SumZero DEF Holding
  <2> QED
    BY <2>1, <2>3
<1> QED
  BY <1>2, <1>3, <1>4, <1>5, Zenon DEF LeaseInv, ThrottledBytesReturned

(* The clock.                                                              *)
LEMMA TickStep == ASSUME LeaseInv, LeaseTick PROVE LeaseInv'
<1>1. LeaseTypes' /\ RateInv'
  BY DEF LeaseInv, LeaseTick, LeaseTypes, RateInv
<1>2. GrantInv' /\ ThrottledBytesReturned'
  BY Zenon DEF LeaseInv, LeaseTick, GrantInv, ThrottledBytesReturned
<1> QED
  BY <1>1, <1>2, Zenon DEF LeaseInv

(* A step of relay t that changes nothing but the relay, its user's bucket *)
(* and what the user sent keeps the invariant if the user's balance does.  *)
LEMMA UserSide ==
  ASSUME LeaseInv, NEW t \in RelayTasks, NEW r \in Relay, GrantOK(r),
         NEW b \in Bucket, NEW s \in Nat,
         task' = [task EXCEPT ![t] = r],
         user' = [user EXCEPT ![Owner[t]] = b],
         sent' = [sent EXCEPT ![Owner[t]] = s],
         b.used = 0 \/ b.used <= user[Owner[t]].used - sent[Owner[t]] - task[t].user + s + r.user
                    \/ b.used <= s + r.user
  PROVE  /\ task' \in [RelayTasks -> Relay] /\ user' \in [Users -> Bucket] /\ sent' \in [Users -> Nat]
         /\ GrantInv' /\ ThrottledBytesReturned'
<1>1. task' \in [RelayTasks -> Relay] /\ user' \in [Users -> Bucket] /\ sent' \in [Users -> Nat]
  BY Zenon DEF LeaseInv, LeaseTypes
<1>2. task'[t] = r /\ \A y \in RelayTasks \ {t} : task'[y] = task[y]
  BY DEF LeaseInv, LeaseTypes
<1>3. GrantInv'
  BY <1>2 DEF LeaseInv, GrantInv
<1>4. /\ \A u \in Users : Holding(task, u) \in Nat /\ Holding(task', u) \in Nat
      /\ \A u \in Users \ {Owner[t]} : Holding(task', u) = Holding(task, u)
      /\ Holding(task', Owner[t]) = Holding(task, Owner[t]) - task[t].user + r.user
  <2>1. task \in [RelayTasks -> Relay]
    BY DEF LeaseInv, LeaseTypes
  <2> QED
    BY <1>1, <1>2, <2>1, HoldingMoves, Zenon
<1>5. Owner[t] \in Users
  BY LeaseAssumption
<1>6. ASSUME NEW u \in Users, u # Owner[t] PROVE user'[u].used <= sent'[u] + Holding(task', u)
  <2>1. user'[u] = user[u] /\ sent'[u] = sent[u]
    BY <1>6, Zenon DEF LeaseInv, LeaseTypes
  <2> QED
    BY <1>4, <1>6, <2>1, Zenon DEF LeaseInv, ThrottledBytesReturned
<1>7. user'[Owner[t]].used <= sent'[Owner[t]] + Holding(task', Owner[t])
  <2>1. user'[Owner[t]] = b /\ sent'[Owner[t]] = s
    BY <1>5, Zenon DEF LeaseInv, LeaseTypes
  <2>2. user[Owner[t]].used <= sent[Owner[t]] + Holding(task, Owner[t])
    BY <1>5, Zenon DEF LeaseInv, ThrottledBytesReturned
  <2>3. /\ user[Owner[t]].used \in Nat /\ sent[Owner[t]] \in Nat /\ b.used \in Nat
        /\ task[t].user \in Nat /\ r.user \in Nat
    BY <1>5, Zenon DEF LeaseInv, LeaseTypes, Bucket, Relay
  <2>4. /\ Holding(task, Owner[t]) \in Nat /\ Holding(task', Owner[t]) \in Nat
        /\ Holding(task', Owner[t]) = Holding(task, Owner[t]) - task[t].user + r.user
    BY <1>4, <1>5, Zenon
  <2>5. Holding(task, Owner[t]) - task[t].user >= 0
    <3> DEFINE z == [step |-> "idle", user |-> 0, cidr |-> 0]
               c == [task EXCEPT ![t] = z]
    <3>1. z \in Relay /\ z.user = 0
      BY DEF Relay
    <3> HIDE DEF z
    <3>2. /\ task \in [RelayTasks -> Relay] /\ c \in [RelayTasks -> Relay] /\ c[t] = z
          /\ \A y \in RelayTasks \ {t} : c[y] = task[y]
      BY <3>1 DEF LeaseInv, LeaseTypes
    <3> HIDE DEF c
    <3>3. /\ Holding(c, Owner[t]) \in Nat
          /\ Holding(c, Owner[t]) = Holding(task, Owner[t]) - task[t].user + z.user
      BY <1>5, <3>2, HoldingMoves, Zenon
    <3> QED
      BY <2>3, <2>4, <3>1, <3>3
  <2> QED
    BY <2>1, <2>2, <2>3, <2>4, <2>5
<1> QED
  BY <1>1, <1>3, <1>4, <1>6, <1>7, Zenon DEF ThrottledBytesReturned

(* What the relay of task t refers to, typed.                              *)
LEMMA RelayInHand ==
  ASSUME LeaseInv, NEW t \in RelayTasks
  PROVE  /\ Owner[t] \in Users /\ task[t] \in Relay /\ GrantOK(task[t])
         /\ user[Owner[t]] \in Bucket /\ share[Owner[t]] \in Bucket /\ sent[Owner[t]] \in Nat
         /\ user[Owner[t]].used \in Nat /\ user[Owner[t]].epoch \in Nat
         /\ share[Owner[t]].used \in Nat /\ share[Owner[t]].epoch \in Nat
         /\ task[t].user \in Nat /\ task[t].cidr \in Nat
         /\ cidr.used \in Nat /\ cidr.epoch \in Nat /\ cidr.active \in Nat
         /\ leaseNow \in Nat /\ passed \in Int /\ CidrCap \in Nat /\ UserCap \in Nat
<1>1. /\ Owner[t] \in Users /\ task[t] \in Relay /\ user[Owner[t]] \in Bucket
      /\ share[Owner[t]] \in Bucket /\ sent[Owner[t]] \in Nat
      /\ cidr \in [epoch : Nat, used : Nat, active : Nat]
      /\ leaseNow \in Nat /\ passed \in Int /\ CidrCap \in Nat /\ UserCap \in Nat
  BY LeaseAssumption, Zenon DEF LeaseInv, LeaseTypes
<1> QED
  BY <1>1, Zenon DEF LeaseInv, GrantInv, Bucket, Relay

(* The user's bucket grants what fits under its cap.                       *)
LEMMA ConsumeUserStep ==
  ASSUME LeaseInv, NEW t \in RelayTasks, NEW n \in Sends, ConsumeUser(t, n)
  PROVE  LeaseInv'
<1> DEFINE u == Owner[t]
           stale == user[u].epoch < leaseNow
           debit == IF stale THEN 0 ELSE user[u].used
           grant == UserGrant(n, debit)
           b == [epoch |-> leaseNow, used |-> debit + grant]
           r == IF grant = 0 THEN Idle ELSE [step |-> "cidr", user |-> grant, cidr |-> 0]
           s == IF stale THEN 0 ELSE sent[u]
<1>1. /\ task[t].step = "idle" /\ user' = [user EXCEPT ![u] = b]
      /\ sent' = [sent EXCEPT ![u] = s] /\ task' = [task EXCEPT ![t] = r]
      /\ UNCHANGED <<leaseNow, cidr, share, passed>>
  BY DEF ConsumeUser
<1>2. n \in Nat /\ debit \in Nat /\ grant \in Nat
  <2>1. n \in Nat /\ UserCap \in Nat
    BY LeaseAssumption, Zenon
  <2>2. debit \in Nat
    BY RelayInHand, Zenon
  <2> HIDE DEF debit
  <2>3. UserGrant(n, debit) \in Nat
    BY <2>1, <2>2 DEF UserGrant, Least, SaturatingSub
  <2> QED
    BY <2>1, <2>2, <2>3, Zenon
<1>3. b \in Bucket /\ b.used = debit + grant /\ s \in Nat
  BY <1>2, RelayInHand DEF Bucket
<1>4. r \in Relay /\ GrantOK(r) /\ r.user = grant
  BY <1>2, Zenon DEF Relay, GrantOK, Idle
<1>5. task[t].user = 0
  BY <1>1, RelayInHand, Zenon DEF GrantOK
<1>6. b.used <= user[u].used - sent[u] - task[t].user + s + r.user \/ b.used <= s + r.user
  <2>1. user[u].used \in Nat /\ sent[u] \in Nat
    BY RelayInHand, Zenon
  <2>2. (debit = 0 /\ s = 0) \/ (debit = user[u].used /\ s = sent[u])
    BY Zenon
  <2> HIDE DEF b, r, s, debit, grant
  <2> QED
    BY <1>2, <1>3, <1>4, <1>5, <2>1, <2>2
<1> HIDE DEF b, r, s
<1>7. /\ task' \in [RelayTasks -> Relay] /\ user' \in [Users -> Bucket] /\ sent' \in [Users -> Nat]
      /\ GrantInv' /\ ThrottledBytesReturned'
  BY <1>1, <1>3, <1>4, <1>6, UserSide, Zenon
<1> QED
  BY <1>1, <1>7, Zenon DEF LeaseInv, LeaseTypes, RateInv

(* The subnet's bucket grants what fits under its cap in its epoch.        *)
LEMMA ConsumeCidrStep ==
  ASSUME LeaseInv, NEW t \in RelayTasks, ConsumeCidr(t)
  PROVE  LeaseInv'
<1> DEFINE u == Owner[t]
           bucket == ConsumeEpoch
           joins == share[u].epoch < leaseNow
           active == bucket.active + (IF joins THEN 1 ELSE 0)
           own == IF joins THEN 0 ELSE share[u].used
           fair == AtLeastOne(CidrCap \div AtLeastOne(active))
           grant == CidrGrant(task[t].user, fair, own, bucket.used)
           r == [step |-> "settle", user |-> task[t].user, cidr |-> grant]
           sh == [epoch |-> leaseNow, used |-> own + grant]
<1>1. /\ task[t].step = "cidr"
      /\ cidr' = [bucket EXCEPT !.used = @ + grant, !.active = active]
      /\ share' = [share EXCEPT ![u] = sh]
      /\ task' = [task EXCEPT ![t].step = "settle", ![t].cidr = grant]
      /\ passed' = passed + grant /\ UNCHANGED <<leaseNow, user, sent>>
  BY Zenon DEF ConsumeCidr
<1>2. /\ bucket \in [epoch : Nat, used : Nat, active : Nat]
      /\ bucket.epoch \in Nat /\ bucket.used \in Nat /\ bucket.active \in Nat
      /\ bucket.used <= CidrCap /\ bucket.epoch <= leaseNow
      /\ bucket = cidr \/ (bucket.epoch = leaseNow /\ bucket.used = 0 /\ cidr.epoch < leaseNow)
  BY RelayInHand DEF ConsumeEpoch, LeaseInv, LeaseTypes, RateInv
<1> HIDE DEF bucket
<1>3. active \in Nat /\ own \in Nat /\ joins \in BOOLEAN
  <2>1. bucket.active \in Nat /\ share[u].used \in Nat
    BY <1>2, RelayInHand, Zenon
  <2> QED
    BY <2>1
<1> HIDE DEF active, own, joins
<1>4. fair \in Nat
  <2>1. AtLeastOne(active) \in Nat \ {0}
    BY <1>3 DEF AtLeastOne
  <2>2. \A c \in Nat, d \in Nat \ {0} : c \div d \in Nat
    OBVIOUS
  <2> QED
    BY <2>1, <2>2, RelayInHand, Zenon DEF AtLeastOne
<1> HIDE DEF fair
<1>5. grant \in Nat /\ grant <= task[t].user /\ bucket.used + grant <= CidrCap
  BY <1>2, <1>3, <1>4, RelayInHand, GrantFits, Zenon
<1> HIDE DEF grant
<1>6. r \in Relay /\ GrantOK(r) /\ r.user = task[t].user
  BY <1>5, RelayInHand, Zenon DEF Relay, GrantOK
<1>7. task' = [task EXCEPT ![t] = r]
  <2> DEFINE g1 == [task[t] EXCEPT !.step = "settle"]
             g2 == [g1 EXCEPT !.cidr = grant]
  <2>1. task' = [task EXCEPT ![t] = g2]
    BY <1>1, RelayInHand, Zenon DEF LeaseInv, LeaseTypes
  <2>2. g1 = [step |-> "settle", user |-> task[t].user, cidr |-> task[t].cidr]
    BY RelayInHand DEF Relay
  <2> HIDE DEF g1
  <2>3. g2 = [step |-> "settle", user |-> task[t].user, cidr |-> grant]
    BY <2>2
  <2> HIDE DEF g2
  <2> QED
    BY <2>1, <2>3, Zenon
<1>8. user' = [user EXCEPT ![u] = user[u]] /\ sent' = [sent EXCEPT ![u] = sent[u]]
  BY <1>1, Zenon DEF LeaseInv, LeaseTypes
<1>9. sh \in Bucket
  BY <1>3, <1>5, RelayInHand DEF Bucket
<1> HIDE DEF r, sh
<1>10. user[u].used <= user[u].used - sent[u] - task[t].user + sent[u] + r.user
  BY <1>6, RelayInHand
<1>11. /\ task' \in [RelayTasks -> Relay] /\ user' \in [Users -> Bucket] /\ sent' \in [Users -> Nat]
       /\ GrantInv' /\ ThrottledBytesReturned'
  BY <1>6, <1>7, <1>8, <1>10, RelayInHand, UserSide, Zenon
<1>12. /\ cidr' \in [epoch : Nat, used : Nat, active : Nat]
       /\ cidr'.epoch = bucket.epoch /\ cidr'.used = bucket.used + grant
  <2> DEFINE g1 == [bucket EXCEPT !.used = @ + grant]
             g2 == [g1 EXCEPT !.active = active]
  <2>1. cidr' = g2
    BY <1>1
  <2>2. /\ g1 \in [epoch : Nat, used : Nat, active : Nat]
        /\ g1.epoch = bucket.epoch /\ g1.used = bucket.used + grant
    BY <1>2, <1>5
  <2> HIDE DEF g1
  <2>3. /\ g2 \in [epoch : Nat, used : Nat, active : Nat]
        /\ g2.epoch = g1.epoch /\ g2.used = g1.used
    BY <1>3, <2>2
  <2> QED
    BY <2>1, <2>2, <2>3
<1>13. share' \in [Users -> Bucket]
  BY <1>1, <1>9, Zenon DEF LeaseInv, LeaseTypes
<1>14. passed + grant <= CidrCap * bucket.epoch + (bucket.used + grant)
  <2>1. passed <= CidrCap * cidr.epoch + cidr.used /\ cidr.used <= CidrCap
    BY Zenon DEF LeaseInv, RateInv
  <2>2. CidrCap * cidr.epoch \in Nat /\ CidrCap * bucket.epoch \in Nat
    BY <1>2, RelayInHand
  <2>3. CASE bucket = cidr
    BY <1>5, <2>1, <2>2, <2>3, RelayInHand
  <2>4. CASE bucket.epoch = leaseNow /\ bucket.used = 0 /\ cidr.epoch < leaseNow
    <3>1. CidrCap * cidr.epoch + CidrCap <= CidrCap * bucket.epoch
      BY <2>4, RelayInHand, CapGrows, Zenon
    <3> QED
      BY <1>5, <2>1, <2>2, <2>4, <3>1, RelayInHand
  <2> QED
    BY <1>2, <2>3, <2>4
<1>15. RateInv'
  BY <1>1, <1>2, <1>5, <1>12, <1>14, Zenon DEF RateInv
<1> QED
  BY <1>1, <1>5, <1>11, <1>12, <1>13, <1>15, RelayInHand DEF LeaseInv, LeaseTypes

(* What the subnet refused goes back to the user.                          *)
LEMMA SettleStep ==
  ASSUME LeaseInv, NEW t \in RelayTasks, Settle(t)
  PROVE  LeaseInv'
<1> DEFINE u == Owner[t]
           n == task[t].user - task[t].cidr
           b == [user[u] EXCEPT !.used = SaturatingSub(@, n)]
           r == IF task[t].cidr = 0 THEN Idle
                ELSE [step |-> "write", user |-> task[t].cidr, cidr |-> task[t].cidr]
<1>1. /\ task[t].step = "settle" /\ user' = [user EXCEPT ![u].used = SaturatingSub(@, n)]
      /\ task' = [task EXCEPT ![t] = r] /\ UNCHANGED <<leaseNow, cidr, share, sent, passed>>
  BY DEF Settle, RefundRefusal, RefundUser
<1>2. n \in Nat
  BY <1>1, RelayInHand DEF GrantOK
<1>3. user' = [user EXCEPT ![u] = b] /\ sent' = [sent EXCEPT ![u] = sent[u]]
  BY <1>1, Zenon DEF LeaseInv, LeaseTypes
<1>4. b \in Bucket /\ b.used = SaturatingSub(user[u].used, n)
  BY <1>2, RelayInHand DEF Bucket, SaturatingSub
<1>5. r \in Relay /\ GrantOK(r) /\ r.user = task[t].cidr
  BY RelayInHand, Zenon DEF Relay, GrantOK, Idle
<1> HIDE DEF b, r
<1>6. b.used = 0 \/ b.used <= user[u].used - sent[u] - task[t].user + sent[u] + r.user
  BY <1>2, <1>4, <1>5, RelayInHand DEF SaturatingSub
<1>7. /\ task' \in [RelayTasks -> Relay] /\ user' \in [Users -> Bucket] /\ sent' \in [Users -> Nat]
      /\ GrantInv' /\ ThrottledBytesReturned'
  BY <1>1, <1>3, <1>4, <1>5, <1>6, RelayInHand, UserSide, Zenon
<1> QED
  BY <1>1, <1>7 DEF LeaseInv, LeaseTypes, RateInv

(* What the relay did not write goes back to both buckets.                 *)
LEMMA WriteStep ==
  ASSUME LeaseInv, NEW t \in RelayTasks, NEW n \in 0..UserCap, Write(t, n)
  PROVE  LeaseInv'
<1> DEFINE u == Owner[t]
           b == [user[u] EXCEPT !.used = SaturatingSub(@, n)]
           s == sent[u] + task[t].cidr - n
<1>1. /\ task[t].step = "write" /\ n <= task[t].cidr
      /\ user' = [user EXCEPT ![u].used = SaturatingSub(@, n)]
      /\ cidr' = [cidr EXCEPT !.used = SaturatingSub(@, n)]
      /\ share' = [share EXCEPT ![u].used = SaturatingSub(@, n)]
      /\ sent' = [sent EXCEPT ![u] = @ + task[t].cidr - n]
      /\ passed' = passed - n /\ task' = [task EXCEPT ![t] = Idle] /\ leaseNow' = leaseNow
  BY Zenon DEF Write, RefundUser
<1>2. n \in Nat /\ s \in Nat /\ task[t].user = task[t].cidr
  BY <1>1, RelayInHand DEF GrantOK
<1>3. user' = [user EXCEPT ![u] = b] /\ sent' = [sent EXCEPT ![u] = s]
  BY <1>1, Zenon DEF LeaseInv, LeaseTypes
<1>4. b \in Bucket /\ b.used = SaturatingSub(user[u].used, n)
  BY <1>2, RelayInHand DEF Bucket, SaturatingSub
<1>5. Idle \in Relay /\ GrantOK(Idle) /\ Idle.user = 0
  BY Zenon DEF Idle, Relay, GrantOK
<1>6. b.used = 0 \/ b.used <= user[u].used - sent[u] - task[t].user + s + Idle.user
  BY <1>2, <1>4, <1>5, RelayInHand DEF SaturatingSub
<1> HIDE DEF b, s
<1>7. /\ task' \in [RelayTasks -> Relay] /\ user' \in [Users -> Bucket] /\ sent' \in [Users -> Nat]
      /\ GrantInv' /\ ThrottledBytesReturned'
  BY <1>1, <1>2, <1>3, <1>4, <1>5, <1>6, UserSide, Zenon
<1>8. share' \in [Users -> Bucket]
  <2>1. [share[u] EXCEPT !.used = SaturatingSub(@, n)] \in Bucket
    BY <1>2, RelayInHand DEF Bucket, SaturatingSub
  <2> QED
    BY <1>1, <2>1, Zenon DEF LeaseInv, LeaseTypes
<1>9. /\ cidr' \in [epoch : Nat, used : Nat, active : Nat]
      /\ cidr'.epoch = cidr.epoch /\ cidr'.used = SaturatingSub(cidr.used, n)
  BY <1>1, <1>2, RelayInHand DEF LeaseInv, LeaseTypes, SaturatingSub
<1>10. RateInv'
  <2>1. CidrCap * cidr.epoch \in Nat
    BY RelayInHand
  <2>2. passed - n <= CidrCap * cidr.epoch + SaturatingSub(cidr.used, n)
    BY <1>2, <2>1, RelayInHand DEF LeaseInv, RateInv, SaturatingSub
  <2>3. SaturatingSub(cidr.used, n) <= CidrCap
    BY <1>2, RelayInHand DEF LeaseInv, RateInv, SaturatingSub
  <2> QED
    BY <1>1, <1>9, <2>2, <2>3, Zenon DEF LeaseInv, RateInv
<1> QED
  BY <1>1, <1>2, <1>7, <1>8, <1>9, <1>10, RelayInHand DEF LeaseInv, LeaseTypes

(* Every step of the clock or of a relay keeps the invariant.              *)
LEMMA LeaseStep == LeaseInv /\ [LeaseNext]_leaseVars => LeaseInv'
<1> SUFFICES ASSUME LeaseInv, [LeaseNext]_leaseVars PROVE LeaseInv'
  BY Zenon
<1>1. CASE UNCHANGED leaseVars
  BY <1>1, Zenon DEF leaseVars, LeaseInv, LeaseTypes, RateInv, GrantInv, ThrottledBytesReturned
<1> QED
  BY <1>1, TickStep, ConsumeUserStep, ConsumeCidrStep, SettleStep, WriteStep, Zenon DEF LeaseNext

LEMMA LeaseProperty == LeaseInv => SubnetRate
<1> SUFFICES ASSUME LeaseInv PROVE passed <= CidrCap * (leaseNow + 1)
  BY Zenon DEF LeaseInv, SubnetRate
<1>1. /\ passed <= CidrCap * cidr.epoch + cidr.used /\ cidr.used <= CidrCap /\ cidr.epoch < leaseNow + 1
      /\ passed \in Int /\ cidr.used \in Nat /\ cidr.epoch \in Nat /\ leaseNow + 1 \in Nat /\ CidrCap \in Nat
  BY LeaseAssumption DEF LeaseInv, RateInv, LeaseTypes
<1>2. CidrCap * cidr.epoch + CidrCap <= CidrCap * (leaseNow + 1)
  BY <1>1, CapGrows, Zenon
<1>3. CidrCap * cidr.epoch \in Nat /\ CidrCap * (leaseNow + 1) \in Nat
  BY <1>1
<1> QED
  BY <1>1, <1>2, <1>3

(* For any users, relays, caps and requests: the subnet passes at most a   *)
(* cap per epoch begun, and what it refuses is not left charged to a user. *)
THEOREM SubnetKeepsRate == LeaseSpec => []SubnetRate
  BY LeaseAssumption, LeaseStart, LeaseStep, LeaseProperty, PTL DEF LeaseSpec

-----------------------------------------------------------------------------
(***************************************************************************)
(* The quota of a user.  What makes QuotaExact inductive: a session has    *)
(* something reserved only while it moves bytes; what it is about to       *)
(* reserve fits; whatever was written to a file was a legal counter; and,  *)
(* with one save a second, a saver has its file to itself until it is      *)
(* renamed and never touches it again.                                     *)
(***************************************************************************)
Bound == Limit + (IF Middle = {} THEN 0 ELSE Overshoot)
PollSteps == {"idle", "load", "try", "cas", "io", "after", "closed"}
Session == [pc : PollSteps, dir : {"up", "down"}, want : Nat, seen : Nat, reserved : Nat, over : BOOLEAN]
File == Savers \cup {None}
Saver == [pc : {"idle", "snap", "create", "write", "rename", "done"}, snap : 0..Bound, file : File]

SessionFits(r) ==
  /\ r \in Session
  /\ r.pc # "io" => r.reserved = 0
  /\ r.pc = "cas" => r.seen + r.want <= Bound

CounterOK ==
  /\ quotaUsed \in 0..Bound /\ charged \in Nat /\ raced \in BOOLEAN
  /\ sess \in [QuotaSessions -> Session] /\ \A s \in QuotaSessions : SessionFits(sess[s])
  /\ ~raced => quotaUsed = charged + SumOver(QuotaSessions, Reserved)

DiskOK ==
  /\ saver \in [Savers -> Saver] /\ inode \in [Savers -> {Part} \cup 0..Bound]
  /\ tmp \in [Savers -> File] /\ path \in File
  /\ \A v \in Savers : saver[v].pc \in {"write", "rename"} => saver[v].file # None

OneSaveASecond == \A u, v \in Savers : Second[u] = Second[v] => u = v
OwnFiles ==
  OneSaveASecond =>
    \A v \in Savers :
      /\ tmp[v] \in {None, v}
      /\ saver[v].pc \in {"write", "rename"} => saver[v].file = v
      /\ saver[v].pc = "rename" => inode[v] # Part
      /\ path = v => saver[v].pc = "done" /\ inode[v] # Part

QuotaInv == CounterOK /\ DiskOK /\ OwnFiles

-----------------------------------------------------------------------------
LEMMA QuotaNumbers ==
  /\ Bound \in Nat /\ Limit \in Nat /\ Overshoot \in Nat
  /\ \A s \in QuotaSessions : LimitOf(s) \in Nat /\ LimitOf(s) <= Bound
  /\ IsFiniteSet(QuotaSessions) /\ None \notin Savers /\ Part \notin 0..Bound
<1>1. Bound \in Nat /\ Limit \in Nat /\ Overshoot \in Nat
  BY QuotaAssumption DEF Bound
<1>2. \A s \in QuotaSessions : LimitOf(s) \in Nat /\ LimitOf(s) <= Bound
  BY QuotaAssumption DEF Bound, LimitOf
<1>3. IsFiniteSet(QuotaSessions)
  BY QuotaAssumption, FS_Union, Zenon DEF QuotaSessions
<1>4. None \notin Savers /\ Part \notin 0..Bound
  BY <1>1, QuotaAssumption DEF None, Part
<1> QED
  BY <1>1, <1>2, <1>3, <1>4, Zenon

(* A sum when one owner changes, which never owns more than all do.        *)
LEMMA OneOwnerChanges ==
  ASSUME NEW S, IsFiniteSet(S), NEW h \in [S -> Nat], NEW k \in [S -> Nat],
         NEW x \in S, \A y \in S \ {x} : k[y] = h[y]
  PROVE  /\ SumOver(S, k) = SumOver(S, h) - h[x] + k[x]
         /\ SumOver(S, h) \in Nat /\ h[x] <= SumOver(S, h)
<1> DEFINE z == [h EXCEPT ![x] = 0]
<1>1. z \in [S -> Nat] /\ z[x] = 0 /\ \A y \in S \ {x} : z[y] = h[y]
  BY Zenon
<1> HIDE DEF z
<1>2. SumOver(S, z) = SumOver(S, h) - h[x] + z[x]
  BY <1>1, SumUpdate, Zenon
<1>3. SumOver(S, h) \in Nat /\ SumOver(S, z) \in Nat
  BY <1>1, UnitsFinite, Zenon
<1>4. SumOver(S, k) = SumOver(S, h) - h[x] + k[x]
  BY SumUpdate
<1> QED
  BY <1>1, <1>2, <1>3, <1>4

(* What the sessions have reserved, when one of them changes.              *)
LEMMA ReservedChanges ==
  ASSUME NEW s \in QuotaSessions, NEW r
  PROVE  sess \in [QuotaSessions -> Session] /\ r \in Session /\ sess' = [sess EXCEPT ![s] = r]
         => /\ SumOver(QuotaSessions, Reserved)' = SumOver(QuotaSessions, Reserved) - sess[s].reserved + r.reserved
            /\ SumOver(QuotaSessions, Reserved) \in Nat
            /\ sess[s].reserved \in Nat /\ sess[s].reserved <= SumOver(QuotaSessions, Reserved)
            /\ sess' \in [QuotaSessions -> Session]
<1>1. SUFFICES ASSUME sess \in [QuotaSessions -> Session], r \in Session, sess' = [sess EXCEPT ![s] = r]
      PROVE  /\ SumOver(QuotaSessions, Reserved)' = SumOver(QuotaSessions, Reserved) - sess[s].reserved + r.reserved
             /\ SumOver(QuotaSessions, Reserved) \in Nat
             /\ sess[s].reserved \in Nat /\ sess[s].reserved <= SumOver(QuotaSessions, Reserved)
             /\ sess' \in [QuotaSessions -> Session]
  OBVIOUS
<1> DEFINE h == Reserved
           k == Reserved'
<1>2. h \in [QuotaSessions -> Nat] /\ k \in [QuotaSessions -> Nat]
  BY <1>1, Zenon DEF Reserved, Session
<1>3. /\ \A q \in QuotaSessions \ {s} : k[q] = h[q]
      /\ k[s] = r.reserved /\ h[s] = sess[s].reserved /\ sess[s].reserved \in Nat
  BY <1>1, Zenon DEF Reserved, Session
<1> HIDE DEF h, k
<1>4. IsFiniteSet(QuotaSessions)
  BY QuotaNumbers, Zenon
<1>5. /\ SumOver(QuotaSessions, k) = SumOver(QuotaSessions, h) - h[s] + k[s]
      /\ SumOver(QuotaSessions, h) \in Nat /\ h[s] <= SumOver(QuotaSessions, h)
  BY <1>2, <1>3, <1>4, OneOwnerChanges
<1>6. SumOver(QuotaSessions, Reserved)' = SumOver(QuotaSessions, Reserved')
  BY DEF SumOver, Units, QuotaSessions
<1>7. sess' \in [QuotaSessions -> Session]
  BY <1>1, Zenon
<1>8. /\ SumOver(QuotaSessions, Reserved') = SumOver(QuotaSessions, Reserved) - sess[s].reserved + r.reserved
      /\ SumOver(QuotaSessions, Reserved) \in Nat /\ sess[s].reserved <= SumOver(QuotaSessions, Reserved)
  BY <1>3, <1>5, Zenon DEF h, k
<1> QED
  BY <1>3, <1>6, <1>7, <1>8, Zenon

(* A session moves and charges nothing.                                    *)
LEMMA SessionMoves ==
  ASSUME CounterOK, NEW s \in QuotaSessions, NEW r, SessionFits(r), r.reserved = sess[s].reserved,
         sess' = [sess EXCEPT ![s] = r], UNCHANGED <<quotaUsed, charged, raced>>
  PROVE  CounterOK'
<1>1. r \in Session /\ sess \in [QuotaSessions -> Session] /\ r.reserved \in Nat
  BY Zenon DEF SessionFits, CounterOK, Session
<1>2. /\ SumOver(QuotaSessions, Reserved)' = SumOver(QuotaSessions, Reserved)
      /\ sess' \in [QuotaSessions -> Session]
  <2>1. /\ SumOver(QuotaSessions, Reserved)' = SumOver(QuotaSessions, Reserved) - r.reserved + r.reserved
        /\ SumOver(QuotaSessions, Reserved) \in Nat /\ sess' \in [QuotaSessions -> Session]
    BY <1>1, ReservedChanges, Zenon
  <2> QED
    BY <1>1, <2>1
<1>3. \A q \in QuotaSessions : SessionFits(sess'[q])
  BY <1>1 DEF CounterOK
<1> QED
  BY <1>2, <1>3, Zenon DEF CounterOK

Quiet(s, r) ==
  /\ sess[s].pc # "io" /\ sess' = [sess EXCEPT ![s] = r]
  /\ r \in Session /\ r.pc # "io" /\ r.reserved = 0
  /\ r.pc = "cas" => r.seen + r.want <= Bound

LEMMA QuietStep ==
  ASSUME CounterOK, NEW s \in QuotaSessions, NEW r, Quiet(s, r), UNCHANGED <<quotaUsed, charged, raced>>
  PROVE  CounterOK'
<1>1. sess[s].reserved = 0
  BY DEF Quiet, CounterOK, SessionFits
<1>2. SessionFits(r) /\ r.reserved = sess[s].reserved /\ sess' = [sess EXCEPT ![s] = r]
  BY <1>1, Zenon DEF Quiet, SessionFits
<1> QED
  BY <1>2, SessionMoves, Zenon

(* The record of a session that goes on to another step.                   *)
LEMMA SessionGoes ==
  ASSUME CounterOK, NEW s \in QuotaSessions, NEW step \in PollSteps
  PROVE  /\ To(s, step) \in Session /\ To(s, step).pc = step
         /\ step \in {"idle", "closed"} => To(s, step).reserved = 0
         /\ sess[s].pc # "io" => To(s, step).reserved = 0
         /\ step \notin {"idle", "closed"} =>
              /\ To(s, step).want = sess[s].want /\ To(s, step).seen = sess[s].seen
              /\ To(s, step).dir = sess[s].dir /\ To(s, step).over = sess[s].over
<1>1. sess[s] \in Session /\ (sess[s].pc # "io" => sess[s].reserved = 0)
  BY DEF CounterOK, SessionFits
<1>2. CASE step \in {"idle", "closed"}
  BY <1>1, <1>2, Zenon DEF To, FreshSession, Session, PollSteps
<1>3. CASE step \notin {"idle", "closed"}
  BY <1>1, <1>3, Zenon DEF To, Session
<1> QED
  BY <1>2, <1>3, Zenon

(* A poll or a frame begins, is refused, contended or over.                *)
Waiting == {r \in Session : r.pc \in {"idle", "closed", "load", "try"} /\ r.reserved = 0}

LEMMA WaitingChanges ==
  ASSUME NEW r \in Waiting, NEW d \in {"up", "down"}, NEW n \in Nat, NEW b \in BOOLEAN
  PROVE  /\ [r EXCEPT !.dir = d, !.want = n] \in Waiting /\ [r EXCEPT !.want = n] \in Waiting
         /\ [r EXCEPT !.over = b] \in Waiting
  BY Zenon DEF Waiting, Session

LEMMA SessionWaits ==
  ASSUME CounterOK, NEW s \in QuotaSessions, sess[s].pc # "io", NEW step \in {"idle", "closed", "load", "try"}
  PROVE  To(s, step) \in Waiting
<1>1. step \in PollSteps
  BY DEF PollSteps
<1> QED
  BY <1>1, SessionGoes, Zenon DEF Waiting

LEMMA SessionQuiet ==
  ASSUME CounterOK, NEW s \in QuotaSessions,
         Poll(s) \/ LoadRemaining(s) \/ Contended(s) \/ CheckAfter(s) \/ Watchdog(s) \/ Frame(s)
  PROVE  CounterOK'
<1>1. UNCHANGED <<quotaUsed, charged, raced>> /\ sess[s].pc # "io"
  BY Zenon DEF Poll, LoadRemaining, Contended, CheckAfter, Watchdog, Frame, At
<1>2. \A step \in {"idle", "closed", "load", "try"} : To(s, step) \in Waiting
  BY <1>1, SessionWaits, Zenon
<1>3. ASSUME NEW r \in Waiting, sess' = [sess EXCEPT ![s] = r] PROVE CounterOK'
  <2>1. Quiet(s, r)
    BY <1>1, <1>3, Zenon DEF Quiet, Waiting
  <2> QED
    BY <1>1, <2>1, QuietStep, Zenon
<1>4. CASE Poll(s)
  <2>1. CASE sess' = [sess EXCEPT ![s] = To(s, "closed")]
    BY <1>2, <1>3, <2>1, Zenon
  <2>2. CASE \E d \in {"up", "down"}, n \in Sizes :
               sess' = [sess EXCEPT ![s] = [To(s, "load") EXCEPT !.dir = d, !.want = n]]
    <3>1. PICK d \in {"up", "down"}, n \in Nat :
               sess' = [sess EXCEPT ![s] = [To(s, "load") EXCEPT !.dir = d, !.want = n]]
      BY <2>2, QuotaAssumption, Zenon
    <3>2. [To(s, "load") EXCEPT !.dir = d, !.want = n] \in Waiting
      BY <1>2, WaitingChanges, Zenon
    <3> QED
      BY <1>3, <3>1, <3>2, Zenon
  <2> QED
    BY <1>4, <2>1, <2>2, Zenon DEF Poll
<1>5. CASE LoadRemaining(s)
  <2>1. CASE Left(Limit) = 0
    <3>1. [To(s, "closed") EXCEPT !.over = TRUE] \in Waiting
      BY <1>2, WaitingChanges, Zenon
    <3> QED
      BY <1>3, <1>5, <2>1, <3>1, Zenon DEF LoadRemaining
  <2>2. CASE Left(Limit) # 0
    <3> DEFINE n == Min2(To(s, "try").want, Left(Limit))
    <3>1. sess' = [sess EXCEPT ![s] = [To(s, "try") EXCEPT !.want = n]]
      BY <1>5, <2>2, Zenon DEF LoadRemaining
    <3>2. To(s, "try").want \in Nat
      BY <1>2, Zenon DEF Waiting, Session
    <3>3. Left(Limit) \in Nat
      BY QuotaNumbers DEF Left, CounterOK
    <3>4. n \in Nat
      BY <3>2, <3>3, Zenon DEF Min2
    <3> HIDE DEF n
    <3>5. [To(s, "try") EXCEPT !.want = n] \in Waiting
      BY <1>2, <3>4, WaitingChanges, Zenon
    <3> QED
      BY <1>3, <3>1, <3>5, Zenon
  <2> QED
    BY <2>1, <2>2, Zenon
<1>6. CASE Contended(s)
  <2>1. PICK step \in {"try", "idle", "closed", "load"} : sess' = [sess EXCEPT ![s] = To(s, step)]
    BY <1>6, Zenon DEF Contended
  <2> QED
    BY <1>2, <1>3, <2>1, Zenon
<1>7. CASE CheckAfter(s)
  <2> DEFINE b == To(s, "idle").over \/ quotaUsed >= Limit
  <2>1. \/ sess' = [sess EXCEPT ![s] = [To(s, "idle") EXCEPT !.over = b]]
        \/ sess' = [sess EXCEPT ![s] = To(s, "idle")]
    BY <1>7 DEF CheckAfter
  <2>2. b \in BOOLEAN
    BY Zenon
  <2> HIDE DEF b
  <2>3. [To(s, "idle") EXCEPT !.over = b] \in Waiting
    BY <1>2, <2>2, WaitingChanges, Zenon
  <2> QED
    BY <1>2, <1>3, <2>1, <2>3, Zenon
<1>8. CASE Watchdog(s)
  BY <1>2, <1>3, <1>8, Zenon DEF Watchdog
<1>9. CASE Frame(s)
  <2>1. PICK d \in {"up", "down"}, n \in Nat :
             sess' = [sess EXCEPT ![s] = [To(s, "try") EXCEPT !.dir = d, !.want = n]]
    BY <1>9, QuotaAssumption, Zenon DEF Frame
  <2>2. [To(s, "try") EXCEPT !.dir = d, !.want = n] \in Waiting
    BY <1>2, WaitingChanges, Zenon
  <2> QED
    BY <1>3, <2>1, <2>2, Zenon
<1> QED
  BY <1>4, <1>5, <1>6, <1>7, <1>8, <1>9, Zenon

(* try_reserve leaves its load with what it wants fitting.                 *)
LEMMA SessionTries ==
  ASSUME CounterOK, NEW s \in QuotaSessions, TryReserve(s)
  PROVE  CounterOK'
<1>1. UNCHANGED <<quotaUsed, charged, raced>> /\ sess[s].pc = "try" /\ sess[s] \in Session
  BY Zenon DEF TryReserve, At, CounterOK
<1>2. \A step \in {"idle", "closed", "load", "try"} : To(s, step) \in Waiting
  BY <1>1, SessionWaits, Zenon
<1>3. ASSUME NEW r, Quiet(s, r) PROVE CounterOK'
  BY <1>1, <1>3, QuietStep, Zenon
<1>4. ASSUME NEW r \in Waiting, sess' = [sess EXCEPT ![s] = r] PROVE CounterOK'
  <2>1. Quiet(s, r)
    BY <1>1, <1>4, Zenon DEF Quiet, Waiting
  <2> QED
    BY <1>3, <2>1, Zenon
<1>5. CASE sess[s].want <= Left(LimitOf(s))
  <2> DEFINE t == To(s, "cas")
             r == [t EXCEPT !.seen = quotaUsed]
  <2>1. sess' = [sess EXCEPT ![s] = r]
    BY <1>5 DEF TryReserve
  <2>2. "cas" \in PollSteps
    BY Zenon DEF PollSteps
  <2>3. t \in Session /\ t.pc = "cas" /\ t.reserved = 0 /\ t.want = sess[s].want
    BY <1>1, <2>2, SessionGoes, Zenon
  <2>4. quotaUsed \in Nat /\ quotaUsed <= Bound /\ Bound \in Nat /\ sess[s].want \in Nat
    BY <1>1, QuotaNumbers DEF CounterOK, Session
  <2>5. quotaUsed + sess[s].want <= Bound
    BY <1>5, <2>4, QuotaNumbers DEF Left
  <2> HIDE DEF t
  <2>6. /\ r \in Session /\ r.pc = "cas" /\ r.reserved = 0
        /\ r.seen = quotaUsed /\ r.want = sess[s].want
    BY <2>3, <2>4, Zenon DEF Session
  <2> HIDE DEF r
  <2>7. Quiet(s, r)
    BY <1>1, <2>1, <2>5, <2>6, Zenon DEF Quiet
  <2> QED
    BY <1>3, <2>7, Zenon
<1>6. CASE ~(sess[s].want <= Left(LimitOf(s)))
  <2>1. \/ \E step \in {"load", "idle"} : sess' = [sess EXCEPT ![s] = To(s, step)]
        \/ sess' = [sess EXCEPT ![s] = [To(s, "closed") EXCEPT !.over = TRUE]]
    BY <1>6 DEF TryReserve
  <2>2. [To(s, "closed") EXCEPT !.over = TRUE] \in Waiting
    BY <1>2, WaitingChanges, Zenon
  <2> QED
    BY <1>2, <1>4, <2>1, <2>2, Zenon
<1> QED
  BY <1>5, <1>6, Zenon

(* The exchange: what is reserved is counted.                              *)
LEMMA SessionReserves ==
  ASSUME CounterOK, NEW s \in QuotaSessions, Exchange(s)
  PROVE  CounterOK'
<1> DEFINE t == To(s, "io")
           r == [t EXCEPT !.seen = 0, !.reserved = sess[s].want]
<1>1. /\ sess[s].pc = "cas" /\ sess[s] \in Session /\ quotaUsed = sess[s].seen
      /\ sess' = [sess EXCEPT ![s] = r] /\ quotaUsed' = quotaUsed + sess[s].want
      /\ UNCHANGED <<charged, raced>> /\ sess \in [QuotaSessions -> Session]
  BY DEF Exchange, At, CounterOK
<1>2. sess[s].reserved = 0 /\ quotaUsed + sess[s].want <= Bound
  BY <1>1 DEF CounterOK, SessionFits
<1>3. quotaUsed \in Nat /\ Bound \in Nat /\ sess[s].want \in Nat
  BY <1>1, QuotaNumbers, Zenon DEF CounterOK, Session
<1>4. t \in Session /\ t.pc = "io"
  <2>1. "io" \in PollSteps
    BY DEF PollSteps
  <2> QED
    BY <2>1, SessionGoes, Zenon
<1> HIDE DEF t
<1>5. r \in Session /\ r.pc = "io" /\ r.reserved = sess[s].want
  BY <1>3, <1>4, Zenon DEF Session
<1> HIDE DEF r
<1>6. /\ SumOver(QuotaSessions, Reserved)' = SumOver(QuotaSessions, Reserved) + sess[s].want
      /\ sess' \in [QuotaSessions -> Session]
  <2>1. /\ SumOver(QuotaSessions, Reserved)' = SumOver(QuotaSessions, Reserved) - sess[s].reserved + r.reserved
        /\ SumOver(QuotaSessions, Reserved) \in Nat /\ sess' \in [QuotaSessions -> Session]
    BY <1>1, <1>5, ReservedChanges, Zenon
  <2> QED
    BY <1>2, <1>3, <1>5, <2>1
<1>7. \A q \in QuotaSessions : SessionFits(sess'[q])
  BY <1>1, <1>5, Zenon DEF CounterOK, SessionFits
<1>8. quotaUsed' \in 0..Bound
  BY <1>1, <1>2, <1>3
<1>9. SumOver(QuotaSessions, Reserved) \in Nat
  BY <1>1, <1>5, ReservedChanges, Zenon
<1>10. ~raced' => quotaUsed' = charged' + SumOver(QuotaSessions, Reserved)'
  BY <1>1, <1>3, <1>6, <1>9 DEF CounterOK
<1> QED
  BY <1>1, <1>6, <1>7, <1>8, <1>10, Zenon DEF CounterOK

(* What was moved is charged, what was not is given back.                  *)
LEMMA SessionCharges ==
  ASSUME CounterOK, NEW s \in QuotaSessions, NEW n \in Nat, n <= sess[s].reserved,
         quotaUsed' = refund(quotaUsed, sess[s].reserved - n), charged' = charged + n, raced' = raced,
         NEW r \in Session, sess' = [sess EXCEPT ![s] = r], r.reserved = 0, r.pc \notin {"io", "cas"}
  PROVE  CounterOK'
<1>1. sess \in [QuotaSessions -> Session] /\ quotaUsed \in 0..Bound /\ charged \in Nat /\ Bound \in Nat
  BY QuotaNumbers DEF CounterOK
<1>2. /\ SumOver(QuotaSessions, Reserved)' = SumOver(QuotaSessions, Reserved) - sess[s].reserved + r.reserved
      /\ SumOver(QuotaSessions, Reserved) \in Nat /\ sess[s].reserved \in Nat
      /\ sess[s].reserved <= SumOver(QuotaSessions, Reserved) /\ sess' \in [QuotaSessions -> Session]
  BY <1>1, ReservedChanges, Zenon
<1>3. quotaUsed' \in 0..Bound /\ charged' \in Nat
  BY <1>1, <1>2 DEF refund
<1>4. ~raced' => quotaUsed' = charged' + SumOver(QuotaSessions, Reserved)'
  <2> SUFFICES ASSUME ~raced PROVE quotaUsed' = charged' + SumOver(QuotaSessions, Reserved)'
    BY Zenon
  <2>1. quotaUsed = charged + SumOver(QuotaSessions, Reserved)
    BY Zenon DEF CounterOK
  <2> QED
    BY <1>1, <1>2, <2>1 DEF refund
<1>5. \A q \in QuotaSessions : SessionFits(sess'[q])
  BY <1>1, Zenon DEF CounterOK, SessionFits
<1> QED
  BY <1>2, <1>3, <1>4, <1>5, Zenon DEF CounterOK

LEMMA SessionMovesBytes ==
  ASSUME CounterOK, NEW s \in QuotaSessions, InnerIo(s) \/ FrameIo(s)
  PROVE  CounterOK'
<1>1. sess[s] \in Session /\ sess[s].reserved \in Nat /\ quotaUsed \in Nat
  BY QuotaNumbers DEF CounterOK, Session
<1>2. ASSUME NEW step \in {"idle", "closed", "after"}
      PROVE  /\ [To(s, step) EXCEPT !.reserved = 0] \in Session
             /\ [To(s, step) EXCEPT !.reserved = 0].reserved = 0
             /\ [To(s, step) EXCEPT !.reserved = 0].pc \notin {"io", "cas"}
  <2> DEFINE t == To(s, step)
  <2>1. step \in PollSteps
    BY Zenon DEF PollSteps
  <2>2. t \in Session /\ t.pc = step
    BY <2>1, SessionGoes, Zenon
  <2> HIDE DEF t
  <2>3. /\ [t EXCEPT !.reserved = 0] \in Session /\ [t EXCEPT !.reserved = 0].reserved = 0
        /\ [t EXCEPT !.reserved = 0].pc = step
    BY <2>2 DEF Session
  <2> QED
    BY <2>3, Zenon DEF t
<1>3. CASE InnerIo(s)
  <2>1. PICK n \in 0..sess[s].reserved :
          /\ quotaUsed' = refund(quotaUsed, sess[s].reserved - n) /\ charged' = charged + n
          /\ \E step \in {"idle", "closed", "after"} :
               sess' = [sess EXCEPT ![s] = [To(s, step) EXCEPT !.reserved = 0]]
    BY <1>3, Zenon DEF InnerIo
  <2>2. PICK step \in {"idle", "closed", "after"} :
               sess' = [sess EXCEPT ![s] = [To(s, step) EXCEPT !.reserved = 0]]
    BY <2>1, Zenon
  <2>3. n \in Nat /\ n <= sess[s].reserved /\ raced' = raced
    BY <1>1, <1>3 DEF InnerIo
  <2> QED
    BY <1>2, <2>1, <2>2, <2>3, SessionCharges, Zenon
<1>4. CASE FrameIo(s)
  <2>1. PICK step \in {"idle", "closed"} : sess' = [sess EXCEPT ![s] = [To(s, step) EXCEPT !.reserved = 0]]
    BY <1>4, Zenon DEF FrameIo
  <2>2. quotaUsed' = refund(quotaUsed, sess[s].reserved - sess[s].reserved)
    BY <1>1, <1>4 DEF FrameIo, refund
  <2>3. charged' = charged + sess[s].reserved /\ raced' = raced /\ sess[s].reserved <= sess[s].reserved
    BY <1>1, <1>4 DEF FrameIo
  <2> QED
    BY <1>1, <1>2, <2>1, <2>2, <2>3, SessionCharges, Zenon
<1> QED
  BY <1>3, <1>4, Zenon

LEMMA SessionKeeps ==
  ASSUME CounterOK, NEW s \in QuotaSessions, QuotaStep(s)
  PROVE  CounterOK'
  BY SessionQuiet, SessionTries, SessionReserves, SessionMovesBytes, Zenon DEF QuotaStep

-----------------------------------------------------------------------------
(* A reset that meets no reservation leaves the counter exact.             *)
LEMMA ResetKeeps ==
  ASSUME QuotaInv, NEW v \in Savers, ResetQuota(v)
  PROVE  CounterOK'
<1>1. quotaUsed' = 0 /\ charged' = 0 /\ raced' = (raced \/ Inflight) /\ sess' = sess
  BY DEF ResetQuota
<1>2. ASSUME ~raced' PROVE SumOver(QuotaSessions, Reserved)' = 0
  <2>1. \A s \in QuotaSessions : Reserved'[s] = 0
    <3>1. ~Inflight
      BY <1>1, <1>2, Zenon
    <3>2. \A s \in QuotaSessions : sess[s].reserved \in Nat
      BY Zenon DEF QuotaInv, CounterOK, Session
    <3>3. \A s \in QuotaSessions : sess[s].reserved = 0
      BY <3>1, <3>2 DEF Inflight
    <3> QED
      BY <1>1, <3>3 DEF Reserved
  <2>2. SumOver(QuotaSessions, Reserved') = 0
    BY <2>1, SumZero, Zenon
  <2>3. SumOver(QuotaSessions, Reserved)' = SumOver(QuotaSessions, Reserved')
    BY DEF SumOver, Units, QuotaSessions
  <2> QED
    BY <2>2, <2>3, Zenon
<1>3. raced' \in BOOLEAN
  BY <1>1, Zenon DEF QuotaInv, CounterOK, Inflight
<1>4. sess' \in [QuotaSessions -> Session] /\ \A s \in QuotaSessions : SessionFits(sess'[s])
  BY <1>1, Zenon DEF QuotaInv, CounterOK
<1>5. quotaUsed' \in 0..Bound /\ charged' \in Nat
  BY <1>1, QuotaNumbers
<1>6. ~raced' => quotaUsed' = charged' + SumOver(QuotaSessions, Reserved)'
  BY <1>1, <1>2
<1> QED
  BY <1>3, <1>4, <1>5, <1>6, Zenon DEF CounterOK

LEMMA FreshSessions ==
  /\ FreshSession \in Session /\ SessionFits(FreshSession)
  /\ SumOver(QuotaSessions, [s \in QuotaSessions |-> 0]) = 0
<1>1. FreshSession \in Session /\ SessionFits(FreshSession)
  BY Zenon DEF FreshSession, Session, SessionFits, PollSteps
<1>2. SumOver(QuotaSessions, [s \in QuotaSessions |-> 0]) = 0
  BY SumZero
<1> QED
  BY <1>1, <1>2, Zenon

(* A restart takes a legal counter from the file.                          *)
LEMMA RestartKeeps ==
  ASSUME QuotaInv, Restart
  PROVE  CounterOK' /\ DiskOK' /\ OwnFiles'
<1> DEFINE stored == IF path = None \/ inode[path] = Part THEN 0 ELSE inode[path]
<1>1. /\ quotaUsed' = stored /\ charged' = stored /\ raced' = FALSE
      /\ sess' = [s \in QuotaSessions |-> FreshSession] /\ UNCHANGED <<inode, tmp, path>>
      /\ saver' = [v \in Savers |-> IF saver[v].pc = "idle" THEN saver[v] ELSE [saver[v] EXCEPT !.pc = "done"]]
  BY Zenon DEF Restart
<1>2. stored \in 0..Bound
  BY QuotaNumbers DEF QuotaInv, DiskOK, File
<1> HIDE DEF stored
<1>3. stored \in Nat
  BY <1>2, QuotaNumbers
<1>4. Reserved' = [s \in QuotaSessions |-> 0]
  BY <1>1, Zenon DEF Reserved, FreshSession
<1>5. SumOver(QuotaSessions, Reserved)' = 0
  <2>1. SumOver(QuotaSessions, Reserved)' = SumOver(QuotaSessions, Reserved')
    BY Zenon DEF SumOver, Units, QuotaSessions
  <2> QED
    BY <1>4, <2>1, FreshSessions, Zenon
<1>6. CounterOK'
  <2>1. sess' \in [QuotaSessions -> Session] /\ \A s \in QuotaSessions : SessionFits(sess'[s])
    BY <1>1, FreshSessions, Zenon
  <2>2. quotaUsed' \in 0..Bound /\ charged' \in Nat /\ raced' \in BOOLEAN
    BY <1>1, <1>2, <1>3, Zenon
  <2>3. quotaUsed' = charged' + SumOver(QuotaSessions, Reserved)'
    BY <1>1, <1>3, <1>5
  <2> QED
    BY <2>1, <2>2, <2>3, Zenon DEF CounterOK
<1>7. \A v \in Savers : /\ saver'[v] \in Saver /\ saver'[v].pc \in {"idle", "done"}
                        /\ saver[v].pc = "done" => saver'[v].pc = "done"
  BY <1>1 DEF QuotaInv, DiskOK, Saver
<1>8. saver' \in [Savers -> Saver]
  BY <1>1, <1>7, Zenon
<1>9. DiskOK'
  BY <1>1, <1>7, <1>8, Zenon DEF QuotaInv, DiskOK
<1>10. OwnFiles'
  BY <1>1, <1>7, Zenon DEF QuotaInv, OwnFiles, OneSaveASecond
<1> QED
  BY <1>6, <1>9, <1>10, Zenon

(* A request that begins, or takes its snapshot.                           *)
LEMMA SaveBegins ==
  ASSUME QuotaInv, NEW v \in Savers, ResetQuota(v) \/ SaveAtShutdown(v) \/ Snapshot(v)
  PROVE  DiskOK' /\ OwnFiles'
<1>1. UNCHANGED <<inode, tmp, path>> /\ saver[v] \in Saver
  BY DEF ResetQuota, SaveAtShutdown, Snapshot, QuotaInv, DiskOK
<1>2. \E p \in {"snap", "create"}, n \in 0..Bound :
        saver' = [saver EXCEPT ![v] = [saver[v] EXCEPT !.pc = p, !.snap = n]]
  <2>1. CASE ResetQuota(v) \/ SaveAtShutdown(v)
    <3>1. saver' = [saver EXCEPT ![v] = [saver[v] EXCEPT !.pc = "snap"]]
      BY <2>1 DEF ResetQuota, SaveAtShutdown
    <3>2. [saver[v] EXCEPT !.pc = "snap"] = [saver[v] EXCEPT !.pc = "snap", !.snap = saver[v].snap]
          /\ saver[v].snap \in 0..Bound
      BY <1>1, Zenon DEF Saver
    <3> QED
      BY <3>1, <3>2, Zenon
  <2>2. CASE Snapshot(v)
    <3>1. quotaUsed \in 0..Bound
      BY DEF QuotaInv, CounterOK
    <3>2. saver' = [saver EXCEPT ![v] = [saver[v] EXCEPT !.pc = "create", !.snap = quotaUsed]]
      BY <2>2, Zenon DEF Snapshot, QuotaInv, DiskOK
    <3> QED
      BY <3>1, <3>2, Zenon
  <2> QED
    BY <2>1, <2>2, Zenon
<1>3. PICK p \in {"snap", "create"}, n \in 0..Bound :
        saver' = [saver EXCEPT ![v] = [saver[v] EXCEPT !.pc = p, !.snap = n]]
  BY <1>2, Zenon
<1>4. saver' \in [Savers -> Saver] /\ saver'[v].pc = p /\ \A u \in Savers \ {v} : saver'[u] = saver[u]
  BY <1>1, <1>3, Zenon DEF QuotaInv, DiskOK, Saver
<1>5. DiskOK'
  BY <1>1, <1>4, Zenon DEF QuotaInv, DiskOK
<1>6. saver[v].pc # "done"
  BY Zenon DEF ResetQuota, SaveAtShutdown, Snapshot
<1>7. OwnFiles'
  BY <1>1, <1>4, <1>6, Zenon DEF QuotaInv, OwnFiles, OneSaveASecond
<1> QED
  BY <1>5, <1>7, Zenon

(* The requests that write in the second of another one.                   *)
LEMMA NamedFile ==
  ASSUME QuotaInv, NEW v \in Savers, Named(v) # {}
  PROVE  /\ (CHOOSE u \in Named(v) : TRUE) \in Savers
         /\ tmp[CHOOSE u \in Named(v) : TRUE] \in Savers
         /\ OneSaveASecond => (CHOOSE u \in Named(v) : TRUE) = v
<1> DEFINE u == CHOOSE u \in Named(v) : TRUE
<1>1. u \in Named(v)
  BY Zenon
<1> HIDE DEF u
<1>2. u \in Savers /\ tmp[u] # None /\ Second[u] = Second[v]
  BY <1>1, Zenon DEF Named
<1>3. tmp[u] \in Savers
  BY <1>2, Zenon DEF QuotaInv, DiskOK, File
<1>4. OneSaveASecond => u = v
  BY <1>2, Zenon DEF OneSaveASecond
<1> QED
  BY <1>2, <1>3, <1>4, Zenon DEF u

LEMMA SaveCreates ==
  ASSUME QuotaInv, NEW v \in Savers, CreateTmp(v)
  PROVE  DiskOK' /\ OwnFiles'
<1> DEFINE file == IF Named(v) = {} THEN v ELSE tmp[CHOOSE u \in Named(v) : TRUE]
<1>1. /\ saver[v].pc = "create" /\ path' = path
      /\ saver' = [saver EXCEPT ![v].pc = "write", ![v].file = file]
      /\ inode' = [inode EXCEPT ![file] = Part]
      /\ tmp' = IF Named(v) = {} THEN [tmp EXCEPT ![v] = file] ELSE tmp
  BY Zenon DEF CreateTmp
<1>2. file \in Savers /\ (Named(v) = {} => file = v) /\ (OneSaveASecond => file = v)
  <2>1. CASE Named(v) = {}
    BY <2>1, Zenon
  <2>2. CASE Named(v) # {}
    <3>1. /\ file = tmp[CHOOSE u \in Named(v) : TRUE] /\ file \in Savers
          /\ OneSaveASecond => (CHOOSE u \in Named(v) : TRUE) = v
      BY <2>2, NamedFile, Zenon
    <3> HIDE DEF file
    <3>2. OneSaveASecond => file = tmp[v]
      BY <3>1, Zenon
    <3>3. OneSaveASecond => tmp[v] \in {None, v}
      BY Zenon DEF OwnFiles, QuotaInv
    <3> QED
      BY <2>2, <3>1, <3>2, <3>3, QuotaNumbers, Zenon
  <2> QED
    BY <2>1, <2>2, Zenon
<1> HIDE DEF file
<1>3. file # None /\ file \in File /\ saver[v] \in Saver /\ saver \in [Savers -> Saver]
      /\ inode \in [Savers -> {Part} \cup 0..Bound] /\ tmp \in [Savers -> File]
  BY <1>2, QuotaNumbers, Zenon DEF QuotaInv, DiskOK, File
<1>4. /\ saver' \in [Savers -> Saver] /\ saver'[v].pc = "write" /\ saver'[v].file = file
      /\ \A u \in Savers \ {v} : saver'[u] = saver[u]
  BY <1>1, <1>3, Zenon DEF Saver
<1>5. inode' \in [Savers -> {Part} \cup 0..Bound] /\ \A u \in Savers \ {file} : inode'[u] = inode[u]
  BY <1>1, <1>2, <1>3, Zenon
<1>6. tmp' \in [Savers -> File] /\ (tmp'[v] \in {tmp[v], v}) /\ \A u \in Savers \ {v} : tmp'[u] = tmp[u]
  BY <1>1, <1>2, <1>3, Zenon
<1>7. DiskOK'
  BY <1>1, <1>3, <1>4, <1>5, <1>6, Zenon DEF QuotaInv, DiskOK
<1>8. OwnFiles'
  <2> SUFFICES ASSUME OneSaveASecond, NEW u \in Savers
               PROVE  /\ tmp'[u] \in {None, u}
                      /\ saver'[u].pc \in {"write", "rename"} => saver'[u].file = u
                      /\ saver'[u].pc = "rename" => inode'[u] # Part
                      /\ path' = u => saver'[u].pc = "done" /\ inode'[u] # Part
    BY DEF OwnFiles, OneSaveASecond
  <2>1. file = v
    BY <1>2, Zenon
  <2>2. /\ tmp[u] \in {None, u} /\ (saver[u].pc \in {"write", "rename"} => saver[u].file = u)
        /\ (saver[u].pc = "rename" => inode[u] # Part)
        /\ path = u => saver[u].pc = "done" /\ inode[u] # Part
    BY Zenon DEF QuotaInv, OwnFiles
  <2>3. CASE u = v
    BY <1>1, <1>4, <1>6, <2>1, <2>2, <2>3, Zenon
  <2>4. CASE u # v
    BY <1>1, <1>4, <1>5, <1>6, <2>1, <2>2, <2>4, Zenon
  <2> QED
    BY <2>3, <2>4, Zenon
<1> QED
  BY <1>7, <1>8, Zenon

LEMMA SaveWrites ==
  ASSUME QuotaInv, NEW v \in Savers, WriteTmp(v)
  PROVE  DiskOK' /\ OwnFiles'
<1>1. /\ saver[v].pc = "write" /\ UNCHANGED <<tmp, path>>
      /\ saver' = [saver EXCEPT ![v].pc = "rename"]
      /\ inode' = [inode EXCEPT ![saver[v].file] = saver[v].snap]
  BY Zenon DEF WriteTmp
<1>2. saver[v] \in Saver /\ saver \in [Savers -> Saver] /\ inode \in [Savers -> {Part} \cup 0..Bound]
  BY DEF QuotaInv, DiskOK
<1>3. saver[v].snap \in 0..Bound /\ saver[v].file \in Savers
  BY <1>1, <1>2, Zenon DEF QuotaInv, DiskOK, Saver, File
<1>4. /\ saver' \in [Savers -> Saver] /\ saver'[v].pc = "rename" /\ saver'[v].file = saver[v].file
      /\ \A u \in Savers \ {v} : saver'[u] = saver[u]
  BY <1>1, <1>2, Zenon DEF Saver
<1>5. /\ inode' \in [Savers -> {Part} \cup 0..Bound] /\ inode'[saver[v].file] # Part
      /\ \A u \in Savers \ {saver[v].file} : inode'[u] = inode[u]
  BY <1>1, <1>2, <1>3, QuotaNumbers, Zenon
<1>6. DiskOK'
  BY <1>1, <1>3, <1>4, <1>5, QuotaNumbers, Zenon DEF QuotaInv, DiskOK
<1>7. OwnFiles'
  <2> SUFFICES ASSUME OneSaveASecond, NEW u \in Savers
               PROVE  /\ tmp'[u] \in {None, u}
                      /\ saver'[u].pc \in {"write", "rename"} => saver'[u].file = u
                      /\ saver'[u].pc = "rename" => inode'[u] # Part
                      /\ path' = u => saver'[u].pc = "done" /\ inode'[u] # Part
    BY DEF OwnFiles, OneSaveASecond
  <2>1. saver[v].file = v
    BY <1>1, Zenon DEF QuotaInv, OwnFiles
  <2>2. /\ tmp[u] \in {None, u} /\ (saver[u].pc \in {"write", "rename"} => saver[u].file = u)
        /\ (saver[u].pc = "rename" => inode[u] # Part)
        /\ path = u => saver[u].pc = "done" /\ inode[u] # Part
    BY Zenon DEF QuotaInv, OwnFiles
  <2> QED
    BY <1>1, <1>4, <1>5, <2>1, <2>2, Zenon
<1> QED
  BY <1>6, <1>7

LEMMA SaveRenames ==
  ASSUME QuotaInv, NEW v \in Savers, RenameTmp(v)
  PROVE  DiskOK' /\ OwnFiles'
<1> DEFINE w == CHOOSE u \in Named(v) : TRUE
<1>1. /\ saver[v].pc = "rename" /\ inode' = inode
      /\ saver' = [saver EXCEPT ![v] = [pc |-> "done", snap |-> 0, file |-> None]]
      /\ \/ Named(v) = {} /\ UNCHANGED <<tmp, path>>
         \/ Named(v) # {} /\ path' = tmp[w] /\ tmp' = [tmp EXCEPT ![w] = None]
  BY Zenon DEF RenameTmp
<1>2. Named(v) # {} => w \in Savers /\ tmp[w] \in Savers /\ (OneSaveASecond => w = v)
  BY NamedFile
<1> HIDE DEF w
<1>3. saver \in [Savers -> Saver] /\ tmp \in [Savers -> File] /\ path \in File
  BY Zenon DEF QuotaInv, DiskOK
<1>4. /\ saver' \in [Savers -> Saver] /\ saver'[v].pc = "done" /\ \A u \in Savers \ {v} : saver'[u] = saver[u]
  BY <1>1, <1>3, QuotaNumbers DEF Saver, File
<1>5. /\ tmp' \in [Savers -> File] /\ path' \in File
      /\ \A u \in Savers : tmp'[u] \in {tmp[u], None}
  BY <1>1, <1>2, <1>3, Zenon DEF File
<1>6. DiskOK'
  BY <1>1, <1>4, <1>5, Zenon DEF QuotaInv, DiskOK
<1>7. OwnFiles'
  <2> SUFFICES ASSUME OneSaveASecond, NEW u \in Savers
               PROVE  /\ tmp'[u] \in {None, u}
                      /\ saver'[u].pc \in {"write", "rename"} => saver'[u].file = u
                      /\ saver'[u].pc = "rename" => inode'[u] # Part
                      /\ path' = u => saver'[u].pc = "done" /\ inode'[u] # Part
    BY DEF OwnFiles, OneSaveASecond
  <2>1. /\ tmp[u] \in {None, u} /\ (saver[u].pc \in {"write", "rename"} => saver[u].file = u)
        /\ (saver[u].pc = "rename" => inode[u] # Part)
        /\ path = u => saver[u].pc = "done" /\ inode[u] # Part
    BY DEF QuotaInv, OwnFiles
  <2>2. inode[v] # Part /\ tmp[v] \in {None, v}
    BY <1>1, Zenon DEF QuotaInv, OwnFiles
  <2>3. path' = path \/ path' = v
    BY <1>1, <1>2, <2>2, QuotaNumbers, Zenon
  <2> QED
    BY <1>1, <1>4, <1>5, <2>1, <2>2, <2>3, Zenon
<1> QED
  BY <1>6, <1>7

-----------------------------------------------------------------------------
LEMMA QuotaStarts == QuotaInit => QuotaInv
<1> SUFFICES ASSUME QuotaInit PROVE QuotaInv
  OBVIOUS
<1>1. Reserved = [s \in QuotaSessions |-> 0]
  BY DEF QuotaInit, Reserved, FreshSession
<1>2. CounterOK
  <2>1. sess \in [QuotaSessions -> Session] /\ \A s \in QuotaSessions : SessionFits(sess[s])
    BY FreshSessions, Zenon DEF QuotaInit
  <2>2. quotaUsed = 0 /\ charged = 0 /\ raced = FALSE
    BY DEF QuotaInit
  <2>3. quotaUsed \in 0..Bound /\ charged \in Nat /\ raced \in BOOLEAN
    <3>1. Bound \in Nat
      BY QuotaNumbers
    <3>2. raced \in BOOLEAN
      BY <2>2, Zenon
    <3> QED
      BY <2>2, <3>1, <3>2
  <2>4. quotaUsed = charged + SumOver(QuotaSessions, Reserved)
    BY <1>1, <2>2, FreshSessions
  <2> QED
    BY <2>1, <2>3, <2>4, Zenon DEF CounterOK
<1>3. DiskOK
  BY QuotaNumbers DEF QuotaInit, DiskOK, Saver, File
<1>4. OwnFiles
  BY QuotaNumbers DEF QuotaInit, OwnFiles
<1> QED
  BY <1>2, <1>3, <1>4, Zenon DEF QuotaInv

LEMMA QuotaKeeps == QuotaInv /\ [QuotaNext]_quotaVars => QuotaInv'
<1> SUFFICES ASSUME QuotaInv, [QuotaNext]_quotaVars PROVE QuotaInv'
  OBVIOUS
<1>1. ASSUME UNCHANGED disk PROVE DiskOK' /\ OwnFiles'
  BY <1>1, Zenon DEF disk, QuotaInv, DiskOK, OwnFiles, OneSaveASecond
<1>2. ASSUME UNCHANGED quota PROVE CounterOK'
  <2>1. UNCHANGED <<quotaUsed, sess, charged, raced>>
    BY <1>2, Zenon DEF quota
  <2>2. Reserved' = Reserved
    BY <2>1, Zenon DEF Reserved
  <2>3. SumOver(QuotaSessions, Reserved)' = SumOver(QuotaSessions, Reserved)
    BY <2>2 DEF SumOver, Units, QuotaSessions
  <2> QED
    BY <2>1, <2>3, Zenon DEF QuotaInv, CounterOK
<1>3. ASSUME NEW s \in QuotaSessions, QuotaStep(s), UNCHANGED <<quotaResets, crashes, disk>> PROVE QuotaInv'
  <2>1. CounterOK'
    BY <1>3, SessionKeeps, Zenon DEF QuotaInv
  <2>2. UNCHANGED disk
    BY <1>3
  <2> QED
    BY <1>1, <2>1, <2>2, Zenon DEF QuotaInv
<1>4. ASSUME NEW v \in Savers, ResetQuota(v) PROVE QuotaInv'
  BY <1>4, ResetKeeps, SaveBegins, Zenon DEF QuotaInv
<1>5. ASSUME NEW v \in Savers, SaveAtShutdown(v) \/ Save(v) PROVE QuotaInv'
  <2>1. UNCHANGED quota
    BY <1>5 DEF SaveAtShutdown, Save, Snapshot, CreateTmp, WriteTmp, RenameTmp
  <2>2. DiskOK' /\ OwnFiles'
    BY <1>5, SaveBegins, SaveCreates, SaveWrites, SaveRenames, Zenon DEF Save
  <2> QED
    BY <1>2, <2>1, <2>2, Zenon DEF QuotaInv
<1>6. CASE Restart
  BY <1>6, RestartKeeps, Zenon DEF QuotaInv
<1>7. CASE UNCHANGED quotaVars
  <2>1. UNCHANGED quota /\ UNCHANGED disk
    BY <1>7 DEF quotaVars
  <2> QED
    BY <1>1, <1>2, <2>1, Zenon DEF QuotaInv
<1> QED
  BY <1>3, <1>4, <1>5, <1>6, <1>7, Zenon DEF QuotaNext

LEMMA QuotaPromises == QuotaInv => QuotaExact
<1> SUFFICES ASSUME QuotaInv PROVE QuotaExact
  BY Zenon
<1>1. quotaUsed \in 0..Bound /\ charged \in Nat /\ Bound \in Nat /\ Bound <= Limit + Overshoot
  BY QuotaNumbers DEF QuotaInv, CounterOK, Bound
<1>2. SumOver(QuotaSessions, Reserved) \in Nat
  <2>1. Reserved \in [QuotaSessions -> Nat]
    BY DEF QuotaInv, CounterOK, Session, Reserved
  <2>2. IsFiniteSet(QuotaSessions)
    BY QuotaNumbers, Zenon
  <2> QED
    BY <2>1, <2>2, UnitsFinite, Zenon
<1>3. ~raced => quotaUsed = charged + SumOver(QuotaSessions, Reserved)
  BY Zenon DEF QuotaInv, CounterOK
<1>4. ~raced => charged <= Bound
  BY <1>1, <1>2, <1>3
<1>5. CounterExact
  BY <1>1, <1>3, <1>4, QuotaNumbers DEF CounterExact, Bound
<1>6. StateFileWhole
  BY DEF QuotaInv, OwnFiles, OneSaveASecond, DiskOK, File, StateFileWhole
<1> QED
  BY <1>5, <1>6, Zenon DEF QuotaExact

(* For any sessions, limit and overshoot: whatever try_reserve, refund and *)
(* a reset of the counter do to each other, the counter is what was moved  *)
(* or is reserved and stays within the limit and the overshoot; and        *)
(* write_state_file leaves a whole file under its name, crashes included,  *)
(* if no two saves fall in one second.                                     *)
THEOREM QuotaStaysExact == QuotaSpec => []QuotaExact
  BY QuotaStarts, QuotaKeeps, QuotaPromises, PTL DEF QuotaSpec
=============================================================================
