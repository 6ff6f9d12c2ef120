--------------------------- MODULE TrafficLimiter ---------------------------
(***************************************************************************)
(* The traffic limiter (src/src/proxy/traffic_limiter.rs): its registry of *)
(* leases, for one user behind one subnet, what a lease grants, and the    *)
(* atomics of one bucket.                                                  *)
(*                                                                         *)
(* acquire_lease finds or creates the user's bucket, the subnet's bucket   *)
(* and the user's share in it, and counts itself on each; a lease that is  *)
(* dropped takes the counts back; maybe_cleanup removes what nobody counts *)
(* on.  The registries lock one entry at a time and the counts are plain   *)
(* atomics, so finding an entry and counting on it are two steps.          *)
(***************************************************************************)
EXTENDS UnitSums

CONSTANTS
  Leases,      \* sessions that acquire and drop a lease
  Objects,     \* identities of bucket and share allocations
  MaxPolicies, \* bound on apply_policy calls
  NoObject

\* An allocation always finds an identity: a lease refers to three objects at
\* most, and the registries to two more.
ASSUME RegistryAssumption ==
  /\ IsFiniteSet(Leases) /\ NoObject \notin Objects
  /\ IsFiniteSet(Objects) => Cardinality(Objects) > 3 * Cardinality(Leases) + 2

VARIABLES
  explicit, \* the subnet has a rule of its own, not an auto template
  limited,  \* the current policy limits the user
  policies, \* apply_policy calls so far
  userAt,   \* user_buckets[user]
  cidrAt,   \* cidr_buckets[subnet]
  shareAt,  \* bucket -> its users[user]
  count,    \* object -> active_leases, or active_conns of a share
  gauge,    \* active_leases of user_scope and cidr_scope
  leasePc,  \* the next step of each lease
  held,     \* lease -> the objects it refers to
  cleaner   \* step of the running maybe_cleanup, and the policy it loaded

registryVars == <<explicit, limited, policies, userAt, cidrAt, shareAt, count, gauge, leasePc,
                  held, cleaner>>

Slots == {"user", "cidr", "share"}
Refs == UNION {{held[l][s] : s \in Slots} : l \in Leases}
InUse == ({userAt, cidrAt} \cup Range(shareAt) \cup Refs) \ {NoObject}

Advance(l, step) == leasePc' = [leasePc EXCEPT ![l] = step]
Hold(l, s, o) == held' = [held EXCEPT ![l][s] = o]
SaturatingDec(n) == IF n = 0 THEN 0 ELSE n - 1
CountUp(o) == count' = [count EXCEPT ![o] = @ + 1]
CountDown(o) == count' = [count EXCEPT ![o] = SaturatingDec(@)]
GaugeUp(s) == gauge' = [gauge EXCEPT ![s] = @ + 1]
GaugeDown(s) == gauge' = [gauge EXCEPT ![s] = SaturatingDec(@)]

\* Allocations are interchangeable: a new one takes the first identity free.
Fresh == CHOOSE o \in Objects : o \notin InUse

RegistryInit ==
  /\ explicit \in BOOLEAN /\ limited = TRUE /\ policies = 0
  /\ userAt = NoObject /\ cidrAt = NoObject
  /\ shareAt = [o \in Objects |-> NoObject]
  /\ count = [o \in Objects |-> 0]
  /\ gauge = [s \in {"user", "cidr"} |-> 0]
  /\ leasePc = [l \in Leases |-> "none"]
  /\ held = [l \in Leases |-> [s \in Slots |-> NoObject]]
  /\ cleaner = [step |-> "idle", limited |-> FALSE]

-----------------------------------------------------------------------------
\* acquire_lease loads the policy once.
LoadPolicy(l) ==
  /\ leasePc[l] = "none"
  /\ Advance(l, IF limited THEN "find_user" ELSE "find_cidr")
  /\ UNCHANGED <<explicit, limited, policies, userAt, cidrAt, shareAt, count, gauge, held, cleaner>>

FindUser(l) ==
  /\ leasePc[l] = "find_user"
  /\ LET o == IF userAt = NoObject THEN Fresh ELSE userAt IN
     /\ userAt' = o
     /\ Hold(l, "user", o)
     /\ count' = IF userAt = NoObject THEN [count EXCEPT ![o] = 0] ELSE count
  /\ Advance(l, "count_user")
  /\ UNCHANGED <<explicit, limited, policies, cidrAt, shareAt, gauge, cleaner>>

CountUser(l) ==
  /\ leasePc[l] = "count_user"
  /\ CountUp(held[l]["user"])
  /\ GaugeUp("user")
  /\ Advance(l, "find_cidr")
  /\ UNCHANGED <<explicit, limited, policies, userAt, cidrAt, shareAt, held, cleaner>>

FindCidr(l) ==
  /\ leasePc[l] = "find_cidr"
  /\ LET o == IF cidrAt = NoObject THEN Fresh ELSE cidrAt IN
     /\ cidrAt' = o
     /\ Hold(l, "cidr", o)
     /\ \/ /\ cidrAt = NoObject
           /\ count' = [count EXCEPT ![o] = 0]
           /\ shareAt' = [shareAt EXCEPT ![o] = NoObject]
        \/ /\ cidrAt # NoObject
           /\ UNCHANGED <<count, shareAt>>
  /\ Advance(l, "count_cidr")
  /\ UNCHANGED <<explicit, limited, policies, userAt, gauge, cleaner>>

CountCidr(l) ==
  /\ leasePc[l] = "count_cidr"
  /\ CountUp(held[l]["cidr"])
  /\ GaugeUp("cidr")
  /\ Advance(l, "find_share")
  /\ UNCHANGED <<explicit, limited, policies, userAt, cidrAt, shareAt, held, cleaner>>

\* acquire_user_share
FindShare(l) ==
  /\ leasePc[l] = "find_share"
  /\ LET b == held[l]["cidr"]
         o == IF shareAt[b] = NoObject THEN Fresh ELSE shareAt[b] IN
     /\ shareAt' = [shareAt EXCEPT ![b] = o]
     /\ Hold(l, "share", o)
     /\ count' = IF shareAt[b] = NoObject THEN [count EXCEPT ![o] = 0] ELSE count
  /\ Advance(l, "count_share")
  /\ UNCHANGED <<explicit, limited, policies, userAt, cidrAt, gauge, cleaner>>

CountShare(l) ==
  /\ leasePc[l] = "count_share"
  /\ CountUp(held[l]["share"])
  /\ Advance(l, "leased")
  /\ UNCHANGED <<explicit, limited, policies, userAt, cidrAt, shareAt, gauge, held, cleaner>>

-----------------------------------------------------------------------------
\* Drop for TrafficLease: the user's bucket first.
DropUser(l) ==
  /\ leasePc[l] = "leased"
  /\ \/ /\ held[l]["user"] # NoObject
        /\ CountDown(held[l]["user"])
        /\ GaugeDown("user")
     \/ /\ held[l]["user"] = NoObject
        /\ UNCHANGED <<count, gauge>>
  /\ Advance(l, "drop_share")
  /\ UNCHANGED <<explicit, limited, policies, userAt, cidrAt, shareAt, held, cleaner>>

\* release_user_share: the count, then remove_if, whose test and removal are
\* two accesses to the registry.
DropShare(l) ==
  /\ leasePc[l] = "drop_share"
  /\ CountDown(held[l]["share"])
  /\ Advance(l, "test_share")
  /\ UNCHANGED <<explicit, limited, policies, userAt, cidrAt, shareAt, gauge, held, cleaner>>

ShareIsIdle(l) ==
  shareAt[held[l]["cidr"]] = held[l]["share"] /\ count[held[l]["share"]] = 0

TestShare(l) ==
  /\ leasePc[l] = "test_share"
  /\ \/ ShareIsIdle(l) /\ Advance(l, "remove_share")
     \/ ~ShareIsIdle(l) /\ Advance(l, "drop_cidr")
  /\ UNCHANGED <<explicit, limited, policies, userAt, cidrAt, shareAt, count, gauge, held, cleaner>>

RemoveShare(l) ==
  /\ leasePc[l] = "remove_share"
  /\ shareAt' = [shareAt EXCEPT ![held[l]["cidr"]] = NoObject]
  /\ Advance(l, "drop_cidr")
  /\ UNCHANGED <<explicit, limited, policies, userAt, cidrAt, count, gauge, held, cleaner>>

ForgetGaugeDown(l) == UNCHANGED gauge
CidrGaugeDown(l) == GaugeDown("cidr")
DropCidr(l) ==
  /\ leasePc[l] = "drop_cidr"
  /\ CountDown(held[l]["cidr"])
  /\ CidrGaugeDown(l)
  /\ held' = [held EXCEPT ![l] = [s \in Slots |-> NoObject]]
  /\ Advance(l, "none")
  /\ UNCHANGED <<explicit, limited, policies, userAt, cidrAt, shareAt, cleaner>>

-----------------------------------------------------------------------------
\* maybe_cleanup, by whoever finds the interval over: it loads the policy,
\* then visits one registry after the other.  retain holds the lock of an
\* entry while it tests it.
StartCleanup ==
  /\ cleaner.step = "idle"
  /\ cleaner' = [step |-> "users", limited |-> limited]
  /\ UNCHANGED <<explicit, limited, policies, userAt, cidrAt, shareAt, count, gauge, leasePc, held>>

KeepUser == count[userAt] > 0 \/ cleaner.limited
CleanupUsers ==
  /\ cleaner.step = "users"
  /\ userAt' = IF userAt # NoObject /\ KeepUser THEN userAt ELSE NoObject
  /\ cleaner' = [cleaner EXCEPT !.step = "cidrs"]
  /\ UNCHANGED <<explicit, limited, policies, cidrAt, shareAt, count, gauge, leasePc, held>>

KeepCidr == count[cidrAt] > 0 \/ explicit
\* The bucket's cleanup_idle_users runs before the bucket is tested; no auto
\* template's key is among the policy's cidr_rule_keys.
CleanupCidrs ==
  /\ cleaner.step = "cidrs"
  /\ \/ /\ cidrAt # NoObject
        /\ shareAt' = [shareAt EXCEPT ![cidrAt] =
                         IF @ # NoObject /\ count[@] > 0 THEN @ ELSE NoObject]
        /\ cidrAt' = IF KeepCidr THEN cidrAt ELSE NoObject
     \/ /\ cidrAt = NoObject
        /\ UNCHANGED <<cidrAt, shareAt>>
  /\ cleaner' = [step |-> "idle", limited |-> FALSE]
  /\ UNCHANGED <<explicit, limited, policies, userAt, count, gauge, leasePc, held>>

\* apply_policy adds or removes the user's limit.
ApplyPolicy ==
  /\ policies < MaxPolicies
  /\ policies' = policies + 1
  /\ limited' = ~limited
  /\ UNCHANGED <<explicit, userAt, cidrAt, shareAt, count, gauge, leasePc, held, cleaner>>

Acquire(l) == LoadPolicy(l) \/ FindUser(l) \/ CountUser(l) \/ FindCidr(l) \/ CountCidr(l)
              \/ FindShare(l) \/ CountShare(l)
Drop(l) == DropUser(l) \/ DropShare(l) \/ TestShare(l) \/ RemoveShare(l) \/ DropCidr(l)

RegistryNext ==
  \/ \E l \in Leases : Acquire(l) \/ Drop(l)
  \/ StartCleanup \/ CleanupUsers \/ CleanupCidrs
  \/ ApplyPolicy

RegistrySpec == RegistryInit /\ [][RegistryNext]_registryVars

-----------------------------------------------------------------------------
\* The slots a lease counts on at each of its steps.
Counted(l) ==
  LET user == IF held[l]["user"] = NoObject THEN {} ELSE {"user"} IN
  CASE leasePc[l] \in {"none", "find_user", "count_user"} -> {}
    [] leasePc[l] \in {"find_cidr", "count_cidr"} -> user
    [] leasePc[l] \in {"find_share", "count_share"} -> user \cup {"cidr"}
    [] leasePc[l] = "leased" -> user \cup {"cidr", "share"}
    [] leasePc[l] = "drop_share" -> {"cidr", "share"}
    [] leasePc[l] \in {"test_share", "remove_share", "drop_cidr"} -> {"cidr"}

CountsOn(o) == {l \in Leases : \E s \in Counted(l) : held[l][s] = o}

\* Every bucket and share somebody can still reach counts exactly the leases
\* that hold it, and the two active_leases gauges count the leases.
EveryLeaseCounted ==
  /\ \A o \in InUse : count[o] = Cardinality(CountsOn(o))
  /\ \A s \in {"user", "cidr"} : gauge[s] = Cardinality({l \in Leases : s \in Counted(l)})

Shared(slot) ==
  \A l, m \in Leases : NoObject \notin {held[l][slot], held[m][slot]} => held[l][slot] = held[m][slot]

\* While the policy that limits a user stands, all leases of that user draw
\* from one bucket, and so do all leases of a subnet with an explicit rule:
\* maybe_cleanup never splits a rate in two.
BucketsShared == (policies = 0 => Shared("user")) /\ (explicit => Shared("cidr"))

\* The last lease to go leaves no share of the user behind in the subnet's
\* bucket, although release_user_share tests and removes in two steps.
NoShareLeftBehind ==
  (\A l \in Leases : leasePc[l] = "none") /\ cidrAt # NoObject => shareAt[cidrAt] = NoObject

\* Buckets, shares and gauges count exactly the leases that hold them, through
\* every interleaving of acquire_lease, Drop, apply_policy and maybe_cleanup;
\* while a policy stands, the leases of a user, and those of a subnet with an
\* explicit rule, draw from one bucket; the last lease leaves no share behind.
CountsExact == EveryLeaseCounted /\ BucketsShared /\ NoShareLeftBehind

\* What docs/Config_params/CONFIG_PARAMS.en.md says of auto templates: there
\* is one bucket per matched source subnet, so that the cap is the subnet's.
OneBucketPerSubnet ==
  \A l, m \in Leases : ~explicit /\ leasePc[l] = "leased" /\ leasePc[m] = "leased"
                       => held[l]["cidr"] = held[m]["cidr"]

-----------------------------------------------------------------------------
(***************************************************************************)
(* One direction of a lease: what a relay sends is taken from its user's   *)
(* bucket, then from its subnet's bucket, where the users of the subnet    *)
(* have fair shares and may borrow.  What the subnet does not grant goes   *)
(* back to the user, and what the relay does not write goes back to both.  *)
(* A bucket operation is one step here; its atomics are modelled below.    *)
(***************************************************************************)
CONSTANTS
  Users,    \* users behind the subnet
  RelayTasks, \* their relays
  Owner,    \* relay -> user
  UserCap,  \* bytes per epoch of each user's bucket
  CidrCap,  \* bytes per epoch of the subnet's bucket
  Borrow,   \* MAX_BORROW_CHUNK_BYTES
  Sends,    \* sizes the relays ask for
  LeaseEpochs \* bound on the clock

ASSUME LeaseAssumption ==
  /\ IsFiniteSet(RelayTasks) /\ Owner \in [RelayTasks -> Users]
  /\ UserCap \in Nat /\ CidrCap \in Nat /\ Borrow \in Nat /\ Sends \subseteq Nat

VARIABLES
  leaseNow, \* current_epoch()
  user,   \* user -> its bucket: epoch, used
  cidr,   \* the subnet's bucket: epoch, used, active_users
  share,  \* user -> its share of the subnet's bucket: epoch, used
  task,   \* relay -> its step, the user's and the subnet's grant
  sent,   \* user -> bytes written since its bucket was last cleared
  passed  \* bytes the subnet granted and did not get back

leaseVars == <<leaseNow, user, cidr, share, task, sent, passed>>

AtLeastOne(n) == IF n = 0 THEN 1 ELSE n

Idle == [step |-> "idle", user |-> 0, cidr |-> 0]

LeaseInit ==
  /\ leaseNow = 0
  /\ user = [u \in Users |-> [epoch |-> 0, used |-> 0]]
  /\ cidr = [epoch |-> 0, used |-> 0, active |-> 0]
  /\ share = [u \in Users |-> [epoch |-> 0, used |-> 0]]
  /\ task = [t \in RelayTasks |-> Idle]
  /\ sent = [u \in Users |-> 0]
  /\ passed = 0

LeaseTick ==
  /\ leaseNow < LeaseEpochs
  /\ leaseNow' = leaseNow + 1
  /\ UNCHANGED <<user, cidr, share, task, sent, passed>>

UserGrant(n, debit) == Least(n, SaturatingSub(UserCap, debit))

\* UserBucket::try_consume, which opens try_consume of the lease.
ConsumeUser(t, n) ==
  LET u == Owner[t]
      stale == user[u].epoch < leaseNow
      debit == IF stale THEN 0 ELSE user[u].used
      grant == UserGrant(n, debit) IN
  /\ task[t].step = "idle"
  /\ user' = [user EXCEPT ![u] = [epoch |-> leaseNow, used |-> debit + grant]]
  /\ sent' = [sent EXCEPT ![u] = IF stale THEN 0 ELSE @]
  /\ task' = [task EXCEPT ![t] = IF grant = 0 THEN Idle
                                 ELSE [step |-> "cidr", user |-> grant, cidr |-> 0]]
  /\ UNCHANGED <<leaseNow, cidr, share, passed>>

\* CidrDirectionBucket::try_consume: the first request of a user in an epoch
\* makes it one of the active users, among whom the cap is split.
CidrGrant(asked, fair, own, total) ==
  Least(SaturatingSub(CidrCap, total),
        IF own < fair THEN Least(asked, fair - own) ELSE Least(asked, Borrow))

\* sync_epoch of the subnet's bucket.
ConsumeEpochAlways == [epoch |-> leaseNow, used |-> 0, active |-> 0]
ConsumeEpoch ==
  IF cidr.epoch < leaseNow THEN [epoch |-> leaseNow, used |-> 0, active |-> 0] ELSE cidr

ConsumeCidr(t) ==
  LET u == Owner[t]
      bucket == ConsumeEpoch
      joins == share[u].epoch < leaseNow
      active == bucket.active + (IF joins THEN 1 ELSE 0)
      own == IF joins THEN 0 ELSE share[u].used
      fair == AtLeastOne(CidrCap \div AtLeastOne(active))
      grant == CidrGrant(task[t].user, fair, own, bucket.used) IN
  /\ task[t].step = "cidr"
  /\ cidr' = [bucket EXCEPT !.used = @ + grant, !.active = active]
  /\ share' = [share EXCEPT ![u] = [epoch |-> leaseNow, used |-> own + grant]]
  /\ task' = [task EXCEPT ![t].step = "settle", ![t].cidr = grant]
  /\ passed' = passed + grant
  /\ UNCHANGED <<leaseNow, user, sent>>

RefundUser(u, n) == user' = [user EXCEPT ![u].used = SaturatingSub(@, n)]
RefundRefusal(t) == RefundUser(Owner[t], task[t].user - task[t].cidr)

\* The user gets back what the subnet refused.
Settle(t) ==
  /\ task[t].step = "settle"
  /\ RefundRefusal(t)
  /\ task' = [task EXCEPT ![t] = IF task[t].cidr = 0 THEN Idle
                                 ELSE [step |-> "write", user |-> task[t].cidr, cidr |-> task[t].cidr]]
  /\ UNCHANGED <<leaseNow, cidr, share, sent, passed>>

\* The relay writes part of the grant and refunds n bytes to both buckets.
Write(t, n) ==
  LET u == Owner[t] IN
  /\ task[t].step = "write"
  /\ n <= task[t].cidr
  /\ RefundUser(u, n)
  /\ cidr' = [cidr EXCEPT !.used = SaturatingSub(@, n)]
  /\ share' = [share EXCEPT ![u].used = SaturatingSub(@, n)]
  /\ sent' = [sent EXCEPT ![u] = @ + task[t].cidr - n]
  /\ passed' = passed - n
  /\ task' = [task EXCEPT ![t] = Idle]
  /\ UNCHANGED leaseNow

LeaseNext ==
  \/ LeaseTick
  \/ \E t \in RelayTasks : \/ \E n \in Sends : ConsumeUser(t, n)
                      \/ ConsumeCidr(t) \/ Settle(t)
                      \/ \E n \in 0..UserCap : Write(t, n)

LeaseSpec == LeaseInit /\ [][LeaseNext]_leaseVars

-----------------------------------------------------------------------------
\* What the relays of a user still hold of its bucket.
Relays(u) == {t \in RelayTasks : Owner[t] = u}
Holding(relays, u) == SumOver(Relays(u), [t \in Relays(u) |-> relays[t].user])

\* A user pays for nothing but what its relays wrote or still hold: bytes the
\* subnet's bucket refused are never left charged to the user's own bucket.
ThrottledBytesReturned == \A u \in Users : user[u].used <= sent[u] + Holding(task, u)

\* All users of the subnet together get at most one cap per epoch begun, fair
\* shares and borrowing included, and a user pays only for what it gets.
SubnetRate == passed <= CidrCap * (leaseNow + 1) /\ ThrottledBytesReturned

-----------------------------------------------------------------------------
(***************************************************************************)
(* One DirectionBucket: relays consume from a budget that a new epoch      *)
(* refills, and refund what they could not write.  The bucket is two       *)
(* atomics and no lock, so every load, store and compare-and-swap is a     *)
(* step of its own: the winner of a new epoch clears the budget only some  *)
(* time after the others can see that epoch.                               *)
(***************************************************************************)
CONSTANTS
  Tasks,    \* relays that share the bucket
  Caps,     \* budgets per epoch a policy may set; 0 is no limit
  MaxCap,   \* a bound on them
  Requests, \* sizes the relays ask for
  MaxEpoch, \* bound on the clock
  MaxFree   \* bound on free

ASSUME BucketAssumption ==
  /\ IsFiniteSet(Tasks)
  /\ MaxCap \in Nat \ {0}
  /\ Caps \subseteq 0..MaxCap
  /\ Requests \subseteq Nat \ {0}
  /\ MaxEpoch \in Nat /\ MaxFree \in Nat

VARIABLES
  now,     \* current_epoch()
  epoch,   \* the bucket's epoch
  used,    \* the bucket's used
  cap,     \* bytes_per_epoch of the bucket's rate
  pc,      \* the next step of each task
  mine,    \* the epoch a task read from the clock
  seen,    \* the value its last load returned
  want,    \* the bytes it asks for
  limit,   \* the cap it read
  got,     \* the bytes it was granted and has not written
  net,     \* bytes charged and not refunded, over all tasks and epochs
  free,    \* bytes refunded that were granted without a limit
  resets   \* how often used was cleared

bucketVars == <<now, epoch, used, cap, pc, mine, seen, want, limit, got, net, free, resets>>
locals == <<mine, want, limit, got>>
ghosts == <<net, free, resets>>

Goto(t, step) == pc' = [pc EXCEPT ![t] = step]

-----------------------------------------------------------------------------
BucketInit ==
  /\ now = 0 /\ epoch = 0 /\ used = 0
  /\ cap \in Caps
  /\ pc = [t \in Tasks |-> "idle"]
  /\ mine = [t \in Tasks |-> 0]
  /\ seen = [t \in Tasks |-> 0]
  /\ want = [t \in Tasks |-> 0]
  /\ limit = [t \in Tasks |-> 0]
  /\ got = [t \in Tasks |-> 0]
  /\ net = 0 /\ free = 0 /\ resets = 0

Tick ==
  /\ now < MaxEpoch
  /\ now' = now + 1
  /\ UNCHANGED <<epoch, used, cap, pc, seen, locals, ghosts>>

\* set_rates, by the acquire_lease that follows a new policy.
SetRates(c) ==
  /\ cap' = c
  /\ UNCHANGED <<now, epoch, used, pc, seen, locals, ghosts>>

\* try_consume: without a limit everything is granted and nothing charged.
Begin(t, n) ==
  /\ pc[t] = "idle"
  /\ limit' = [limit EXCEPT ![t] = cap]
  /\ want' = [want EXCEPT ![t] = n]
  /\ \/ /\ cap = 0
        /\ got' = [got EXCEPT ![t] = n]
        /\ Goto(t, "write")
        /\ UNCHANGED mine
     \/ /\ cap # 0
        /\ mine' = [mine EXCEPT ![t] = now]
        /\ Goto(t, "sync")
        /\ UNCHANGED got
  /\ UNCHANGED <<now, epoch, used, cap, seen, ghosts>>

\* sync_epoch: only a task with a newer epoch tries to install it.
Sync(t) ==
  /\ pc[t] = "sync"
  /\ seen' = [seen EXCEPT ![t] = epoch]
  /\ Goto(t, IF epoch < mine[t] THEN "swap" ELSE "load")
  /\ UNCHANGED <<now, epoch, used, cap, locals, ghosts>>

SwapWinsUnchecked(t) == TRUE

\* compare_exchange on the epoch: the loser goes on with the budget as it is.
SwapWins(t) == epoch = seen[t]
Swap(t) ==
  /\ pc[t] = "swap"
  /\ \/ SwapWins(t) /\ epoch' = mine[t] /\ Goto(t, "clear")
     \/ ~SwapWins(t) /\ epoch' = epoch /\ Goto(t, "load")
  /\ UNCHANGED <<now, used, cap, seen, locals, ghosts>>

Clear(t) ==
  /\ pc[t] = "clear"
  /\ used' = 0
  /\ resets' = resets + 1
  /\ Goto(t, "load")
  /\ UNCHANGED <<now, epoch, cap, seen, locals, net, free>>

\* An exhausted budget grants nothing.
Load(t) ==
  /\ pc[t] = "load"
  /\ \/ used >= limit[t] /\ Goto(t, "idle") /\ UNCHANGED seen
     \/ used < limit[t] /\ Goto(t, "add") /\ seen' = [seen EXCEPT ![t] = used]
  /\ UNCHANGED <<now, epoch, used, cap, locals, ghosts>>

Grant(t) == Least(want[t], limit[t] - seen[t])

\* compare_exchange on used; the loser loads again.
Add(t) ==
  /\ pc[t] = "add"
  /\ \/ /\ used = seen[t]
        /\ used' = used + Grant(t)
        /\ got' = [got EXCEPT ![t] = Grant(t)]
        /\ net' = net + Grant(t)
        /\ Goto(t, "write")
     \/ /\ used # seen[t]
        /\ Goto(t, "load")
        /\ UNCHANGED <<used, got, net>>
  /\ UNCHANGED <<now, epoch, cap, mine, seen, want, limit, free, resets>>

\* The relay writes part of its grant and refunds the rest, in whatever epoch
\* that is by now.
Refund(t, n) ==
  /\ pc[t] = "write"
  /\ n <= got[t]
  /\ used' = SaturatingSub(used, n)
  /\ \/ limit[t] # 0 /\ net' = net - n /\ free' = free
     \/ limit[t] = 0 /\ free + n <= MaxFree /\ free' = free + n /\ net' = net
  /\ got' = [got EXCEPT ![t] = 0]
  /\ Goto(t, "idle")
  /\ UNCHANGED <<now, epoch, cap, mine, seen, want, limit, resets>>

Step(t) ==
  \/ \E n \in Requests : Begin(t, n)
  \/ Sync(t) \/ Swap(t) \/ Clear(t) \/ Load(t) \/ Add(t)
  \/ \E n \in 0..want[t] : Refund(t, n)

BucketNext ==
  \/ Tick
  \/ \E c \in Caps : SetRates(c)
  \/ \E t \in Tasks : Step(t)

BucketSpec == BucketInit /\ [][BucketNext]_bucketVars

-----------------------------------------------------------------------------
Steps == {"idle", "sync", "swap", "clear", "load", "add", "write"}

TypeOK ==
  /\ now \in Nat /\ epoch \in Nat /\ used \in Nat /\ cap \in Caps
  /\ pc \in [Tasks -> Steps]
  /\ mine \in [Tasks -> Nat] /\ seen \in [Tasks -> Nat]
  /\ want \in [Tasks -> Nat] /\ limit \in [Tasks -> 0..MaxCap] /\ got \in [Tasks -> Nat]
  /\ net \in Int /\ free \in Nat /\ resets \in Nat

\* Over any number of epochs the bytes charged to the bucket and not refunded
\* never exceed one largest budget per epoch begun, although the reset of
\* try_consume races with grants, a refund may land in a later epoch than its
\* grant, and the rate changes.  A refund of bytes that were granted without a
\* limit, and so never charged, widens this by as much.
AmortizedRate == net <= MaxCap * (now + 1) + free

Clearing == {t \in Tasks : pc[t] = "clear"}

\* What makes it so: the budget covers everything granted since the last
\* reset, and an epoch is reset at most once.
BucketInv ==
  /\ TypeOK
  /\ used <= MaxCap
  /\ \A t \in Tasks : pc[t] = "add" => seen[t] < limit[t]
  /\ \A t \in Tasks : pc[t] = "swap" => seen[t] < mine[t]
  /\ \A t \in Tasks : mine[t] <= now
  /\ net <= used + MaxCap * resets + free
  /\ resets + Cardinality(Clearing) <= epoch
  /\ epoch <= now
=============================================================================
