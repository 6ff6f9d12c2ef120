------------------------- MODULE UserAdmission_proofs -------------------------
(***************************************************************************)
(* Admission keeps its books for any users, addresses, tasks and limits.   *)
(*                                                                         *)
(* AdmissionExact is not inductive: that a release is applied once needs   *)
(* to know that a task that is not draining holds no batch, that a counted *)
(* connection is given back once needs to know at which steps a task has   *)
(* one, and the limit is kept by the addresses with an active count, which *)
(* deferred releases make more than those with a session.                  *)
(***************************************************************************)
EXTENDS UserAdmission

Tasks == Sessions \cup Drainers
RecentStates == {"none", "fresh", "stale"}
CountedSteps == {"counted", "draining", "adding", "rollback", "admitted", "live", "releasing",
                 "removed"}

TaskOK ==
  /\ pc \in [Sessions -> Steps]
  /\ entry \in [Sessions -> Entries \cup {NoEntry}]
  /\ \A s \in Sessions : pc[s] # "idle" => entry[s] \in Entries

QueueOK ==
  /\ queue \in [Entries -> Nat] /\ batch \in [Tasks -> [Entries -> Nat]]
  /\ \A s \in Sessions : pc[s] # "draining" => batch[s] = NoBatch

TrackerOK ==
  /\ active \in [Entries -> Nat] /\ recent \in [Entries -> RecentStates]
  /\ EntryCountsExact

ConnectsOK ==
  /\ connects \in [Users -> Nat] /\ counted \subseteq Sessions
  /\ \A s \in counted : pc[s] \in CountedSteps
  /\ "telemetry" \notin ops =>
       /\ telemetry /\ ConnectsExact
       /\ \A s \in Sessions : pc[s] \in CountedSteps => s \in counted

ReleasesOK == "delete" \notin ops => EveryReleaseAppliedOnce

LimitsOK ==
  /\ limit \in [Users -> {0, IpLimit}]
  /\ ops \cap {"delete", "mode"} = {} =>
       \A u \in Users :
         /\ "reload" \notin ops => limit[u] = IpLimit
         /\ mode \in {"active", "combined"} /\ AlwaysLimited =>
              Cardinality(ActiveIps(u)) <= LargestLimit

AdmissionInv == TaskOK /\ QueueOK /\ TrackerOK /\ ConnectsOK /\ ReleasesOK /\ LimitsOK

-----------------------------------------------------------------------------
(***************************************************************************)
(* The tables of the tracker are finite, and so is what is counted in them.*)
(***************************************************************************)
LEMMA EntriesFinite == IsFiniteSet(Entries)
  BY FS_Product, AdmissionAssumption DEF Entries

LEMMA SomeEntries ==
  ASSUME NEW S \in SUBSET Entries
  PROVE  IsFiniteSet(S) /\ Cardinality(S) \in Nat
  BY EntriesFinite, FS_Subset, FS_CardinalityType

LEMMA SomeSessions ==
  ASSUME NEW S \in SUBSET Sessions
  PROVE  IsFiniteSet(S) /\ Cardinality(S) \in Nat
  BY AdmissionAssumption, FS_Subset, FS_CardinalityType

LEMMA SomeIps ==
  ASSUME NEW S \in SUBSET Ips
  PROVE  IsFiniteSet(S) /\ Cardinality(S) \in Nat
  BY AdmissionAssumption, FS_Subset, FS_CardinalityType

(* What a set loses is subtracted from its size.                           *)
LEMMA CountLost ==
  ASSUME NEW S \in SUBSET Entries, NEW T \in SUBSET S
  PROVE  Cardinality(S \ T) = Cardinality(S) - Cardinality(T) /\ Cardinality(T) <= Cardinality(S)
<1>1. IsFiniteSet(S)
  BY SomeEntries
<1>2. S \cap T = T
  OBVIOUS
<1>3. Cardinality(S \ T) = Cardinality(S) - Cardinality(S \cap T)
  BY <1>1, FS_Difference
<1>4. Cardinality(T) <= Cardinality(S)
  BY <1>1, FS_Subset
<1> QED
  BY <1>2, <1>3, <1>4

LEMMA CountGained ==
  ASSUME NEW S \in SUBSET Entries, NEW e \in Entries, e \notin S
  PROVE  Cardinality(S \cup {e}) = Cardinality(S) + 1
  BY SomeEntries, FS_AddElement

-----------------------------------------------------------------------------
(***************************************************************************)
(* The tracker: active_entry_count and recent_entry_count.                 *)
(***************************************************************************)
(* A batch of releases lowers the counter by the entries it empties.       *)
LEMMA BatchCounted ==
  ASSUME TrackerOK, NEW b \in [Entries -> Nat], ApplyBatch(b)
  PROVE  TrackerOK'
<1> DEFINE Gone == {e \in Entries : active[e] > 0 /\ active'[e] = 0}
<1>1. active' \in [Entries -> Nat] /\ \A e \in Entries : active'[e] <= active[e]
  BY DEF TrackerOK, ApplyBatch, apply_active_cleanup, SaturatingSub
<1>2. active \in [Entries -> Nat] /\ activeCount = Cardinality(Queued(active))
  BY DEF TrackerOK, EntryCountsExact
<1>3. /\ Queued(active') = Queued(active) \ Gone
      /\ Queued(active) \in SUBSET Entries /\ Gone \in SUBSET Queued(active)
  BY <1>1, <1>2 DEF Queued
<1>4. activeCount' = SaturatingSub(activeCount, Cardinality(Gone)) /\ UNCHANGED <<recent, recentCount>>
  BY DEF ApplyBatch
<1> HIDE DEF Gone
<1>5. /\ Cardinality(Queued(active')) = Cardinality(Queued(active)) - Cardinality(Gone)
      /\ Cardinality(Gone) <= Cardinality(Queued(active))
  BY <1>3, CountLost
<1>6. Cardinality(Gone) \in Nat /\ Cardinality(Queued(active)) \in Nat
  BY <1>3, SomeEntries
<1>7. activeCount' = Cardinality(Queued(active'))
  BY <1>2, <1>4, <1>5, <1>6 DEF SaturatingSub
<1> QED
  BY <1>1, <1>4, <1>7 DEF TrackerOK, EntryCountsExact

(* Pruning forgets entries and lowers the counter by as many.              *)
LEMMA PruneCounted ==
  ASSUME TrackerOK, NEW U
  PROVE  /\ Pruned(U) \in [Entries -> RecentStates]
         /\ RecentCountOf(Pruned(U)) = Cardinality(Fresh(Pruned(U)))
<1> DEFINE r == Pruned(U)
<1>1. recent \in [Entries -> RecentStates] /\ recentCount = Cardinality(Fresh(recent))
  BY DEF TrackerOK, EntryCountsExact
<1>2. r \in [Entries -> RecentStates]
  BY <1>1 DEF Pruned, RecentStates
<1>3. Fresh(r) \in SUBSET Fresh(recent) /\ Fresh(recent) \in SUBSET Entries
  BY <1>1 DEF Pruned, Fresh
<1> HIDE DEF r
<1>4. Cardinality(Fresh(r)) <= Cardinality(Fresh(recent))
  BY <1>3, CountLost, Zenon
<1>5. Cardinality(Fresh(r)) \in Nat /\ Cardinality(Fresh(recent)) \in Nat
  BY <1>3, SomeEntries
<1>6. RecentCountOf(r) = Cardinality(Fresh(r))
  BY <1>1, <1>4, <1>5 DEF RecentCountOf, SaturatingSub
<1> QED
  BY <1>2, <1>6 DEF r

(* check_and_add, under the shard lock.                                    *)
LEMMA AddCounted ==
  ASSUME TrackerOK, TaskOK, NEW s \in Sessions, CheckAndAdd(s)
  PROVE  TrackerOK'
<1> DEFINE e == entry[s]
<1>1. e \in Entries
  BY DEF TaskOK, CheckAndAdd
<1>2. active \in [Entries -> Nat] /\ activeCount = Cardinality(Queued(active))
  BY DEF TrackerOK, EntryCountsExact
<1>3. PICK due \in BOOLEAN :
        LET r == Pruned(IF due THEN Users ELSE {e[1]}) IN
        \/ /\ active' = [active EXCEPT ![e] = @ + 1]
           /\ activeCount' = activeCount + (IF active[e] > 0 THEN 0 ELSE 1)
           /\ recent' = [r EXCEPT ![e] = "fresh"]
           /\ recentCount' = RecentCountOf(r) + (IF r[e] = "none" THEN 1 ELSE 0)
        \/ recent' = r /\ recentCount' = RecentCountOf(r) /\ UNCHANGED <<active, activeCount>>
  BY Zenon DEF CheckAndAdd
<1> DEFINE r == Pruned(IF due THEN Users ELSE {e[1]})
<1>4. r \in [Entries -> RecentStates] /\ RecentCountOf(r) = Cardinality(Fresh(r))
  BY PruneCounted
<1> HIDE DEF r, e
<1>5. CASE recent' = r /\ recentCount' = RecentCountOf(r) /\ UNCHANGED <<active, activeCount>>
  BY <1>2, <1>4, <1>5 DEF TrackerOK, EntryCountsExact
<1>6. CASE /\ active' = [active EXCEPT ![e] = @ + 1]
           /\ activeCount' = activeCount + (IF active[e] > 0 THEN 0 ELSE 1)
           /\ recent' = [r EXCEPT ![e] = "fresh"]
           /\ recentCount' = RecentCountOf(r) + (IF r[e] = "none" THEN 1 ELSE 0)
  <2>1. active' \in [Entries -> Nat] /\ recent' \in [Entries -> RecentStates]
    BY <1>1, <1>2, <1>4, <1>6 DEF RecentStates
  <2>2. Queued(active') = Queued(active) \cup {e} /\ Queued(active) \in SUBSET Entries
    BY <1>1, <1>2, <1>6 DEF Queued
  <2>3. e \in Queued(active) <=> active[e] > 0
    BY <1>1 DEF Queued
  <2>4. Fresh(recent') = Fresh(r) \cup {e} /\ Fresh(r) \in SUBSET Entries
    BY <1>1, <1>4, <1>6 DEF Fresh
  <2>5. e \in Fresh(r) <=> r[e] # "none"
    BY <1>1 DEF Fresh
  <2>6. activeCount' = Cardinality(Queued(active'))
    <3>1. CASE e \in Queued(active)
      <4>1. Queued(active') = Queued(active)
        BY <2>2, <3>1
      <4>2. Cardinality(Queued(active)) \in Nat
        BY <2>2, SomeEntries
      <4> QED
        BY <1>2, <1>6, <2>3, <3>1, <4>1, <4>2
    <3>2. CASE e \notin Queued(active)
      <4>1. Cardinality(Queued(active')) = Cardinality(Queued(active)) + 1
        BY <1>1, <2>2, <3>2, CountGained
      <4> QED
        BY <1>2, <1>6, <2>3, <3>2, <4>1
    <3> QED
      BY <3>1, <3>2
  <2>7. recentCount' = Cardinality(Fresh(recent'))
    <3>1. CASE e \in Fresh(r)
      <4>1. Fresh(recent') = Fresh(r)
        BY <2>4, <3>1
      <4>2. Cardinality(Fresh(r)) \in Nat
        BY <2>4, SomeEntries
      <4> QED
        BY <1>4, <1>6, <2>5, <3>1, <4>1, <4>2
    <3>2. CASE e \notin Fresh(r)
      <4>1. Cardinality(Fresh(recent')) = Cardinality(Fresh(r)) + 1
        BY <1>1, <2>4, <3>2, CountGained
      <4> QED
        BY <1>4, <1>6, <2>5, <3>2, <4>1, Zenon
    <3> QED
      BY <3>1, <3>2
  <2> QED
    BY <2>1, <2>6, <2>7 DEF TrackerOK, EntryCountsExact
<1> QED
  BY <1>3, <1>5, <1>6 DEF r

(* remove_ip, under the shard lock.                                        *)
LEMMA RemoveCounted ==
  ASSUME TrackerOK, TaskOK, NEW s \in Sessions, RemoveIp(s)
  PROVE  TrackerOK'
<1> DEFINE e == entry[s]
<1>1. e \in Entries
  BY DEF TaskOK, RemoveIp
<1>2. active \in [Entries -> Nat] /\ activeCount = Cardinality(Queued(active))
  BY DEF TrackerOK, EntryCountsExact
<1>3. PICK due \in BOOLEAN : recent' = Compacted(due) /\ recentCount' = RecentCountOf(recent')
  BY Zenon DEF RemoveIp
<1>4. recent' \in [Entries -> RecentStates] /\ recentCount' = Cardinality(Fresh(recent'))
  BY <1>3, PruneCounted DEF Compacted
<1>5. /\ active' = [active EXCEPT ![e] = SaturatingSub(@, 1)]
      /\ activeCount' = IF active[e] = 1 THEN SaturatingSub(activeCount, 1) ELSE activeCount
  BY Zenon DEF RemoveIp
<1> HIDE DEF e
<1>6. active' \in [Entries -> Nat]
  BY <1>1, <1>2, <1>5 DEF SaturatingSub
<1>7. Queued(active) \in SUBSET Entries /\ Cardinality(Queued(active)) \in Nat
  BY SomeEntries DEF Queued
<1>8. activeCount' = Cardinality(Queued(active'))
  <2>1. CASE active[e] = 1
    <3>1. Queued(active') = Queued(active) \ {e} /\ {e} \in SUBSET Queued(active)
      BY <1>1, <1>2, <1>5, <2>1 DEF Queued, SaturatingSub
    <3>2. /\ Cardinality(Queued(active')) = Cardinality(Queued(active)) - Cardinality({e})
          /\ Cardinality({e}) <= Cardinality(Queued(active))
      BY <1>7, <3>1, CountLost
    <3>3. Cardinality({e}) = 1
      BY FS_Singleton, Zenon
    <3> QED
      BY <1>2, <1>5, <1>7, <2>1, <3>2, <3>3 DEF SaturatingSub
  <2>2. CASE active[e] # 1
    <3>1. Queued(active') = Queued(active)
      BY <1>1, <1>2, <1>5, <2>2 DEF Queued, SaturatingSub
    <3> QED
      BY <1>2, <1>5, <2>2, <3>1
  <2> QED
    BY <2>1, <2>2
<1> QED
  BY <1>4, <1>6, <1>8 DEF TrackerOK, EntryCountsExact

(* clear_user_ips: the entries of the user, in both tables.                *)
LEMMA DeleteCounted ==
  ASSUME TrackerOK, NEW u \in Users, DeleteUser(u)
  PROVE  TrackerOK'
<1> DEFINE Own(A) == {u} \X A
<1>1. \A A \in SUBSET Ips : Cardinality(Own(A)) = Cardinality(A)
  <2> SUFFICES ASSUME NEW A \in SUBSET Ips PROVE Cardinality({u} \X A) = Cardinality(A)
    OBVIOUS
  <2>1. IsFiniteSet(A) /\ Cardinality(A) \in Nat
    BY SomeIps
  <2>2. IsFiniteSet({u}) /\ Cardinality({u}) = 1
    BY FS_Singleton, Zenon
  <2>3. Cardinality({u} \X A) = Cardinality({u}) * Cardinality(A)
    BY <2>1, <2>2, FS_Product, Zenon
  <2> QED
    BY <2>1, <2>2, <2>3
<1>2. /\ active \in [Entries -> Nat] /\ activeCount = Cardinality(Queued(active))
      /\ recent \in [Entries -> RecentStates] /\ recentCount = Cardinality(Fresh(recent))
  BY DEF TrackerOK, EntryCountsExact
<1>3. /\ active' = Without(active, u, 0) /\ recent' = Without(recent, u, "none")
      /\ activeCount' = SaturatingSub(activeCount, Cardinality(ActiveIps(u)))
      /\ recentCount' = SaturatingSub(recentCount, Cardinality(IpsIn(recent, u)))
  BY DEF DeleteUser
<1>4. active' \in [Entries -> Nat] /\ recent' \in [Entries -> RecentStates]
  BY <1>2, <1>3 DEF Without, RecentStates
<1>5. /\ Queued(active') = Queued(active) \ Own(ActiveIps(u))
      /\ Own(ActiveIps(u)) \in SUBSET Queued(active) /\ Queued(active) \in SUBSET Entries
      /\ ActiveIps(u) \in SUBSET Ips
  BY <1>2, <1>3 DEF Queued, Without, ActiveIps, Entries
<1>6. /\ Fresh(recent') = Fresh(recent) \ Own(IpsIn(recent, u))
      /\ Own(IpsIn(recent, u)) \in SUBSET Fresh(recent) /\ Fresh(recent) \in SUBSET Entries
      /\ IpsIn(recent, u) \in SUBSET Ips
  BY <1>2, <1>3 DEF Fresh, Without, IpsIn, Entries
<1> HIDE DEF Own
<1>7. activeCount' = Cardinality(Queued(active'))
  <2>1. /\ Cardinality(Queued(active')) = Cardinality(Queued(active)) - Cardinality(Own(ActiveIps(u)))
        /\ Cardinality(Own(ActiveIps(u))) <= Cardinality(Queued(active))
    BY <1>5, CountLost
  <2>2. Cardinality(Own(ActiveIps(u))) = Cardinality(ActiveIps(u))
    BY <1>1, <1>5
  <2>3. Cardinality(Queued(active)) \in Nat /\ Cardinality(ActiveIps(u)) \in Nat
    BY <1>5, SomeEntries, SomeIps
  <2> QED
    BY <1>2, <1>3, <2>1, <2>2, <2>3 DEF SaturatingSub
<1>8. recentCount' = Cardinality(Fresh(recent'))
  <2>1. /\ Cardinality(Fresh(recent')) = Cardinality(Fresh(recent)) - Cardinality(Own(IpsIn(recent, u)))
        /\ Cardinality(Own(IpsIn(recent, u))) <= Cardinality(Fresh(recent))
    BY <1>6, CountLost
  <2>2. Cardinality(Own(IpsIn(recent, u))) = Cardinality(IpsIn(recent, u))
    BY <1>1, <1>6
  <2>3. Cardinality(Fresh(recent)) \in Nat /\ Cardinality(IpsIn(recent, u)) \in Nat
    BY <1>6, SomeEntries, SomeIps
  <2> QED
    BY <1>2, <1>3, <2>1, <2>2, <2>3 DEF SaturatingSub
<1> QED
  BY <1>4, <1>7, <1>8 DEF TrackerOK, EntryCountsExact

LEMMA TrackerStep ==
  ASSUME AdmissionInv, [Next]_vars
  PROVE  TrackerOK'
<1> USE DEF AdmissionInv
<1>1. CASE UNCHANGED trackerVars
  BY <1>1 DEF trackerVars, TrackerOK, EntryCountsExact
<1>2. ASSUME NEW s \in Sessions, DrainApply(s) PROVE TrackerOK'
  <2>1. batch[s] \in [Entries -> Nat] /\ ApplyBatch(batch[s])
    BY <1>2 DEF QueueOK, Tasks, DrainApply
  <2> QED
    BY <2>1, BatchCounted
<1>3. ASSUME NEW s \in Sessions, CheckAndAdd(s) PROVE TrackerOK'
  BY <1>3, AddCounted
<1>4. ASSUME NEW s \in Sessions, RemoveIp(s) PROVE TrackerOK'
  BY <1>4, RemoveCounted
<1>5. ASSUME NEW t \in Drainers, ApplyTaken(t) PROVE TrackerOK'
  <2>1. batch[t] \in [Entries -> Nat] /\ ApplyBatch(batch[t])
    BY <1>5 DEF QueueOK, Tasks, ApplyTaken
  <2> QED
    BY <2>1, BatchCounted
<1>6. CASE Compact
  <2>1. /\ recent' = Pruned(Users) /\ recentCount' = RecentCountOf(recent')
        /\ UNCHANGED <<active, activeCount>>
    BY <1>6 DEF Compact, Compacted
  <2>2. recent' \in [Entries -> RecentStates] /\ recentCount' = Cardinality(Fresh(recent'))
    BY <2>1, PruneCounted
  <2> QED
    BY <2>1, <2>2 DEF TrackerOK, EntryCountsExact
<1>7. ASSUME NEW e \in Entries, Age(e) PROVE TrackerOK'
  <2>1. /\ recent[e] = "fresh" /\ recent' = [recent EXCEPT ![e] = "stale"]
        /\ UNCHANGED <<active, activeCount, recentCount>>
    BY <1>7 DEF Age
  <2>2. recent' \in [Entries -> RecentStates] /\ Fresh(recent') = Fresh(recent)
    BY <2>1 DEF TrackerOK, RecentStates, Fresh
  <2> QED
    BY <2>1, <2>2 DEF TrackerOK, EntryCountsExact
<1>8. ASSUME NEW u \in Users, DeleteUser(u) PROVE TrackerOK'
  BY <1>8, DeleteCounted
<1>9. \/ UNCHANGED trackerVars
      \/ \E s \in Sessions : DrainApply(s) \/ CheckAndAdd(s) \/ RemoveIp(s)
      \/ \E t \in Drainers : ApplyTaken(t)
      \/ Compact \/ (\E e \in Entries : Age(e)) \/ (\E u \in Users : DeleteUser(u))
  BY Zenon DEF Next, vars, trackerVars, TaskStep, Maintenance, Admin, Authenticate, RefuseAccount,
       TryAcquire, DrainTake, Rollback, Register, Finish, ReleaseConnection, Abandon,
       enqueue_cleanup, TakeBatch, DisableUser, CancelUserSessions, EnableUser, ReloadClear,
       ReloadInsert, set_limit_policy, SwitchTelemetry
<1> QED
  BY <1>1, <1>2, <1>3, <1>4, <1>5, <1>6, <1>7, <1>8, <1>9, Zenon

-----------------------------------------------------------------------------
(***************************************************************************)
(* The tasks and their batches.                                            *)
(***************************************************************************)
\* A task goes on to another step, or ends.
GoesOn(s) == \E step \in Steps \ {"idle"} : pc[s] # "idle" /\ Goto(s, step)

LEMMA TaskMoves ==
  ASSUME [Next]_vars
  PROVE  \/ UNCHANGED <<pc, entry>>
         \/ \E s \in Sessions : GoesOn(s) \/ Leave(s)
         \/ \E s \in Sessions, e \in Entries : Authenticate(s, e)
<1>1. ASSUME NEW s \in Sessions, TryAcquire(s) PROVE GoesOn(s) \/ Leave(s)
  BY <1>1, Zenon DEF TryAcquire, GoesOn, Steps
<1>2. ASSUME NEW s \in Sessions, DrainTake(s) PROVE GoesOn(s)
  BY <1>2, Zenon DEF DrainTake, GoesOn, Steps
<1>3. ASSUME NEW s \in Sessions, DrainApply(s) PROVE GoesOn(s)
  BY <1>3, Zenon DEF DrainApply, GoesOn, Steps
<1>4. ASSUME NEW s \in Sessions, CheckAndAdd(s) PROVE GoesOn(s)
  BY <1>4, Zenon DEF CheckAndAdd, GoesOn, Steps
<1>5. ASSUME NEW s \in Sessions, Register(s) \/ Finish(s) \/ RemoveIp(s) \/ Abandon(s) PROVE GoesOn(s)
  BY <1>5, Zenon DEF Register, Finish, RemoveIp, Abandon, GoesOn, Steps
<1>6. ASSUME NEW s \in Sessions,
             RefuseAccount(s) \/ Rollback(s) \/ ReleaseConnection(s) \/ enqueue_cleanup(s)
      PROVE  Leave(s)
  BY <1>6, Zenon DEF RefuseAccount, Rollback, ReleaseConnection, enqueue_cleanup
<1>7. ASSUME Maintenance \/ Admin \/ (\E e \in Entries : Age(e)) \/ UNCHANGED vars
      PROVE  UNCHANGED <<pc, entry>>
  BY <1>7, Zenon DEF Maintenance, Admin, Age, vars, TakeBatch, ApplyTaken, Compact, DisableUser,
       CancelUserSessions, EnableUser, DeleteUser, ReloadClear, ReloadInsert, set_limit_policy,
       SwitchTelemetry
<1> QED
  BY <1>1, <1>2, <1>3, <1>4, <1>5, <1>6, <1>7, Zenon DEF Next, TaskStep

LEMMA TaskKept ==
  ASSUME AdmissionInv, [Next]_vars
  PROVE  TaskOK'
<1>1. TaskOK
  BY DEF AdmissionInv
<1>2. CASE UNCHANGED <<pc, entry>>
  BY <1>1, <1>2 DEF TaskOK
<1>3. ASSUME NEW s \in Sessions, GoesOn(s) PROVE TaskOK'
  BY <1>1, <1>3 DEF TaskOK, GoesOn, Goto
<1>4. ASSUME NEW s \in Sessions, Leave(s) PROVE TaskOK'
  BY <1>1, <1>4 DEF TaskOK, Leave, Steps
<1>5. ASSUME NEW s \in Sessions, NEW e \in Entries, Authenticate(s, e) PROVE TaskOK'
  BY <1>1, <1>5 DEF TaskOK, Authenticate, Steps
<1> QED
  BY <1>2, <1>3, <1>4, <1>5, TaskMoves

(* A batch is taken on the way to "draining" and applied on the way out.   *)
LEMMA QueueKept ==
  ASSUME AdmissionInv, [Next]_vars
  PROVE  QueueOK'
<1>1. QueueOK /\ TaskOK
  BY DEF AdmissionInv
<1>2. queue \in [Entries -> Nat] /\ batch \in [Tasks -> [Entries -> Nat]] /\ pc \in [Sessions -> Steps]
  BY <1>1 DEF QueueOK, TaskOK
<1>3. NoBatch \in [Entries -> Nat] /\ Sessions \subseteq Tasks /\ Drainers \subseteq Tasks
      /\ Sessions \cap Drainers = {}
  BY AdmissionAssumption DEF NoBatch, Tasks
<1>4. ASSUME NEW s \in Sessions, DrainTake(s), ~UNCHANGED queueVars PROVE QueueOK'
  <2> DEFINE mine == [e \in Entries |-> IF e[1] = User(s) THEN queue[e] ELSE 0]
  <2>1. /\ queue' = [e \in Entries |-> queue[e] - mine[e]]
        /\ batch' = [batch EXCEPT ![s] = mine] /\ pc' = [pc EXCEPT ![s] = "draining"]
    BY <1>4, Zenon DEF DrainTake, Goto
  <2>2. mine \in [Entries -> Nat] /\ \A e \in Entries : mine[e] <= queue[e]
    BY <1>2
  <2> HIDE DEF mine
  <2>3. queue' \in [Entries -> Nat]
    BY <1>2, <2>1, <2>2
  <2>4. batch' \in [Tasks -> [Entries -> Nat]]
    BY <1>2, <1>3, <2>1, <2>2
  <2>5. \A x \in Sessions : pc'[x] # "draining" => batch'[x] = NoBatch
    BY <1>1, <1>2, <1>3, <2>1 DEF QueueOK
  <2> QED
    BY <2>3, <2>4, <2>5 DEF QueueOK
<1>5. ASSUME NEW s \in Sessions, DrainApply(s) PROVE QueueOK'
  <2>1. queue' = queue /\ batch' = [batch EXCEPT ![s] = NoBatch] /\ pc' = [pc EXCEPT ![s] = "adding"]
    BY <1>5, Zenon DEF DrainApply, Goto
  <2>2. batch' \in [Tasks -> [Entries -> Nat]]
    BY <1>2, <1>3, <2>1
  <2>3. \A x \in Sessions : pc'[x] # "draining" => batch'[x] = NoBatch
    BY <1>1, <1>2, <1>3, <2>1 DEF QueueOK
  <2> QED
    BY <1>2, <2>1, <2>2, <2>3 DEF QueueOK
<1>6. ASSUME NEW s \in Sessions, enqueue_cleanup(s) PROVE QueueOK'
  <2>1. /\ entry[s] \in Entries /\ queue' = [queue EXCEPT ![entry[s]] = @ + 1] /\ batch' = batch
        /\ pc[s] = "dropping" /\ pc' = [pc EXCEPT ![s] = "idle"]
    BY <1>1, <1>6 DEF enqueue_cleanup, Leave, TaskOK
  <2>2. queue' \in [Entries -> Nat]
    BY <1>2, <2>1
  <2>3. \A x \in Sessions : pc'[x] # "draining" => batch'[x] = NoBatch
    BY <1>1, <1>2, <2>1 DEF QueueOK
  <2> QED
    BY <1>2, <2>1, <2>2, <2>3 DEF QueueOK
<1>7. ASSUME NEW t \in Drainers, TakeBatch(t) PROVE QueueOK'
  <2>1. PICK taken \in SUBSET Queued(queue) :
          /\ queue' = [e \in Entries |-> IF e \in taken THEN 0 ELSE queue[e]]
          /\ batch' = [batch EXCEPT ![t] = [e \in Entries |-> IF e \in taken THEN queue[e] ELSE 0]]
    BY <1>7, Zenon DEF TakeBatch
  <2>2. queue' \in [Entries -> Nat] /\ batch' \in [Tasks -> [Entries -> Nat]]
    BY <1>2, <1>3, <2>1
  <2>3. \A x \in Sessions : pc'[x] = pc[x] /\ batch'[x] = batch[x]
    BY <1>2, <1>3, <1>7, <2>1 DEF TakeBatch
  <2> QED
    BY <1>1, <2>2, <2>3 DEF QueueOK
<1>8. ASSUME NEW t \in Drainers, ApplyTaken(t) PROVE QueueOK'
  <2>1. UNCHANGED <<queue, pc>> /\ batch' = [batch EXCEPT ![t] = NoBatch]
    BY <1>8 DEF ApplyTaken
  <2>2. batch' \in [Tasks -> [Entries -> Nat]] /\ \A x \in Sessions : batch'[x] = batch[x]
    BY <1>2, <1>3, <2>1
  <2> QED
    BY <1>1, <2>1, <2>2 DEF QueueOK
<1>9. ASSUME UNCHANGED <<queue, batch>>, \A s \in Sessions : pc[s] = "draining" => pc'[s] = "draining"
      PROVE  QueueOK'
  BY <1>1, <1>9 DEF QueueOK
<1>10. \/ UNCHANGED <<queue, batch>> /\ \A s \in Sessions : pc[s] = "draining" => pc'[s] = "draining"
       \/ \E s \in Sessions : (DrainTake(s) /\ ~UNCHANGED queueVars) \/ DrainApply(s) \/ enqueue_cleanup(s)
       \/ \E t \in Drainers : TakeBatch(t) \/ ApplyTaken(t)
  <2>1. ASSUME NEW s \in Sessions,
               \/ \E e \in Entries : Authenticate(s, e)
               \/ RefuseAccount(s) \/ TryAcquire(s) \/ Rollback(s) \/ Register(s) \/ Finish(s)
               \/ RemoveIp(s) \/ ReleaseConnection(s) \/ Abandon(s) \/ CheckAndAdd(s)
               \/ DrainTake(s) /\ UNCHANGED queueVars
        PROVE  UNCHANGED <<queue, batch>> /\ pc[s] # "draining" /\ \E x : pc' = [pc EXCEPT ![s] = x]
    BY <2>1, Zenon DEF Authenticate, RefuseAccount, TryAcquire, Rollback, Register, Finish, RemoveIp,
         ReleaseConnection, Abandon, CheckAndAdd, DrainTake, queueVars, Goto, Leave
  <2>2. ASSUME Compact \/ Admin \/ (\E e \in Entries : Age(e)) \/ UNCHANGED vars
        PROVE  UNCHANGED <<queue, batch, pc>>
    BY <2>2, Zenon DEF Admin, Age, vars, queueVars, Compact, DisableUser, CancelUserSessions,
         EnableUser, DeleteUser, ReloadClear, ReloadInsert, set_limit_policy, SwitchTelemetry
  <2>3. ASSUME NEW s \in Sessions, pc[s] # "draining", \E x : pc' = [pc EXCEPT ![s] = x]
        PROVE  \A y \in Sessions : pc[y] = "draining" => pc'[y] = "draining"
    BY <1>2, <2>3
  <2> QED
    BY <2>1, <2>2, <2>3, Zenon DEF Next, TaskStep, Maintenance
<1> QED
  BY <1>4, <1>5, <1>6, <1>7, <1>8, <1>9, <1>10

-----------------------------------------------------------------------------
(***************************************************************************)
(* curr_connects.                                                          *)
(***************************************************************************)
CountedOf(u) == {s \in counted : User(s) = u}

(* A task that holds no counted connection, before and after, moves.       *)
LEMMA UncountedMoves ==
  ASSUME ConnectsOK, TaskOK, NEW s \in Sessions, NEW step, pc' = [pc EXCEPT ![s] = step],
         \A x \in Sessions \ {s} : entry'[x] = entry[x], UNCHANGED <<connVars, telemetry, ops>>,
         pc[s] \notin CountedSteps, step \notin CountedSteps
  PROVE  ConnectsOK'
<1>1. s \notin counted /\ counted \subseteq Sessions /\ pc \in [Sessions -> Steps]
  BY DEF ConnectsOK, TaskOK
<1>2. \A u \in Users : CountedOf(u)' = CountedOf(u)
  BY <1>1 DEF CountedOf, User, connVars
<1>3. ConnectsExact => ConnectsExact'
  BY <1>2 DEF ConnectsExact, CountedOf, connVars
<1> QED
  BY <1>1, <1>3 DEF ConnectsOK, connVars

(* A task that holds a counted connection goes on with it.                 *)
LEMMA CountedGoesOn ==
  ASSUME ConnectsOK, TaskOK, NEW s \in Sessions, NEW step, Goto(s, step),
         UNCHANGED <<connVars, telemetry, ops>>, pc[s] \in CountedSteps, step \in CountedSteps
  PROVE  ConnectsOK'
<1>1. pc \in [Sessions -> Steps] /\ pc' = [pc EXCEPT ![s] = step] /\ entry' = entry
  BY DEF TaskOK, Goto
<1>2. ConnectsExact => ConnectsExact'
  BY <1>1 DEF ConnectsExact, User, connVars
<1> QED
  BY <1>1, <1>2 DEF ConnectsOK, connVars

(* A release path gives the connection back.                               *)
LEMMA ConnectionReturned ==
  ASSUME ConnectsOK, TaskOK, NEW s \in Sessions, NEW step, pc' = [pc EXCEPT ![s] = step],
         \A x \in Sessions \ {s} : entry'[x] = entry[x], UNCHANGED <<telemetry, ops>>,
         connects' = Decrement(User(s)), counted' = counted \ {s},
         pc[s] \in CountedSteps, step \notin CountedSteps
  PROVE  ConnectsOK'
<1>1. /\ counted \subseteq Sessions /\ pc \in [Sessions -> Steps] /\ connects \in [Users -> Nat]
      /\ entry[s] \in Entries
  BY DEF ConnectsOK, TaskOK, CountedSteps
<1>2. User(s) \in Users
  BY <1>1 DEF Entries, User
<1>3. connects' \in [Users -> Nat]
  BY <1>1, <1>2 DEF Decrement, SaturatingSub
<1>4. \A x \in counted' : pc'[x] \in CountedSteps
  BY <1>1 DEF ConnectsOK
<1>5. ASSUME "telemetry" \notin ops PROVE ConnectsExact'
  <2>1. s \in counted /\ ConnectsExact
    BY <1>5 DEF ConnectsOK
  <2>2. SUFFICES ASSUME NEW u \in Users PROVE connects'[u] = Cardinality(CountedOf(u)')
    BY DEF ConnectsExact, CountedOf
  <2>3. connects[u] = Cardinality(CountedOf(u)) /\ CountedOf(u) \in SUBSET Sessions
    BY <1>1, <2>1 DEF ConnectsExact, CountedOf
  <2>4. CASE u = User(s)
    <3>1. CountedOf(u)' = CountedOf(u) \ {s} /\ s \in CountedOf(u)
      BY <1>1, <2>1, <2>4 DEF CountedOf, User
    <3>2. IsFiniteSet(CountedOf(u)) /\ Cardinality(CountedOf(u)) \in Nat
      BY <2>3, SomeSessions
    <3>3. Cardinality(CountedOf(u)') = Cardinality(CountedOf(u)) - 1
      BY <3>1, <3>2, FS_RemoveElement, Zenon
    <3>4. Cardinality(CountedOf(u)) # 0
      BY <3>1, <3>2, FS_EmptySet
    <3>5. connects'[u] = SaturatingSub(connects[u], 1)
      BY <1>1, <1>2, <2>4 DEF Decrement
    <3> QED
      BY <2>3, <3>2, <3>3, <3>4, <3>5 DEF SaturatingSub
  <2>5. CASE u # User(s)
    <3>1. CountedOf(u)' = CountedOf(u)
      BY <1>1, <2>5 DEF CountedOf, User
    <3>2. connects'[u] = connects[u]
      BY <1>1, <1>2, <2>5 DEF Decrement
    <3> QED
      BY <2>3, <3>1, <3>2
  <2> QED
    BY <2>4, <2>5
<1>6. ASSUME "telemetry" \notin ops, NEW x \in Sessions, pc'[x] \in CountedSteps PROVE x \in counted'
  BY <1>1, <1>6 DEF ConnectsOK
<1> QED
  BY <1>1, <1>3, <1>4, <1>5, <1>6 DEF ConnectsOK

(* try_acquire_user_curr_connects.                                         *)
LEMMA ConnectionTaken ==
  ASSUME ConnectsOK, TaskOK, NEW s \in Sessions, TryAcquire(s)
  PROVE  ConnectsOK'
<1>1. /\ counted \subseteq Sessions /\ pc \in [Sessions -> Steps] /\ connects \in [Users -> Nat]
      /\ entry \in [Sessions -> Entries \cup {NoEntry}] /\ pc[s] = "checked" /\ entry[s] \in Entries
      /\ UNCHANGED <<telemetry, ops>>
  BY DEF ConnectsOK, TaskOK, TryAcquire, policyVars
<1>2. User(s) \in Users /\ s \notin counted
  BY <1>1 DEF Entries, User, ConnectsOK, CountedSteps
<1>3. CASE Leave(s) /\ UNCHANGED connVars
  <2>1. /\ pc' = [pc EXCEPT ![s] = "idle"] /\ \A x \in Sessions \ {s} : entry'[x] = entry[x]
        /\ pc[s] \notin CountedSteps /\ "idle" \notin CountedSteps
    BY <1>1, <1>3 DEF Leave, CountedSteps
  <2> QED
    BY <1>1, <1>3, <2>1, UncountedMoves, Zenon
<1>4. CASE ~telemetry /\ Goto(s, "counted") /\ UNCHANGED connVars
  <2>1. "telemetry" \in ops
    BY <1>4 DEF ConnectsOK
  <2> QED
    BY <1>1, <1>2, <1>4, <2>1 DEF ConnectsOK, Goto, connVars
<1>5. CASE /\ telemetry /\ Goto(s, "counted") /\ connects' = [connects EXCEPT ![User(s)] = @ + 1]
           /\ counted' = counted \cup {s}
  <2>1. pc' = [pc EXCEPT ![s] = "counted"] /\ entry' = entry
    BY <1>5 DEF Goto
  <2>2. connects' \in [Users -> Nat] /\ counted' \subseteq Sessions
    BY <1>1, <1>2, <1>5
  <2>3. \A x \in counted' : pc'[x] \in CountedSteps
    BY <1>1, <1>5, <2>1 DEF ConnectsOK, CountedSteps
  <2>4. ASSUME "telemetry" \notin ops PROVE ConnectsExact'
    <3>1. SUFFICES ASSUME NEW u \in Users PROVE connects'[u] = Cardinality(CountedOf(u)')
      BY DEF ConnectsExact, CountedOf
    <3>2. connects[u] = Cardinality(CountedOf(u)) /\ CountedOf(u) \in SUBSET Sessions
      BY <1>1, <2>4 DEF ConnectsOK, ConnectsExact, CountedOf
    <3>3. IsFiniteSet(CountedOf(u))
      BY <3>2, SomeSessions
    <3>4. CASE u = User(s)
      <4>1. CountedOf(u)' = CountedOf(u) \cup {s} /\ s \notin CountedOf(u)
        BY <1>2, <1>5, <2>1, <3>4 DEF CountedOf, User
      <4>2. Cardinality(CountedOf(u)') = Cardinality(CountedOf(u)) + 1
        BY <3>3, <4>1, FS_AddElement
      <4> QED
        BY <1>1, <1>2, <1>5, <3>2, <3>4, <4>2, Zenon
    <3>5. CASE u # User(s)
      <4>1. CountedOf(u)' = CountedOf(u)
        BY <1>5, <2>1, <3>5 DEF CountedOf, User
      <4> QED
        BY <1>1, <1>2, <1>5, <3>2, <3>5, <4>1, Zenon
    <3> QED
      BY <3>4, <3>5
  <2>5. ASSUME "telemetry" \notin ops, NEW x \in Sessions, pc'[x] \in CountedSteps PROVE x \in counted'
    BY <1>1, <1>5, <2>1, <2>5 DEF ConnectsOK
  <2> QED
    BY <1>1, <1>5, <2>2, <2>3, <2>4, <2>5 DEF ConnectsOK
<1> QED
  BY <1>3, <1>4, <1>5, Zenon DEF TryAcquire

LEMMA ConnectsKept ==
  ASSUME AdmissionInv, [Next]_vars
  PROVE  ConnectsOK'
<1>1. ConnectsOK /\ TaskOK
  BY DEF AdmissionInv
<1>2. entry \in [Sessions -> Entries \cup {NoEntry}]
  BY <1>1 DEF TaskOK
<1>3. ASSUME NEW s \in Sessions, NEW e \in Entries, Authenticate(s, e) PROVE ConnectsOK'
  <2>1. /\ pc' = [pc EXCEPT ![s] = "checked"] /\ entry' = [entry EXCEPT ![s] = e]
        /\ UNCHANGED <<connVars, telemetry, ops>> /\ pc[s] \notin CountedSteps
        /\ "checked" \notin CountedSteps
    BY <1>3 DEF Authenticate, policyVars, CountedSteps
  <2>2. \A x \in Sessions \ {s} : entry'[x] = entry[x]
    BY <1>2, <2>1
  <2> QED
    BY <1>1, <2>1, <2>2, UncountedMoves, Zenon
<1>4. ASSUME NEW s \in Sessions, RefuseAccount(s) \/ enqueue_cleanup(s) PROVE ConnectsOK'
  <2>1. /\ pc' = [pc EXCEPT ![s] = "idle"] /\ entry' = [entry EXCEPT ![s] = NoEntry]
        /\ UNCHANGED <<connVars, telemetry, ops>> /\ pc[s] \notin CountedSteps
        /\ "idle" \notin CountedSteps
    BY <1>4 DEF RefuseAccount, enqueue_cleanup, Leave, policyVars, CountedSteps
  <2>2. \A x \in Sessions \ {s} : entry'[x] = entry[x]
    BY <1>2, <2>1
  <2> QED
    BY <1>1, <2>1, <2>2, UncountedMoves, Zenon
<1>5. ASSUME NEW s \in Sessions, TryAcquire(s) PROVE ConnectsOK'
  BY <1>1, <1>5, ConnectionTaken
<1>6. ASSUME NEW s \in Sessions,
             DrainTake(s) \/ DrainApply(s) \/ CheckAndAdd(s) \/ Register(s) \/ Finish(s) \/ RemoveIp(s)
      PROVE  ConnectsOK'
  <2>1. /\ pc[s] \in CountedSteps /\ UNCHANGED <<connVars, telemetry, ops>>
        /\ \E step \in CountedSteps : Goto(s, step)
    BY <1>6, Zenon DEF DrainTake, DrainApply, CheckAndAdd, Register, Finish, RemoveIp, policyVars,
         CountedSteps
  <2> QED
    BY <1>1, <2>1, CountedGoesOn
<1>7. ASSUME NEW s \in Sessions, Rollback(s) \/ ReleaseConnection(s) PROVE ConnectsOK'
  <2>1. /\ pc' = [pc EXCEPT ![s] = "idle"] /\ entry' = [entry EXCEPT ![s] = NoEntry]
        /\ connects' = Decrement(User(s)) /\ counted' = counted \ {s} /\ UNCHANGED <<telemetry, ops>>
        /\ pc[s] \in CountedSteps /\ "idle" \notin CountedSteps
    BY <1>7 DEF Rollback, ReleaseConnection, Leave, policyVars, CountedSteps
  <2>2. \A x \in Sessions \ {s} : entry'[x] = entry[x]
    BY <1>2, <2>1
  <2> QED
    BY <1>1, <2>1, <2>2, ConnectionReturned, Zenon
<1>8. ASSUME NEW s \in Sessions, Abandon(s) PROVE ConnectsOK'
  <2>1. /\ pc' = [pc EXCEPT ![s] = "dropping"] /\ entry' = entry
        /\ connects' = Decrement(User(s)) /\ counted' = counted \ {s} /\ UNCHANGED <<telemetry, ops>>
        /\ pc[s] \in CountedSteps /\ "dropping" \notin CountedSteps
    BY <1>8 DEF Abandon, Goto, policyVars, CountedSteps
  <2> QED
    BY <1>1, <2>1, ConnectionReturned, Zenon
<1>9. CASE SwitchTelemetry
  BY <1>1, <1>9 DEF SwitchTelemetry, ConnectsOK, connVars
<1>10. CASE UNCHANGED <<pc, entry, connVars, telemetry, ops>>
  BY <1>1, <1>10 DEF ConnectsOK, ConnectsExact, User, connVars
<1>11. ASSUME Maintenance \/ (Admin /\ ~SwitchTelemetry) \/ (\E e \in Entries : Age(e)) \/ UNCHANGED vars
       PROVE  UNCHANGED <<pc, entry, connVars, telemetry, ops>>
  BY <1>11, Zenon DEF Maintenance, Admin, Age, vars, connVars, policyVars, TakeBatch, ApplyTaken,
       Compact, DisableUser, CancelUserSessions, EnableUser, DeleteUser, ReloadClear, ReloadInsert,
       set_limit_policy
<1> QED
  BY <1>3, <1>4, <1>5, <1>6, <1>7, <1>8, <1>9, <1>10, <1>11, Zenon DEF Next, TaskStep

-----------------------------------------------------------------------------
(***************************************************************************)
(* Every release is applied once.                                          *)
(***************************************************************************)
(* A task that holds no address, before and after, moves.                  *)
LEMMA NotHolding ==
  ASSUME TaskOK, NEW s \in Sessions, NEW step, pc' = [pc EXCEPT ![s] = step],
         \A x \in Sessions \ {s} : entry'[x] = entry[x], pc[s] \notin Holding, step \notin Holding,
         NEW e \in Entries
  PROVE  Holders(e)' = Holders(e)
  BY DEF TaskOK, Holders

(* A task goes on with the address it holds.                               *)
LEMMA StillHolding ==
  ASSUME TaskOK, NEW s \in Sessions, NEW step, Goto(s, step), pc[s] \in Holding, step \in Holding,
         NEW e \in Entries
  PROVE  Holders(e)' = Holders(e)
  BY DEF TaskOK, Goto, Holders

(* An admitted task holds its address.                                     *)
LEMMA NowHolding ==
  ASSUME TaskOK, NEW s \in Sessions, NEW step, Goto(s, step), pc[s] \notin Holding, step \in Holding,
         NEW e \in Entries
  PROVE  Cardinality(Holders(e)') = Cardinality(Holders(e)) + (IF e = entry[s] THEN 1 ELSE 0)
<1>1. Holders(e)' = (IF e = entry[s] THEN Holders(e) \cup {s} ELSE Holders(e)) /\ s \notin Holders(e)
  BY DEF TaskOK, Goto, Holders
<1>2. IsFiniteSet(Holders(e)) /\ Cardinality(Holders(e)) \in Nat
  BY SomeSessions DEF Holders
<1>3. Cardinality(Holders(e) \cup {s}) = Cardinality(Holders(e)) + 1
  BY <1>1, <1>2, FS_AddElement, Zenon
<1> QED
  BY <1>1, <1>2, <1>3

(* A task gives its address up.                                            *)
LEMMA NoLongerHolding ==
  ASSUME TaskOK, NEW s \in Sessions, NEW step, pc' = [pc EXCEPT ![s] = step],
         \A x \in Sessions \ {s} : entry'[x] = entry[x], pc[s] \in Holding, step \notin Holding,
         NEW e \in Entries
  PROVE  /\ Cardinality(Holders(e)') = Cardinality(Holders(e)) - (IF e = entry[s] THEN 1 ELSE 0)
         /\ e = entry[s] => Cardinality(Holders(e)) > 0
<1>1. /\ Holders(e)' = (IF e = entry[s] THEN Holders(e) \ {s} ELSE Holders(e))
      /\ e = entry[s] => s \in Holders(e)
  BY DEF TaskOK, Holders
<1>2. IsFiniteSet(Holders(e)) /\ Cardinality(Holders(e)) \in Nat
  BY SomeSessions DEF Holders
<1>3. CASE e = entry[s]
  <2>1. Cardinality(Holders(e) \ {s}) = Cardinality(Holders(e)) - 1
    BY <1>1, <1>2, <1>3, FS_RemoveElement, Zenon
  <2>2. Cardinality(Holders(e)) # 0
    BY <1>1, <1>2, <1>3, FS_EmptySet
  <2> QED
    BY <1>1, <1>2, <1>3, <2>1, <2>2
<1>4. CASE e # entry[s]
  BY <1>1, <1>2, <1>4
<1> QED
  BY <1>3, <1>4

TakenBy(e) == [t \in Tasks |-> batch[t][e]]

LEMMA TakenNat ==
  ASSUME QueueOK, NEW e \in Entries
  PROVE  /\ Taken(e) \in Nat /\ \A t \in Tasks : batch[t][e] \in Nat /\ Taken(e) >= batch[t][e]
         /\ IsFiniteSet(Tasks) /\ TakenBy(e) \in [Tasks -> Nat] /\ Taken(e) = SumOver(Tasks, TakenBy(e))
<1>1. IsFiniteSet(Tasks)
  BY AdmissionAssumption, FS_Union, Zenon DEF Tasks
<1>2. TakenBy(e) \in [Tasks -> Nat] /\ \A t \in Tasks : batch[t][e] \in Nat /\ TakenBy(e)[t] = batch[t][e]
  BY DEF QueueOK, TakenBy
<1>3. Taken(e) = SumOver(Tasks, TakenBy(e))
  BY Zenon DEF Taken, TakenBy, Tasks
<1>4. Taken(e) \in Nat
  BY <1>1, <1>2, <1>3, UnitsFinite
<1>5. ASSUME NEW t \in Tasks PROVE Taken(e) >= batch[t][e]
  <2> DEFINE R == Tasks \ {t}
             g == [y \in R |-> TakenBy(e)[y]]
  <2>1. Taken(e) = SumOver(R, TakenBy(e)) + TakenBy(e)[t]
    BY <1>1, <1>2, <1>3, SumSplit
  <2>2. IsFiniteSet(R) /\ g \in [R -> Nat]
    BY <1>1, <1>2, FS_RemoveElement
  <2>3. SumOver(R, g) = SumOver(R, TakenBy(e))
    BY DEF SumOver, Units
  <2>4. SumOver(R, g) \in Nat
    BY <2>2, UnitsFinite
  <2> HIDE DEF R, g
  <2> QED
    BY <1>2, <1>4, <2>1, <2>3, <2>4
<1> QED
  BY <1>1, <1>2, <1>3, <1>4, <1>5

(* A task takes or applies a batch.                                        *)
LEMMA TakenMoves ==
  ASSUME QueueOK, QueueOK', NEW t \in Tasks, NEW b \in [Entries -> Nat],
         batch' = [batch EXCEPT ![t] = b], NEW e \in Entries
  PROVE  Taken(e)' = Taken(e) - batch[t][e] + b[e]
<1>1. IsFiniteSet(Tasks) /\ TakenBy(e) \in [Tasks -> Nat] /\ Taken(e) = SumOver(Tasks, TakenBy(e))
  BY TakenNat
<1>2. TakenBy(e)' \in [Tasks -> Nat] /\ TakenBy(e)'[t] = b[e] /\ TakenBy(e)[t] = batch[t][e]
      /\ \A y \in Tasks \ {t} : TakenBy(e)'[y] = TakenBy(e)[y]
  BY DEF QueueOK, TakenBy
<1>3. Taken(e)' = SumOver(Tasks, TakenBy(e)')
  BY Zenon DEF Taken, TakenBy, Tasks
<1> HIDE DEF TakenBy
<1>4. SumOver(Tasks, TakenBy(e)') = SumOver(Tasks, TakenBy(e)) - TakenBy(e)[t] + TakenBy(e)'[t]
  BY <1>1, <1>2, SumUpdate
<1> QED
  BY <1>1, <1>2, <1>3, <1>4

(* The batch a task applies is subtracted in full.                         *)
LEMMA BatchApplied ==
  ASSUME QueueOK, QueueOK', TrackerOK, EveryReleaseAppliedOnce, NEW t \in Tasks, ApplyBatch(batch[t]),
         batch' = [batch EXCEPT ![t] = NoBatch], queue' = queue,
         \A e \in Entries : Holders(e)' = Holders(e)
  PROVE  EveryReleaseAppliedOnce'
<1> SUFFICES ASSUME NEW e \in Entries
             PROVE  active'[e] = Cardinality(Holders(e)') + queue'[e] + Taken(e)'
  BY Zenon DEF EveryReleaseAppliedOnce
<1>1. Cardinality(Holders(e)) \in Nat /\ queue[e] \in Nat /\ active[e] \in Nat
  BY SomeSessions DEF Holders, QueueOK, TrackerOK
<1>2. Taken(e) \in Nat /\ batch[t][e] \in Nat /\ Taken(e) >= batch[t][e]
  BY TakenNat
<1>3. Taken(e)' = Taken(e) - batch[t][e] + 0
  <2>1. NoBatch \in [Entries -> Nat] /\ NoBatch[e] = 0
    BY DEF NoBatch
  <2> QED
    BY <2>1, TakenMoves, Zenon
<1>4. active[e] = Cardinality(Holders(e)) + queue[e] + Taken(e)
  BY DEF EveryReleaseAppliedOnce
<1>5. active'[e] = SaturatingSub(active[e], batch[t][e])
  BY DEF ApplyBatch, apply_active_cleanup
<1> QED
  BY <1>1, <1>2, <1>3, <1>4, <1>5 DEF SaturatingSub

(* Releases leave the queue for the batch of a task.                       *)
LEMMA BatchTaken ==
  ASSUME QueueOK, QueueOK', TrackerOK, EveryReleaseAppliedOnce, NEW t \in Tasks, batch[t] = NoBatch,
         NEW b \in [Entries -> Nat], batch' = [batch EXCEPT ![t] = b], active' = active,
         \A e \in Entries : queue'[e] = queue[e] - b[e],
         \A e \in Entries : Holders(e)' = Holders(e)
  PROVE  EveryReleaseAppliedOnce'
<1> SUFFICES ASSUME NEW e \in Entries
             PROVE  active'[e] = Cardinality(Holders(e)') + queue'[e] + Taken(e)'
  BY Zenon DEF EveryReleaseAppliedOnce
<1>1. Cardinality(Holders(e)) \in Nat /\ queue[e] \in Nat /\ active[e] \in Nat /\ b[e] \in Nat
  BY SomeSessions, Zenon DEF Holders, QueueOK, TrackerOK
<1>2. Taken(e) \in Nat /\ batch[t][e] = 0
  BY TakenNat, Zenon DEF NoBatch
<1>3. Taken(e)' = Taken(e) - batch[t][e] + b[e]
  BY TakenMoves, Zenon
<1>4. active[e] = Cardinality(Holders(e)) + queue[e] + Taken(e)
  BY DEF EveryReleaseAppliedOnce
<1> QED
  BY <1>1, <1>2, <1>3, <1>4

LEMMA ReleasesKept ==
  ASSUME AdmissionInv, [Next]_vars, QueueOK'
  PROVE  ReleasesOK'
<1>1. QueueOK /\ TaskOK /\ TrackerOK /\ ReleasesOK
  BY DEF AdmissionInv
<1>2. ops' = ops
  BY Zenon DEF Next, TaskStep, Maintenance, Admin, Age, vars, policyVars, Authenticate, RefuseAccount,
       TryAcquire, DrainTake, DrainApply, CheckAndAdd, Rollback, Register, Finish, RemoveIp,
       ReleaseConnection, Abandon, enqueue_cleanup, TakeBatch, ApplyTaken, Compact, DisableUser,
       CancelUserSessions, EnableUser, DeleteUser, ReloadClear, ReloadInsert, set_limit_policy,
       SwitchTelemetry
<1>3. SUFFICES ASSUME "delete" \notin ops PROVE EveryReleaseAppliedOnce'
  BY <1>2 DEF ReleasesOK
<1>4. EveryReleaseAppliedOnce
  BY <1>1, <1>3 DEF ReleasesOK
<1>5. /\ entry \in [Sessions -> Entries \cup {NoEntry}] /\ Sessions \subseteq Tasks /\ Drainers \subseteq Tasks
      /\ active \in [Entries -> Nat] /\ queue \in [Entries -> Nat] /\ batch \in [Tasks -> [Entries -> Nat]]
  BY <1>1 DEF TaskOK, Tasks, TrackerOK, QueueOK
<1>6. \A e \in Entries : Cardinality(Holders(e)) \in Nat /\ Taken(e) \in Nat
  BY <1>1, SomeSessions, TakenNat, Zenon DEF Holders
<1>7. ASSUME UNCHANGED <<active, queue, batch>>, \A e \in Entries : Holders(e)' = Holders(e)
      PROVE  EveryReleaseAppliedOnce'
  BY <1>4, <1>7, Zenon DEF EveryReleaseAppliedOnce, Taken
<1>8. ASSUME NEW s \in Sessions, NEW e \in Entries, Authenticate(s, e) PROVE EveryReleaseAppliedOnce'
  <2>1. /\ pc' = [pc EXCEPT ![s] = "checked"] /\ entry' = [entry EXCEPT ![s] = e]
        /\ UNCHANGED <<active, queue, batch>> /\ pc[s] \notin Holding /\ "checked" \notin Holding
    BY <1>8 DEF Authenticate, trackerVars, queueVars, Holding
  <2>2. \A x \in Sessions \ {s} : entry'[x] = entry[x]
    BY <1>5, <2>1
  <2> QED
    BY <1>1, <1>7, <2>1, <2>2, NotHolding, Zenon
<1>9. ASSUME NEW s \in Sessions, Leave(s), pc[s] \notin Holding, UNCHANGED <<active, queue, batch>>
      PROVE  EveryReleaseAppliedOnce'
  <2>1. pc' = [pc EXCEPT ![s] = "idle"] /\ entry' = [entry EXCEPT ![s] = NoEntry] /\ "idle" \notin Holding
    BY <1>9 DEF Leave, Holding
  <2>2. \A x \in Sessions \ {s} : entry'[x] = entry[x]
    BY <1>5, <2>1
  <2> QED
    BY <1>1, <1>7, <1>9, <2>1, <2>2, NotHolding, Zenon
<1>10. ASSUME NEW s \in Sessions, NEW step, Goto(s, step), pc[s] \notin Holding, step \notin Holding
       PROVE  \A e \in Entries : Holders(e)' = Holders(e)
  BY <1>1, <1>10, NotHolding, Zenon DEF Goto
<1>11. ASSUME NEW s \in Sessions, NEW step, Goto(s, step), pc[s] \in Holding, step \in Holding
       PROVE  \A e \in Entries : Holders(e)' = Holders(e)
  BY <1>1, <1>11, StillHolding
<1>12. ASSUME NEW s \in Sessions,
              \/ RefuseAccount(s) \/ TryAcquire(s) \/ Rollback(s) \/ ReleaseConnection(s)
              \/ (DrainTake(s) /\ UNCHANGED queueVars) \/ Register(s) \/ Finish(s) \/ Abandon(s)
       PROVE  EveryReleaseAppliedOnce'
  <2>1. UNCHANGED <<active, queue, batch>>
    BY <1>12, Zenon DEF RefuseAccount, TryAcquire, Rollback, ReleaseConnection, DrainTake, Register,
         Finish, Abandon, trackerVars, queueVars
  <2>2. CASE RefuseAccount(s) \/ Rollback(s) \/ ReleaseConnection(s)
    BY <1>9, <2>1, <2>2, Zenon DEF RefuseAccount, Rollback, ReleaseConnection, Holding
  <2>3. CASE TryAcquire(s)
    <3>1. pc[s] \notin Holding /\ "counted" \notin Holding /\ (Leave(s) \/ Goto(s, "counted"))
      BY <2>3, Zenon DEF TryAcquire, Holding
    <3> QED
      BY <1>7, <1>9, <1>10, <2>1, <3>1, Zenon
  <2>4. CASE DrainTake(s) /\ UNCHANGED queueVars
    <3>1. /\ pc[s] \notin Holding /\ "adding" \notin Holding /\ "draining" \notin Holding
          /\ Goto(s, "adding") \/ Goto(s, "draining")
      BY <2>4, Zenon DEF DrainTake, Holding
    <3> QED
      BY <1>7, <1>10, <2>1, <3>1
  <2>5. CASE Register(s) \/ Finish(s) \/ Abandon(s)
    <3>1. pc[s] \in Holding /\ \E step \in Holding : Goto(s, step)
      BY <2>5, Zenon DEF Register, Finish, Abandon, Holding
    <3> QED
      BY <1>7, <1>11, <2>1, <3>1
  <2> QED
    BY <1>12, <2>2, <2>3, <2>4, <2>5
<1>13. ASSUME NEW s \in Sessions, DrainTake(s), ~UNCHANGED queueVars PROVE EveryReleaseAppliedOnce'
  <2> DEFINE mine == [e \in Entries |-> IF e[1] = User(s) THEN queue[e] ELSE 0]
  <2>1. /\ queue' = [e \in Entries |-> queue[e] - mine[e]]
        /\ batch' = [batch EXCEPT ![s] = mine] /\ Goto(s, "draining") /\ pc[s] = "counted"
        /\ active' = active
    BY <1>13, Zenon DEF DrainTake, trackerVars
  <2>2. mine \in [Entries -> Nat]
    BY <1>5
  <2> HIDE DEF mine
  <2>3. batch[s] = NoBatch
    BY <1>1, <2>1 DEF QueueOK
  <2>4. \A e \in Entries : Holders(e)' = Holders(e)
    BY <1>10, <2>1 DEF Holding
  <2>5. \A e \in Entries : queue'[e] = queue[e] - mine[e]
    BY <2>1
  <2> QED
    BY <1>1, <1>4, <1>5, <2>1, <2>2, <2>3, <2>4, <2>5, BatchTaken, Zenon
<1>14. ASSUME NEW s \in Sessions, DrainApply(s) PROVE EveryReleaseAppliedOnce'
  <2>1. /\ queue' = queue /\ batch' = [batch EXCEPT ![s] = NoBatch] /\ ApplyBatch(batch[s])
        /\ Goto(s, "adding") /\ pc[s] = "draining"
    BY <1>14, Zenon DEF DrainApply
  <2>2. \A e \in Entries : Holders(e)' = Holders(e)
    BY <1>10, <2>1 DEF Holding
  <2> QED
    BY <1>1, <1>4, <1>5, <2>1, <2>2, BatchApplied, Zenon
<1>15. ASSUME NEW s \in Sessions, CheckAndAdd(s) PROVE EveryReleaseAppliedOnce'
  <2>1. pc[s] = "adding" /\ entry[s] \in Entries /\ UNCHANGED <<queue, batch>>
    BY <1>1, <1>15 DEF CheckAndAdd, TaskOK, queueVars
  <2>2. CASE Goto(s, "rollback") /\ active' = active
    BY <1>7, <1>10, <2>1, <2>2, Zenon DEF Holding
  <2>3. CASE Goto(s, "admitted") /\ active' = [active EXCEPT ![entry[s]] = @ + 1]
    <3> SUFFICES ASSUME NEW e \in Entries
                 PROVE  active'[e] = Cardinality(Holders(e)') + queue'[e] + Taken(e)'
      BY Zenon DEF EveryReleaseAppliedOnce
    <3>1. Cardinality(Holders(e)') = Cardinality(Holders(e)) + (IF e = entry[s] THEN 1 ELSE 0)
      BY <1>1, <2>1, <2>3, NowHolding, Zenon DEF Holding
    <3>2. Taken(e)' = Taken(e)
      BY <2>1 DEF Taken
    <3>3. active'[e] = active[e] + (IF e = entry[s] THEN 1 ELSE 0)
      BY <1>5, <2>1, <2>3
    <3>4. active[e] = Cardinality(Holders(e)) + queue[e] + Taken(e)
      BY <1>4, Zenon DEF EveryReleaseAppliedOnce
    <3> QED
      BY <1>5, <1>6, <2>1, <3>1, <3>2, <3>3, <3>4
  <2> QED
    BY <1>15, <2>2, <2>3, Zenon DEF CheckAndAdd
<1>16. ASSUME NEW s \in Sessions, RemoveIp(s) PROVE EveryReleaseAppliedOnce'
  <2>1. /\ pc[s] = "releasing" /\ entry[s] \in Entries /\ UNCHANGED <<queue, batch>>
        /\ active' = [active EXCEPT ![entry[s]] = SaturatingSub(@, 1)]
        /\ pc' = [pc EXCEPT ![s] = "removed"] /\ entry' = entry
    BY <1>1, <1>16, Zenon DEF RemoveIp, TaskOK, queueVars, Goto
  <2> SUFFICES ASSUME NEW e \in Entries
               PROVE  active'[e] = Cardinality(Holders(e)') + queue'[e] + Taken(e)'
    BY DEF EveryReleaseAppliedOnce
  <2>2. /\ Cardinality(Holders(e)') = Cardinality(Holders(e)) - (IF e = entry[s] THEN 1 ELSE 0)
        /\ e = entry[s] => Cardinality(Holders(e)) > 0
    BY <1>1, <2>1, NoLongerHolding, Zenon DEF Holding
  <2>3. Taken(e)' = Taken(e)
    BY <2>1 DEF Taken
  <2>4. active'[e] = SaturatingSub(active[e], IF e = entry[s] THEN 1 ELSE 0)
    BY <1>5, <2>1 DEF SaturatingSub
  <2>5. active[e] = Cardinality(Holders(e)) + queue[e] + Taken(e)
    BY <1>4 DEF EveryReleaseAppliedOnce
  <2>6. Cardinality(Holders(e)) \in Nat /\ Taken(e) \in Nat /\ queue[e] \in Nat /\ queue'[e] = queue[e]
    BY <1>5, <1>6, <2>1
  <2> QED
    BY <2>2, <2>3, <2>4, <2>5, <2>6 DEF SaturatingSub
<1>17. ASSUME NEW s \in Sessions, enqueue_cleanup(s) PROVE EveryReleaseAppliedOnce'
  <2>1. /\ pc[s] = "dropping" /\ entry[s] \in Entries /\ UNCHANGED <<active, batch>>
        /\ queue' = [queue EXCEPT ![entry[s]] = @ + 1]
        /\ pc' = [pc EXCEPT ![s] = "idle"] /\ entry' = [entry EXCEPT ![s] = NoEntry]
    BY <1>1, <1>17 DEF enqueue_cleanup, TaskOK, trackerVars, Leave
  <2> SUFFICES ASSUME NEW e \in Entries
               PROVE  active'[e] = Cardinality(Holders(e)') + queue'[e] + Taken(e)'
    BY DEF EveryReleaseAppliedOnce
  <2>2. \A x \in Sessions \ {s} : entry'[x] = entry[x]
    BY <1>5, <2>1, Zenon
  <2>3. Cardinality(Holders(e)') = Cardinality(Holders(e)) - (IF e = entry[s] THEN 1 ELSE 0)
    BY <1>1, <2>1, <2>2, NoLongerHolding, Zenon DEF Holding
  <2>4. Taken(e)' = Taken(e)
    BY <2>1 DEF Taken
  <2>5. queue'[e] = queue[e] + (IF e = entry[s] THEN 1 ELSE 0)
    BY <1>5, <2>1
  <2>6. active[e] = Cardinality(Holders(e)) + queue[e] + Taken(e)
    BY <1>4 DEF EveryReleaseAppliedOnce
  <2>7. Cardinality(Holders(e)) \in Nat /\ Taken(e) \in Nat /\ queue[e] \in Nat /\ active'[e] = active[e]
    BY <1>5, <1>6, <2>1
  <2> QED
    BY <2>3, <2>4, <2>5, <2>6, <2>7
<1>18. ASSUME NEW t \in Drainers, TakeBatch(t) PROVE EveryReleaseAppliedOnce'
  <2>1. PICK taken \in SUBSET Queued(queue) :
          /\ queue' = [e \in Entries |-> IF e \in taken THEN 0 ELSE queue[e]]
          /\ batch' = [batch EXCEPT ![t] = [e \in Entries |-> IF e \in taken THEN queue[e] ELSE 0]]
    BY <1>18, Zenon DEF TakeBatch
  <2> DEFINE b == [e \in Entries |-> IF e \in taken THEN queue[e] ELSE 0]
  <2>2. b \in [Entries -> Nat] /\ \A e \in Entries : queue'[e] = queue[e] - b[e]
    BY <1>5, <2>1
  <2>3. batch[t] = NoBatch /\ UNCHANGED <<pc, entry, active>>
    BY <1>18 DEF TakeBatch, trackerVars
  <2>4. \A e \in Entries : Holders(e)' = Holders(e)
    BY <2>3 DEF Holders
  <2>5. batch' = [batch EXCEPT ![t] = b]
    BY <2>1
  <2> HIDE DEF b
  <2> QED
    BY <1>1, <1>4, <1>5, <2>2, <2>3, <2>4, <2>5, BatchTaken, Zenon
<1>19. ASSUME NEW t \in Drainers, ApplyTaken(t) PROVE EveryReleaseAppliedOnce'
  <2>1. UNCHANGED <<queue, pc, entry>> /\ batch' = [batch EXCEPT ![t] = NoBatch] /\ ApplyBatch(batch[t])
    BY <1>19 DEF ApplyTaken
  <2>2. \A e \in Entries : Holders(e)' = Holders(e)
    BY <2>1 DEF Holders
  <2> QED
    BY <1>1, <1>4, <1>5, <2>1, <2>2, BatchApplied, Zenon
<1>20. ASSUME Compact \/ Admin \/ (\E e \in Entries : Age(e)) \/ UNCHANGED vars
       PROVE  EveryReleaseAppliedOnce'
  <2>1. UNCHANGED <<pc, entry, active, queue, batch>>
    BY <1>3, <1>20, Zenon DEF Admin, Age, vars, trackerVars, queueVars, Compact, DisableUser,
         CancelUserSessions, EnableUser, DeleteUser, ReloadClear, ReloadInsert, set_limit_policy,
         SwitchTelemetry
  <2> QED
    BY <1>7, <2>1 DEF Holders
<1> QED
  BY <1>8, <1>12, <1>13, <1>14, <1>15, <1>16, <1>17, <1>18, <1>19, <1>20, Zenon
     DEF Next, TaskStep, Maintenance

-----------------------------------------------------------------------------
(***************************************************************************)
(* The unique-IP limit.                                                    *)
(***************************************************************************)
(* Where a limit always applies, none exceeds the largest one.             *)
LEMMA LimitInForce ==
  ASSUME LimitsOK, ops \cap {"delete", "mode"} = {}, AlwaysLimited, NEW u \in Users
  PROVE  user_limit(u) \in Nat /\ user_limit(u) > 0 /\ user_limit(u) <= LargestLimit
  BY AdmissionAssumption DEF LimitsOK, AlwaysLimited, LargestLimit, user_limit

(* Active counts that do not grow keep the addresses within the limit.     *)
LEMMA FewerActive ==
  ASSUME TrackerOK, LimitsOK, UNCHANGED <<limit, mode, ops>>, active' \in [Entries -> Nat],
         \A e \in Entries : active'[e] <= active[e]
  PROVE  LimitsOK'
<1>1. ASSUME NEW u \in Users PROVE Cardinality(ActiveIps(u)') <= Cardinality(ActiveIps(u))
  <2>1. ActiveIps(u)' \subseteq ActiveIps(u)
    BY DEF ActiveIps, TrackerOK, Entries
  <2>2. IsFiniteSet(ActiveIps(u))
    BY SomeIps, Zenon DEF ActiveIps
  <2> QED
    BY <2>1, <2>2, FS_Subset
<1>2. \A u \in Users : Cardinality(ActiveIps(u)') \in Nat /\ Cardinality(ActiveIps(u)) \in Nat
  BY SomeIps, Zenon DEF ActiveIps
<1>3. LargestLimit \in Nat
  BY AdmissionAssumption DEF LargestLimit
<1>4. ASSUME ops \cap {"delete", "mode"} = {}, NEW u \in Users, mode \in {"active", "combined"}, AlwaysLimited
      PROVE  Cardinality(ActiveIps(u)') <= LargestLimit
  <2>1. Cardinality(ActiveIps(u)) <= LargestLimit
    BY <1>4 DEF LimitsOK
  <2> QED
    BY <1>1, <1>2, <1>3, <2>1
<1>5. (AlwaysLimited' <=> AlwaysLimited) /\ LargestLimit' = LargestLimit
  BY DEF AlwaysLimited, LargestLimit
<1> QED
  BY <1>4, <1>5 DEF LimitsOK

(* check_and_add admits a new address only below the limit.                *)
LEMMA AdmittedWithinLimit ==
  ASSUME TrackerOK, LimitsOK, UNCHANGED <<limit, mode, ops>>, NEW e \in Entries,
         active' = [active EXCEPT ![e] = @ + 1], NEW r, active[e] > 0 \/ ~Denied(e, r)
  PROVE  LimitsOK'
<1>1. PICK w \in Users, ip \in Ips : e = <<w, ip>>
  BY DEF Entries
<1>2. active \in [Entries -> Nat] /\ e[1] = w
  BY <1>1 DEF TrackerOK
<1>3. (AlwaysLimited' <=> AlwaysLimited) /\ LargestLimit' = LargestLimit /\ LargestLimit \in Nat
  BY AdmissionAssumption DEF AlwaysLimited, LargestLimit
<1>4. ASSUME ops \cap {"delete", "mode"} = {}, NEW u \in Users, mode \in {"active", "combined"}, AlwaysLimited
      PROVE  Cardinality(ActiveIps(u)') <= LargestLimit
  <2>1. Cardinality(ActiveIps(u)) <= LargestLimit
    BY <1>4 DEF LimitsOK
  <2>2. CASE u # w \/ active[e] > 0
    <3>1. ActiveIps(u)' = ActiveIps(u)
      BY <1>1, <1>2, <2>2 DEF ActiveIps, Entries
    <3> QED
      BY <2>1, <3>1, Zenon
  <2>3. CASE u = w /\ ~(active[e] > 0)
    <3>1. ActiveIps(u)' = ActiveIps(u) \cup {ip} /\ ip \notin ActiveIps(u)
      BY <1>1, <1>2, <2>3 DEF ActiveIps, Entries
    <3>2. IsFiniteSet(ActiveIps(u)) /\ Cardinality(ActiveIps(u)) \in Nat
      BY SomeIps, Zenon DEF ActiveIps
    <3>3. Cardinality(ActiveIps(u)') = Cardinality(ActiveIps(u)) + 1
      BY <3>1, <3>2, FS_AddElement, Zenon
    <3>4. user_limit(u) \in Nat /\ user_limit(u) > 0 /\ user_limit(u) <= LargestLimit
      BY <1>4, LimitInForce
    <3>5. ~(Cardinality(ActiveIps(u)) >= user_limit(u))
      BY <1>2, <1>4, <2>3, <3>4, Zenon DEF Denied, ActiveLimitReached
    <3> QED
      BY <1>3, <3>2, <3>3, <3>4, <3>5
  <2> QED
    BY <2>2, <2>3
<1> QED
  BY <1>3, <1>4 DEF LimitsOK

(* While the limits are reloaded, the tracker does not move.               *)
LEMMA LimitsReloaded ==
  ASSUME LimitsOK, UNCHANGED <<active, mode, ops>>, limit' \in [Users -> {0, IpLimit}],
         "delete" \in ops \/ "reload" \in ops \/ \A u \in Users : limit'[u] = IpLimit \/ limit'[u] = limit[u]
  PROVE  LimitsOK'
  BY DEF LimitsOK, ActiveIps, LargestLimit, AlwaysLimited

LEMMA LimitsKept ==
  ASSUME AdmissionInv, [Next]_vars
  PROVE  LimitsOK'
<1>1. TaskOK /\ QueueOK /\ TrackerOK /\ LimitsOK
  BY DEF AdmissionInv
<1>2. active \in [Entries -> Nat] /\ limit \in [Users -> {0, IpLimit}]
      /\ Sessions \subseteq Tasks /\ Drainers \subseteq Tasks
  BY <1>1 DEF TrackerOK, LimitsOK, Tasks
<1>3. ASSUME UNCHANGED <<active, limit, mode, ops>> PROVE LimitsOK'
  BY <1>1, <1>2, <1>3, FewerActive
<1>4. ASSUME NEW t \in Tasks, ApplyBatch(batch[t]), UNCHANGED <<limit, mode, ops>> PROVE LimitsOK'
  <2>1. batch[t] \in [Entries -> Nat]
    BY <1>1, Zenon DEF QueueOK
  <2>2. active' \in [Entries -> Nat] /\ \A e \in Entries : active'[e] <= active[e]
    BY <1>2, <1>4, <2>1 DEF ApplyBatch, apply_active_cleanup, SaturatingSub
  <2> QED
    BY <1>1, <1>4, <2>2, FewerActive
<1>5. ASSUME NEW s \in Sessions, CheckAndAdd(s) PROVE LimitsOK'
  <2>1. entry[s] \in Entries /\ UNCHANGED <<limit, mode, ops>>
    BY <1>1, <1>5 DEF CheckAndAdd, TaskOK, policyVars
  <2>2. ASSUME NEW r, Admits(entry[s], r), active' = [active EXCEPT ![entry[s]] = @ + 1] PROVE LimitsOK'
    <3>1. active[entry[s]] > 0 \/ ~Denied(entry[s], r)
      BY <2>2, Zenon DEF Admits
    <3> QED
      BY <1>1, <2>1, <2>2, <3>1, AdmittedWithinLimit, Zenon
  <2> QED
    BY <1>3, <1>5, <2>1, <2>2, Zenon DEF CheckAndAdd
<1>6. ASSUME NEW s \in Sessions, RemoveIp(s) PROVE LimitsOK'
  <2>1. /\ entry[s] \in Entries /\ UNCHANGED <<limit, mode, ops>>
        /\ active' = [active EXCEPT ![entry[s]] = SaturatingSub(@, 1)]
    BY <1>1, <1>6 DEF RemoveIp, TaskOK, policyVars
  <2>2. active' \in [Entries -> Nat] /\ \A e \in Entries : active'[e] <= active[e]
    BY <1>2, <2>1 DEF SaturatingSub
  <2> QED
    BY <1>1, <2>1, <2>2, FewerActive
<1>7. ASSUME NEW u \in Users, ReloadInsert(u) PROVE LimitsOK'
  <2>1. limit' = [limit EXCEPT ![u] = IpLimit] /\ UNCHANGED <<active, mode, ops>>
    BY <1>7 DEF ReloadInsert, trackerVars
  <2> QED
    BY <1>1, <1>2, <2>1, LimitsReloaded
<1>8. CASE ReloadClear
  <2>1. limit' = [u \in Users |-> 0] /\ UNCHANGED <<active, mode, ops>> /\ "reload" \in ops
    BY <1>8 DEF ReloadClear, trackerVars
  <2> QED
    BY <1>1, <2>1, LimitsReloaded
<1>9. ASSUME NEW u \in Users, DeleteUser(u) PROVE LimitsOK'
  <2>1. limit' = [limit EXCEPT ![u] = 0] /\ "delete" \in ops /\ ops' = ops
    BY <1>9 DEF DeleteUser
  <2> QED
    BY <1>2, <2>1, Zenon DEF LimitsOK
<1>10. ASSUME NEW m \in Modes, set_limit_policy(m) PROVE LimitsOK'
  BY <1>1, <1>10 DEF LimitsOK, set_limit_policy
<1>11. \/ UNCHANGED <<active, limit, mode, ops>>
       \/ \E s \in Sessions : DrainApply(s) \/ CheckAndAdd(s) \/ RemoveIp(s)
       \/ \E t \in Drainers : ApplyTaken(t)
       \/ \E u \in Users : ReloadInsert(u) \/ DeleteUser(u)
       \/ ReloadClear \/ \E m \in Modes : set_limit_policy(m)
  BY Zenon DEF Next, TaskStep, Maintenance, Admin, Age, vars, policyVars, trackerVars, Authenticate,
       RefuseAccount, TryAcquire, DrainTake, Rollback, Register, Finish, ReleaseConnection, Abandon,
       enqueue_cleanup, TakeBatch, Compact, DisableUser, CancelUserSessions, EnableUser, SwitchTelemetry
<1>12. ASSUME NEW s \in Sessions, DrainApply(s) PROVE LimitsOK'
  BY <1>2, <1>4, <1>12 DEF DrainApply, policyVars
<1>13. ASSUME NEW t \in Drainers, ApplyTaken(t) PROVE LimitsOK'
  BY <1>2, <1>4, <1>13 DEF ApplyTaken, policyVars
<1> QED
  BY <1>3, <1>5, <1>6, <1>7, <1>8, <1>9, <1>10, <1>11, <1>12, <1>13, Zenon

-----------------------------------------------------------------------------
LEMMA AdmissionInit ==
  ASSUME Init
  PROVE  AdmissionInv
<1>1. TaskOK
  BY DEF Init, TaskOK, Steps
<1>2. QueueOK
  BY DEF Init, QueueOK, NoBatch, Tasks
<1>3. TrackerOK
  <2>1. active \in [Entries -> Nat] /\ recent \in [Entries -> RecentStates]
    BY DEF Init, NoBatch, RecentStates
  <2>2. Queued(active) = {} /\ Fresh(recent) = {}
    BY DEF Init, NoBatch, Queued, Fresh
  <2> QED
    BY <2>1, <2>2, FS_EmptySet, Zenon DEF TrackerOK, EntryCountsExact, Init
<1>4. ConnectsOK
  <2>1. \A u \in Users : {s \in counted : User(s) = u} = {} /\ connects[u] = 0
    BY DEF Init
  <2>2. ConnectsExact
    BY <2>1, FS_EmptySet DEF ConnectsExact
  <2>3. \A s \in Sessions : pc[s] \notin CountedSteps
    BY DEF Init, CountedSteps
  <2> QED
    BY <2>2, <2>3 DEF ConnectsOK, Init
<1>5. ReleasesOK
  <2> SUFFICES ASSUME NEW e \in Entries PROVE active[e] = Cardinality(Holders(e)) + queue[e] + Taken(e)
    BY DEF ReleasesOK, EveryReleaseAppliedOnce
  <2>1. Holders(e) = {}
    BY DEF Init, Holders, Holding
  <2>2. \A t \in Sessions \cup Drainers : [x \in Sessions \cup Drainers |-> batch[x][e]][t] = 0
    BY DEF Init, NoBatch
  <2>3. Taken(e) = 0
    BY <2>2, SumZero, Zenon DEF Taken
  <2>4. active[e] = 0 /\ queue[e] = 0
    BY DEF Init, NoBatch
  <2> QED
    BY <2>1, <2>3, <2>4, FS_EmptySet
<1>6. LimitsOK
  <2>1. \A u \in Users : limit[u] = IpLimit /\ ActiveIps(u) = {}
    BY DEF Init, ActiveIps, NoBatch, Entries
  <2>2. LargestLimit \in Nat
    BY AdmissionAssumption DEF LargestLimit
  <2>3. \A u \in Users : Cardinality(ActiveIps(u)) <= LargestLimit
    BY <2>1, <2>2, FS_EmptySet
  <2> QED
    BY <2>1, <2>3 DEF LimitsOK, Init
<1> QED
  BY <1>1, <1>2, <1>3, <1>4, <1>5, <1>6, Zenon DEF AdmissionInv

(* An address with a session has an active count.                          *)
LEMMA HeldIsActive ==
  ASSUME AdmissionInv, EveryReleaseAppliedOnce, NEW s \in Sessions, pc[s] \in Holding
  PROVE  User(s) \in Users /\ entry[s][2] \in ActiveIps(User(s))
<1>1. entry[s] \in Entries
  BY DEF AdmissionInv, TaskOK, Holding
<1>2. s \in Holders(entry[s]) /\ IsFiniteSet(Holders(entry[s]))
  BY SomeSessions, Zenon DEF Holders
<1>3. Cardinality(Holders(entry[s])) \in Nat /\ Cardinality(Holders(entry[s])) # 0
  BY <1>2, FS_EmptySet, FS_CardinalityType, Zenon
<1>4. queue[entry[s]] \in Nat /\ Taken(entry[s]) \in Nat
  BY <1>1, TakenNat, Zenon DEF AdmissionInv, QueueOK
<1>5. active[entry[s]] > 0
  BY <1>1, <1>3, <1>4 DEF EveryReleaseAppliedOnce
<1>6. entry[s] = <<entry[s][1], entry[s][2]>> /\ entry[s][1] \in Users /\ entry[s][2] \in Ips
  BY <1>1 DEF Entries
<1> QED
  BY <1>5, <1>6 DEF ActiveIps, User

LEMMA AdmissionImplied ==
  ASSUME AdmissionInv
  PROVE  AdmissionExact
<1>1. ASSUME ops \cap {"delete", "mode"} = {} PROVE LiveIpsWithinLimit
  <2>1. EveryReleaseAppliedOnce
    BY <1>1, Zenon DEF AdmissionInv, ReleasesOK
  <2>2. SUFFICES ASSUME NEW u \in Users, mode \in {"active", "combined"}, AlwaysLimited
                 PROVE  Cardinality({entry[s][2] : s \in {s \in Sessions : pc[s] \in Holding /\ User(s) = u}})
                          <= LargestLimit
    BY Zenon DEF LiveIpsWithinLimit
  <2> DEFINE ips == {entry[s][2] : s \in {s \in Sessions : pc[s] \in Holding /\ User(s) = u}}
  <2>3. ips \subseteq ActiveIps(u)
    BY <2>1, HeldIsActive, Zenon
  <2>4. IsFiniteSet(ActiveIps(u)) /\ Cardinality(ActiveIps(u)) \in Nat
    BY SomeIps, Zenon DEF ActiveIps
  <2>5. Cardinality(ActiveIps(u)) <= LargestLimit /\ LargestLimit \in Nat
    BY <1>1, <2>2, AdmissionAssumption DEF AdmissionInv, LimitsOK, LargestLimit
  <2> HIDE DEF ips
  <2>6. IsFiniteSet(ips) /\ Cardinality(ips) <= Cardinality(ActiveIps(u))
    BY <2>3, <2>4, FS_Subset
  <2>7. Cardinality(ips) <= LargestLimit
    BY <2>4, <2>5, <2>6, FS_CardinalityType
  <2> QED
    BY <2>7 DEF ips
<1> QED
  BY <1>1 DEF AdmissionInv, AdmissionExact, TrackerOK, ReleasesOK, ConnectsOK

(* For any users, addresses, tasks and limits, and whatever the operator   *)
(* does: the entry counters are those of the tables; where no user is      *)
(* deleted each admitted session is released exactly once, however rollbacks, *)
(* guards, dropped tasks and the two drains interleave; live sessions keep *)
(* to the unique-IP limit, a reload of the limits included; and            *)
(* curr_connects is the number of counted connections.                     *)
THEOREM AdmissionStaysExact == Spec => []AdmissionExact
<1>1. Init => AdmissionInv
  BY AdmissionInit
<1>2. AdmissionInv /\ [Next]_vars => AdmissionInv'
  <2> SUFFICES ASSUME AdmissionInv, [Next]_vars PROVE AdmissionInv'
    OBVIOUS
  <2>1. TaskOK' /\ QueueOK' /\ TrackerOK' /\ ConnectsOK' /\ LimitsOK'
    BY TaskKept, QueueKept, TrackerStep, ConnectsKept, LimitsKept, Zenon
  <2>2. ReleasesOK'
    BY <2>1, ReleasesKept
  <2> QED
    BY <2>1, <2>2 DEF AdmissionInv
<1>3. AdmissionInv => AdmissionExact
  BY AdmissionImplied
<1> QED
  BY <1>1, <1>2, <1>3, PTL DEF Spec
=============================================================================
