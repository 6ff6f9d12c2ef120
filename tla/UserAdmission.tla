---------------------------- MODULE UserAdmission ----------------------------
(***************************************************************************)
(* Admission of authenticated sessions: the enabled check, the counted     *)
(* connection of the user, the unique-IP tracker with its deferred         *)
(* cleanups, the session registry, and what the control API does to them   *)
(* while sessions come and go (src/src/proxy/client.rs, src/src/           *)
(* ip_tracker*, src/src/stats/users.rs, src/src/proxy/shared_state.rs).    *)
(*                                                                         *)
(* An entry is a <<user, ip>> pair.  A map of the tracker is a function on *)
(* entries; 0 or "none" stands for an absent key.  Every step that holds   *)
(* a shard lock or the queue mutex is one action.  Shards only split the   *)
(* users, so the model has one.                                            *)
(***************************************************************************)
EXTENDS UnitSums

CONSTANTS
  Sessions,     \* client tasks
  Users, Ips,
  Drainers,     \* tasks that run drain_cleanup_queue: maintenance, API queries
  ConnLimit,    \* user_max_tcp_conns of each user, 0 when unlimited
  IpLimit,      \* user_max_unique_ips of every user
  DefaultLimit, \* user_max_unique_ips_global_each, 0 when unlimited
  Modes,        \* limit modes the operator may choose; the first one is nondeterministic
  MaxActive,    \* MAX_ACTIVE_IP_ENTRIES
  MaxRecent,    \* MAX_RECENT_IP_ENTRIES
  BatchLimit    \* CLEANUP_DRAIN_BATCH_LIMIT

ASSUME AdmissionAssumption ==
  /\ IsFiniteSet(Sessions) /\ IsFiniteSet(Users) /\ IsFiniteSet(Ips)
  /\ IsFiniteSet(Drainers) /\ Sessions \cap Drainers = {}
  /\ ConnLimit \in [Users -> Nat] /\ IpLimit \in Nat /\ DefaultLimit \in Nat
  /\ Modes \subseteq {"active", "time", "combined"}
  /\ MaxActive \in Nat /\ MaxRecent \in Nat /\ BatchLimit \in Nat \ {0}

Entries == Users \X Ips
NoBatch == [e \in Entries |-> 0]
NoEntry == <<>>
ControlOps == {"disable", "delete", "reload", "mode", "telemetry"}

Steps == {"idle", "checked", "counted", "draining", "adding", "rollback", "admitted",
          "live", "releasing", "removed", "dropping"}

VARIABLES
  pc,          \* where each client task stands
  entry,       \* the user and address of each running task
  active,      \* active_ips: sessions per entry
  recent,      \* recent_ips: "none", "fresh" or "stale" against the window
  activeCount, \* active_entry_count
  recentCount, \* recent_entry_count
  queue,       \* cleanup queue: deferred releases per entry
  queueLen,    \* cleanup_queue_len
  batch,       \* entries a task took from the queue and has still to apply
  connects,    \* curr_connects per user
  counted,     \* tasks whose connection was really counted
  telemetry,   \* general.telemetry.user_enabled
  limit,       \* max_ips, 0 when the user has no entry
  mode,        \* limit_mode
  disabled,    \* disabled_users
  cancelled,   \* tasks whose session token is cancelled
  pending,     \* what an API handler has still to do for a user
  ops          \* the control operations of this behaviour; the others never happen

trackerVars == <<active, recent, activeCount, recentCount>>
queueVars == <<queue, queueLen, batch>>
connVars == <<connects, counted>>
policyVars == <<telemetry, limit, mode, ops>>
controlVars == <<disabled, cancelled, pending>>
vars == <<pc, entry, active, recent, activeCount, recentCount, queue, queueLen, batch,
          connects, counted, telemetry, limit, mode, disabled, cancelled, pending, ops>>

-----------------------------------------------------------------------------
User(s) == entry[s][1]
Queued(q) == {e \in Entries : q[e] > 0}
ActiveIps(u) == {ip \in Ips : active[<<u, ip>>] > 0}
IpsIn(r, u) == {ip \in Ips : r[<<u, ip>>] # "none"}
Fresh(r) == {e \in Entries : r[e] # "none"}

\* cleanup_queue_len counts entries, not the releases they collect.
BatchLen(b) == Cardinality(Queued(b))

Goto(s, step) == pc' = [pc EXCEPT ![s] = step] /\ UNCHANGED entry
Leave(s) == pc' = [pc EXCEPT ![s] = "idle"] /\ entry' = [entry EXCEPT ![s] = NoEntry]

user_limit(u) == IF limit[u] > 0 THEN limit[u] ELSE DefaultLimit

\* prune_recent on the entries of the users in U.
Pruned(U) ==
  [e \in Entries |-> IF e[1] \in U /\ recent[e] = "stale" THEN "none" ELSE recent[e]]

\* maybe_compact_empty_users prunes everyone once its interval elapsed.
Compacted(due) == Pruned(IF due THEN Users ELSE {})
RecentCountKept(r) == recentCount
RecentCountOf(r) ==
  SaturatingSub(recentCount, Cardinality(Fresh(recent)) - Cardinality(Fresh(r)))

apply_active_cleanup(b) == [e \in Entries |-> SaturatingSub(active[e], b[e])]

\* Applies a batch under the shard lock and lowers the entry counter.
ApplyBatch(b) ==
  /\ active' = apply_active_cleanup(b)
  /\ activeCount' = SaturatingSub(activeCount,
                      Cardinality({e \in Entries : active[e] > 0 /\ active'[e] = 0}))
  /\ UNCHANGED <<recent, recentCount>>

\* decrement_user_curr_connects
Decrement(u) == [connects EXCEPT ![u] = SaturatingSub(@, 1)]

-----------------------------------------------------------------------------
Init ==
  /\ pc = [s \in Sessions |-> "idle"]
  /\ entry = [s \in Sessions |-> NoEntry]
  /\ active = NoBatch
  /\ recent = [e \in Entries |-> "none"]
  /\ activeCount = 0 /\ recentCount = 0
  /\ queue = NoBatch /\ queueLen = 0
  /\ batch = [t \in Sessions \cup Drainers |-> NoBatch]
  /\ connects = [u \in Users |-> 0]
  /\ counted = {}
  /\ telemetry = TRUE
  /\ limit = [u \in Users |-> IpLimit]
  /\ mode \in Modes
  /\ disabled = {} /\ cancelled = {}
  /\ pending = [u \in Users |-> "none"]
  /\ ops \in SUBSET ControlOps

(***************************************************************************)
(* A client task: handle_authenticated_static_with_shared.                 *)
(***************************************************************************)

\* A task of some user and address passes the enabled check.
Authenticate(s, e) ==
  /\ pc[s] = "idle"
  /\ e[1] \notin disabled
  /\ pc' = [pc EXCEPT ![s] = "checked"]
  /\ entry' = [entry EXCEPT ![s] = e]
  /\ UNCHANGED <<trackerVars, queueVars, connVars, policyVars, controlVars>>

\* Expiration and quota are inputs: either may refuse the task.
RefuseAccount(s) ==
  /\ pc[s] = "checked"
  /\ Leave(s)
  /\ UNCHANGED <<trackerVars, queueVars, connVars, policyVars, controlVars>>

BelowConnLimit(u) == ConnLimit[u] = 0 \/ connects[u] < ConnLimit[u]

\* try_acquire_user_curr_connects counts only while user telemetry is on.
TryAcquire(s) ==
  /\ pc[s] = "checked"
  /\ \/ /\ ~telemetry
        /\ Goto(s, "counted")
        /\ UNCHANGED connVars
     \/ /\ telemetry /\ BelowConnLimit(User(s))
        /\ Goto(s, "counted")
        /\ connects' = [connects EXCEPT ![User(s)] = @ + 1]
        /\ counted' = counted \cup {s}
     \/ /\ telemetry /\ ~BelowConnLimit(User(s))
        /\ Leave(s)
        /\ UNCHANGED connVars
  /\ UNCHANGED <<trackerVars, queueVars, policyVars, controlVars>>

\* drain_cleanup_for_user: skip on an empty queue, else take the user's cleanups.
DrainTake(s) ==
  LET mine == [e \in Entries |-> IF e[1] = User(s) THEN queue[e] ELSE 0] IN
  /\ pc[s] = "counted"
  /\ \/ /\ queueLen = 0 \/ mine = NoBatch
        /\ Goto(s, "adding")
        /\ UNCHANGED queueVars
     \/ /\ queueLen > 0 /\ mine # NoBatch
        /\ queue' = [e \in Entries |-> queue[e] - mine[e]]
        /\ batch' = [batch EXCEPT ![s] = mine]
        /\ Goto(s, "draining")
        /\ UNCHANGED queueLen
  /\ UNCHANGED <<trackerVars, connVars, policyVars, controlVars>>

DrainApply(s) ==
  /\ pc[s] = "draining"
  /\ queueLen' = queueLen - BatchLen(batch[s])
  /\ ApplyBatch(batch[s])
  /\ batch' = [batch EXCEPT ![s] = NoBatch]
  /\ Goto(s, "adding")
  /\ UNCHANGED <<queue, connVars, policyVars, controlVars>>

ActiveLimitReached(u) == Cardinality(ActiveIps(u)) >= user_limit(u)
RecentLimitReached(u, r, ip) ==
  Cardinality(IpsIn(r, u)) >= user_limit(u) /\ ip \notin IpsIn(r, u)

\* The verdict of the limit for an address that has no active entry.
Denied(e, r) ==
  /\ user_limit(e[1]) > 0
  /\ \/ mode \in {"active", "combined"} /\ ActiveLimitReached(e[1])
     \/ mode \in {"time", "combined"} /\ RecentLimitReached(e[1], r, e[2])

\* A known address skips the limit and the cap on active entries.
Admits(e, r) ==
  /\ active[e] > 0 \/ (~Denied(e, r) /\ activeCount < MaxActive)
  /\ r[e] # "none" \/ RecentCountOf(r) < MaxRecent

\* check_and_add under the shard lock, after the compaction it may run.
CheckAndAdd(s) ==
  LET e == entry[s] IN
  /\ pc[s] = "adding"
  /\ \E due \in BOOLEAN :
       LET r == Pruned(IF due THEN Users ELSE {e[1]}) IN
       \/ /\ Admits(e, r)
          /\ active' = [active EXCEPT ![e] = @ + 1]
          /\ activeCount' = activeCount + (IF active[e] > 0 THEN 0 ELSE 1)
          /\ recent' = [r EXCEPT ![e] = "fresh"]
          /\ recentCount' = RecentCountOf(r) + (IF r[e] = "none" THEN 1 ELSE 0)
          /\ Goto(s, "admitted")
       \/ /\ ~Admits(e, r)
          /\ recent' = r
          /\ recentCount' = RecentCountOf(r)
          /\ Goto(s, "rollback")
          /\ UNCHANGED <<active, activeCount>>
  /\ UNCHANGED <<queueVars, connVars, policyVars, controlVars>>

\* A refused task gives its counted connection back.
Rollback(s) ==
  /\ pc[s] = "rollback"
  /\ connects' = Decrement(User(s))
  /\ counted' = counted \ {s}
  /\ Leave(s)
  /\ UNCHANGED <<trackerVars, queueVars, policyVars, controlVars>>

\* register_user_session, and the relay starts.
Register(s) ==
  /\ pc[s] = "admitted"
  /\ Goto(s, "live")
  /\ UNCHANGED <<trackerVars, queueVars, connVars, policyVars, controlVars>>

\* The relay returned, by itself or because its token was cancelled.
Finish(s) ==
  /\ pc[s] = "live"
  /\ Goto(s, "releasing")
  /\ UNCHANGED <<trackerVars, queueVars, connVars, policyVars, controlVars>>

\* release: remove_ip under the shard lock, after the compaction it may run.
RemoveIp(s) ==
  LET e == entry[s] IN
  /\ pc[s] = "releasing"
  /\ \E due \in BOOLEAN :
       /\ recent' = Compacted(due)
       /\ recentCount' = RecentCountOf(recent')
  /\ active' = [active EXCEPT ![e] = SaturatingSub(@, 1)]
  /\ activeCount' = IF active[e] = 1 THEN SaturatingSub(activeCount, 1) ELSE activeCount
  /\ Goto(s, "removed")
  /\ UNCHANGED <<queueVars, connVars, policyVars, controlVars>>

\* release: the counted connection, then the guard leaves the registry.
ReleaseConnection(s) ==
  /\ pc[s] = "removed"
  /\ connects' = Decrement(User(s))
  /\ counted' = counted \ {s}
  /\ cancelled' = cancelled \ {s}
  /\ Leave(s)
  /\ UNCHANGED <<trackerVars, queueVars, policyVars, disabled, pending>>

\* The task is dropped in its relay: the guard goes first, then the reservation.
Abandon(s) ==
  /\ pc[s] = "live"
  /\ connects' = Decrement(User(s))
  /\ counted' = counted \ {s}
  /\ cancelled' = cancelled \ {s}
  /\ Goto(s, "dropping")
  /\ UNCHANGED <<trackerVars, queueVars, policyVars, disabled, pending>>

\* An entry is counted once however often it is released.
QueueGrowth(e) == IF queue[e] = 0 THEN 1 ELSE 0

enqueue_cleanup(s) ==
  LET e == entry[s] IN
  /\ pc[s] = "dropping"
  /\ queue' = [queue EXCEPT ![e] = @ + 1]
  /\ queueLen' = queueLen + QueueGrowth(e)
  /\ Leave(s)
  /\ UNCHANGED <<trackerVars, batch, connVars, policyVars, controlVars>>

(***************************************************************************)
(* drain_cleanup_queue, run by the maintenance task every second and by    *)
(* the API's queries.                                                      *)
(***************************************************************************)

\* The early return of the drains.
SomethingQueuedOffByOne == queueLen > 1
SomethingQueued == queueLen > 0

\* Up to BatchLimit entries leave the queue, in the map's own order.
TakeBatch(t) ==
  /\ batch[t] = NoBatch
  /\ SomethingQueued /\ Queued(queue) # {}
  /\ \E taken \in SUBSET Queued(queue) :
       /\ Cardinality(taken) <= BatchLimit
       /\ Cardinality(taken) = BatchLimit \/ taken = Queued(queue)
       /\ queue' = [e \in Entries |-> IF e \in taken THEN 0 ELSE queue[e]]
       /\ queueLen' = queueLen - Cardinality(taken)
       /\ batch' = [batch EXCEPT ![t] = [e \in Entries |-> IF e \in taken THEN queue[e] ELSE 0]]
  /\ UNCHANGED <<pc, entry, trackerVars, connVars, policyVars, controlVars>>

ApplyTaken(t) ==
  /\ batch[t] # NoBatch
  /\ ApplyBatch(batch[t])
  /\ batch' = [batch EXCEPT ![t] = NoBatch]
  /\ UNCHANGED <<pc, entry, queue, queueLen, connVars, policyVars, controlVars>>

\* The compaction of the maintenance task.
Compact ==
  /\ Compacted(TRUE) # recent
  /\ recent' = Compacted(TRUE)
  /\ recentCount' = RecentCountOf(recent')
  /\ UNCHANGED <<pc, entry, active, activeCount, queueVars, connVars, policyVars, controlVars>>

\* The window of a recent entry elapses.
Age(e) ==
  /\ recent[e] = "fresh"
  /\ recent' = [recent EXCEPT ![e] = "stale"]
  /\ UNCHANGED <<pc, entry, active, activeCount, recentCount, queueVars, connVars, policyVars,
                 controlVars>>

(***************************************************************************)
(* Control operations.                                                     *)
(***************************************************************************)

\* The API or a reload adds the user to disabled_users and then cancels.
DisableUser(u) ==
  /\ "disable" \in ops
  /\ pending[u] = "none" /\ u \notin disabled
  /\ disabled' = disabled \cup {u}
  /\ pending' = [pending EXCEPT ![u] = "cancel"]
  /\ UNCHANGED <<pc, entry, trackerVars, queueVars, connVars, policyVars, cancelled>>

Registered(u) == {s \in Sessions : pc[s] \in {"live", "releasing", "removed"} /\ User(s) = u}

\* cancel_user_sessions; a deleted user is enabled again just before it.
CancelUserSessions(u) ==
  /\ pending[u] \in {"cancel", "enable_and_cancel"}
  /\ disabled' = IF pending[u] = "cancel" THEN disabled ELSE disabled \ {u}
  /\ cancelled' = cancelled \cup Registered(u)
  /\ pending' = [pending EXCEPT ![u] = "none"]
  /\ UNCHANGED <<pc, entry, trackerVars, queueVars, connVars, policyVars>>

EnableUser(u) ==
  /\ pending[u] = "none" /\ u \in disabled
  /\ disabled' = disabled \ {u}
  /\ UNCHANGED <<pc, entry, trackerVars, queueVars, connVars, policyVars, cancelled, pending>>

Without(f, u, absent) == [e \in Entries |-> IF e[1] = u THEN absent ELSE f[e]]

\* delete_user: remove_user_limit and clear_user_ips; queued cleanups stay.
DeleteUser(u) ==
  /\ "delete" \in ops
  /\ pending[u] = "none"
  /\ limit' = [limit EXCEPT ![u] = 0]
  /\ active' = Without(active, u, 0)
  /\ activeCount' = SaturatingSub(activeCount, Cardinality(ActiveIps(u)))
  /\ recent' = Without(recent, u, "none")
  /\ recentCount' = SaturatingSub(recentCount, Cardinality(IpsIn(recent, u)))
  /\ pending' = [pending EXCEPT ![u] = "enable_and_cancel"]
  /\ UNCHANGED <<pc, entry, queueVars, connVars, telemetry, mode, ops, disabled, cancelled>>

\* load_limits clears the map ...
ReloadClear ==
  /\ "reload" \in ops
  /\ \A u \in Users : pending[u] = "none"
  /\ limit' = [u \in Users |-> 0]
  /\ pending' = [u \in Users |-> "insert"]
  /\ UNCHANGED <<pc, entry, trackerVars, queueVars, connVars, telemetry, mode, ops, disabled, cancelled>>

\* ... and inserts the configured limits one by one.
ReloadInsert(u) ==
  /\ pending[u] = "insert"
  /\ limit' = [limit EXCEPT ![u] = IpLimit]
  /\ pending' = [pending EXCEPT ![u] = "none"]
  /\ UNCHANGED <<pc, entry, trackerVars, queueVars, connVars, telemetry, mode, ops, disabled, cancelled>>

set_limit_policy(m) ==
  /\ "mode" \in ops
  /\ m # mode
  /\ mode' = m
  /\ UNCHANGED <<pc, entry, trackerVars, queueVars, connVars, telemetry, limit, ops, controlVars>>

\* A hot reload switches the per-user telemetry counters.
SwitchTelemetry ==
  /\ "telemetry" \in ops
  /\ telemetry' = ~telemetry
  /\ UNCHANGED <<pc, entry, trackerVars, queueVars, connVars, limit, mode, ops, controlVars>>

-----------------------------------------------------------------------------
TaskStep(s) ==
  \/ TryAcquire(s) \/ DrainTake(s) \/ DrainApply(s) \/ CheckAndAdd(s) \/ Rollback(s)
  \/ Register(s) \/ RemoveIp(s) \/ ReleaseConnection(s) \/ enqueue_cleanup(s)

Maintenance == \/ \E t \in Drainers : TakeBatch(t) \/ ApplyTaken(t)
               \/ Compact

Admin ==
  \/ \E u \in Users : \/ DisableUser(u) \/ CancelUserSessions(u) \/ EnableUser(u)
                      \/ DeleteUser(u) \/ ReloadInsert(u)
  \/ ReloadClear
  \/ \E m \in Modes : set_limit_policy(m)
  \/ SwitchTelemetry

Next ==
  \/ \E s \in Sessions : \/ \E e \in Entries : Authenticate(s, e)
                         \/ RefuseAccount(s) \/ TaskStep(s) \/ Finish(s) \/ Abandon(s)
  \/ Maintenance
  \/ \E e \in Entries : Age(e)
  \/ Admin

Spec == Init /\ [][Next]_vars

\* Tasks run to their next await or lock, a cancelled relay returns, the
\* maintenance interval ticks, and an API handler completes.  Nothing forces a
\* client to connect or to leave.
FairSpec ==
  /\ Spec
  /\ \A s \in Sessions : WF_vars(TaskStep(s)) /\ WF_vars(s \in cancelled /\ Finish(s))
  /\ \A t \in Drainers : WF_vars(TakeBatch(t)) /\ WF_vars(ApplyTaken(t))
  /\ \A u \in Users : WF_vars(CancelUserSessions(u))

-----------------------------------------------------------------------------
\* The two global counters the caps are enforced on (active_entry_count,
\* recent_entry_count) are exactly the number of entries of the maps, through
\* every prune, deferred cleanup, rollback and deletion.
EntryCountsExact ==
  /\ activeCount = Cardinality(Queued(active))
  /\ recentCount = Cardinality(Fresh(recent))

Holding == {"admitted", "live", "releasing", "dropping"}
Holders(e) == {s \in Sessions : pc[s] \in Holding /\ entry[s] = e}
Taken(e) == SumOver(Sessions \cup Drainers, [t \in Sessions \cup Drainers |-> batch[t][e]])

\* Every admitted session is accounted for exactly once: an active count is
\* the sessions that still own it plus the releases waiting in the queue or in
\* a batch that was taken but not yet applied.
EveryReleaseAppliedOnce ==
  \A e \in Entries : active[e] = Cardinality(Holders(e)) + queue[e] + Taken(e)

\* The limit an admission may have met: while the limits are reloaded a user
\* has none of its own, and then the global one counts.
LargestLimit == IF "reload" \in ops /\ DefaultLimit > IpLimit THEN DefaultLimit ELSE IpLimit
AlwaysLimited == IpLimit > 0 /\ ("reload" \in ops => DefaultLimit > 0)

\* The sessions a user has running come from at most as many addresses as the
\* limit allows, whatever cleanups are in flight (modes with an active window).
LiveIpsWithinLimit ==
  \A u \in Users :
    LET ips == {entry[s][2] : s \in {s \in Sessions : pc[s] \in Holding /\ User(s) = u}} IN
    mode \in {"active", "combined"} /\ AlwaysLimited => Cardinality(ips) <= LargestLimit

\* curr_connects is the number of tasks that hold a counted connection, so
\* neither a rollback nor either release path loses or repeats a decrement.
ConnectsExact ==
  \A u \in Users : connects[u] = Cardinality({s \in counted : User(s) = u})

\* The counters of the tracker are those of its tables, always.  Where no user
\* is deleted, every release of an address is applied exactly once, and live
\* sessions keep to the unique-IP limit while the mode stays what it is, also
\* through a reload of the limits; where the telemetry stays on, curr_connects
\* is the number of counted connections.
AdmissionExact ==
  /\ EntryCountsExact
  /\ "delete" \notin ops => EveryReleaseAppliedOnce
  /\ ops \cap {"delete", "mode"} = {} => LiveIpsWithinLimit
  /\ "telemetry" \notin ops => ConnectsExact

\* When the clients are gone for good, every active entry they left behind,
\* also through a dropped task, is eventually removed.
AbandonedEntriesDrain ==
  <>[](\A s \in Sessions : pc[s] = "idle") => <>[](Queued(active) = {})

\* Once a disabled user's sessions have been cancelled, none of that user's
\* relays runs with an uncancelled token.
DisabledUserHasNoRelay ==
  \A u \in disabled : pending[u] = "none" =>
    \A s \in Sessions : pc[s] = "live" /\ User(s) = u => s \in cancelled
=============================================================================
