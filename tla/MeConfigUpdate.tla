--------------------------- MODULE MeConfigUpdate ---------------------------
(***************************************************************************)
(* The tasks that keep the endpoint maps of the Middle-End pool and its    *)
(* secret up to date (src/src/transport/middle_proxy/: config_updater,     *)
(* pool_config, secret, rotation): the updater fetches both maps and the   *)
(* secret, applies what was seen often enough and queues a trigger; the    *)
(* scheduler takes triggers from the bounded queue, coalesces them and     *)
(* runs one reinit at a time, which loads the maps as it begins.           *)
(***************************************************************************)
EXTENDS Integers, Sequences, TLC

CONSTANTS
  Families,        \* in the order of the fetches, <<"v4", "v6">>
  Snapshots,       \* endpoint maps the server may publish, functions from DCs
  Secrets,
  StableSnapshots, \* me_config_stable_snapshots and proxy_secret_stable_snapshots
  RejectEmpty,     \* me_snapshot_reject_empty_map
  Capacity,        \* me_reinit_trigger_channel
  None,
  MaxPublished, MaxFailures, MaxPeriodic

VARIABLES
  src,       \* the map the server publishes for each family
  srcSecret, \* and the secret
  pc,        \* step of the updater's cycle
  ready,     \* ready_v4, ready_v6
  stable,    \* StableSnapshot of each family and of the secret
  recent,    \* history: the last accepted snapshots of each family
  cooling,   \* the apply cooldown has not passed
  maps,      \* proxy_map_v4 and proxy_map_v6 of the pool
  secret, epoch,
  changed,   \* maps_changed of the cycle
  queue,     \* trigger channel
  sched,     \* scheduler: idle, coalescing or in a reinit
  loaded,    \* maps the last reinit loaded
  spent

vars == <<src, srcSecret, pc, ready, stable, recent, cooling, maps, secret, epoch, changed, queue,
          sched, loaded, spent>>

Fam == {Families[k] : k \in DOMAIN Families}
Empty == <<>>
\* Negative DCs mirror the positive ones when they are absent.
Mirror(m) == m @@ [d \in {-k : k \in {j \in DOMAIN m : j > 0}} |-> m[-d]]

Init ==
  /\ src \in [Fam -> Snapshots]
  /\ srcSecret \in Secrets /\ secret = srcSecret
  /\ maps = [f \in Fam |-> Mirror(src[f])]
  /\ loaded = maps
  /\ pc = "idle" /\ ready = [f \in Fam |-> None]
  /\ stable = [f \in Fam \cup {"secret"} |-> [cand |-> None, hits |-> 0, applied |-> None]]
  /\ recent = [f \in Fam |-> <<>>]
  /\ cooling = FALSE /\ changed = FALSE /\ epoch = 0
  /\ queue = <<>> /\ sched = "idle"
  /\ spent = [published |-> 0, failures |-> 0, periodic |-> 0]

Spend(what, bound) == spent[what] < bound /\ spent' = [spent EXCEPT ![what] = @ + 1]

\* The server publishes another map or secret.
Publish ==
  /\ Spend("published", MaxPublished)
  /\ \/ \E f \in Fam : \E s \in Snapshots \ {src[f]} : src' = [src EXCEPT ![f] = s] /\ UNCHANGED srcSecret
     \/ \E k \in Secrets \ {srcSecret} : srcSecret' = k /\ UNCHANGED src
  /\ UNCHANGED <<pc, ready, stable, recent, cooling, maps, secret, epoch, changed, queue, sched, loaded>>

-----------------------------------------------------------------------------
(***************************************************************************)
(* StableSnapshot.                                                         *)
(***************************************************************************)
\* hits is capped by the threshold: only whether it is reached is ever asked.
observe(st, v) ==
  IF st.cand = v THEN [st EXCEPT !.hits = IF @ < StableSnapshots THEN @ + 1 ELSE @]
  ELSE [st EXCEPT !.cand = v, !.hits = 1]

Ready(st, v) == st.hits >= StableSnapshots /\ st.applied # v
mark_applied(st, v) == [st EXCEPT !.applied = v]

\* The last snapshots that passed, as many as the threshold asks for.
Recorded(s, v) == IF Len(s) < StableSnapshots THEN Append(s, v) ELSE Append(Tail(s), v)

-----------------------------------------------------------------------------
(***************************************************************************)
(* run_update_cycle.                                                       *)
(***************************************************************************)
\* me_config_updater: the timer fired, or the interval was made shorter.
me_config_updater ==
  /\ pc = "idle" /\ pc' = Families[1]
  /\ ready' = [f \in Fam |-> None] /\ changed' = FALSE
  /\ UNCHANGED <<src, srcSecret, stable, recent, cooling, maps, secret, epoch, queue, sched, loaded, spent>>

After(f) == IF f = Families[Len(Families)] THEN "apply" ELSE Families[Len(Families)]

\* retry_fetch gave a map that passes the guards.
FetchMap(f) ==
  /\ pc = f /\ pc' = After(f)
  /\ stable' = [stable EXCEPT ![f] = observe(@, src[f])]
  /\ recent' = [recent EXCEPT ![f] = Recorded(@, src[f])]
  /\ ready' = [ready EXCEPT ![f] = IF Ready(stable'[f], src[f]) THEN src[f] ELSE None]
  /\ UNCHANGED <<src, srcSecret, cooling, maps, secret, epoch, changed, queue, sched, loaded, spent>>

\* Three attempts failed, or the answer was refused by snapshot_passes_guards.
snapshot_passes_guards(f) ==
  /\ pc = f /\ pc' = After(f)
  /\ Spend("failures", MaxFailures)
  /\ UNCHANGED <<src, srcSecret, ready, stable, recent, cooling, maps, secret, epoch, changed, queue, sched, loaded>>

Update(f) == IF ready[f] = None THEN Empty ELSE ready[f]
NothingToApply == \A f \in Fam : Update(f) = Empty

\* Empty updates keep the map of their family; negative DCs are mirrored.
update_proxy_maps(f) == IF Update(f) = Empty THEN maps[f] ELSE Mirror(Update(f))

\* A raw map that differs from the mirrored one in place counts as a change.
MapsDiffer == \E f \in Fam : Update(f) # Empty /\ maps[f] # Update(f)

\* Apply under the cooldown: an empty update is refused or counts as applied.
ApplyMaps ==
  /\ pc = "apply"
  /\ IF (\A f \in Fam : ready[f] = None) \/ cooling \/ (NothingToApply /\ RejectEmpty)
       THEN pc' = "trigger" /\ UNCHANGED <<stable, maps, changed, cooling>>
       ELSE /\ maps' = [f \in Fam |-> update_proxy_maps(f)]
            /\ changed' = MapsDiffer
            /\ stable' = [f \in DOMAIN stable |->
                            IF f \in Fam /\ ready[f] # None THEN mark_applied(stable[f], ready[f])
                            ELSE stable[f]]
            /\ cooling' = TRUE
            /\ pc' = "trigger"
  /\ UNCHANGED <<src, srcSecret, ready, recent, secret, epoch, queue, sched, loaded, spent>>

CooldownPasses ==
  /\ cooling /\ cooling' = FALSE
  /\ UNCHANGED <<src, srcSecret, pc, ready, stable, recent, maps, secret, epoch, changed, queue, sched, loaded, spent>>

\* enqueue_reinit_trigger drops the trigger when the queue is full.
enqueue_reinit_trigger(t) == queue' = IF Len(queue) < Capacity THEN Append(queue, t) ELSE queue

\* Mutant: the trigger is held back by the cooldown too.
TriggerUnlessCooling == IF changed /\ ~cooling THEN enqueue_reinit_trigger("map") ELSE UNCHANGED queue

TriggerIfChanged == IF changed THEN enqueue_reinit_trigger("map") ELSE UNCHANGED queue

QueueTrigger ==
  /\ pc = "trigger" /\ pc' = "secret"
  /\ TriggerIfChanged
  /\ UNCHANGED <<src, srcSecret, ready, stable, recent, cooling, maps, secret, epoch, changed, sched, loaded, spent>>

\* download_proxy_secret and update_secret, which begins a new key epoch.
update_secret ==
  /\ pc = "secret" /\ pc' = "idle"
  /\ \/ /\ LET st == observe(stable["secret"], srcSecret) IN
           IF Ready(st, srcSecret)
             THEN /\ stable' = [stable EXCEPT !["secret"] = mark_applied(st, srcSecret)]
                  /\ secret' = srcSecret
                  /\ epoch' = IF secret = srcSecret THEN epoch ELSE epoch + 1
             ELSE stable' = [stable EXCEPT !["secret"] = st] /\ UNCHANGED <<secret, epoch>>
        /\ UNCHANGED spent
     \/ Spend("failures", MaxFailures) /\ UNCHANGED <<stable, secret, epoch>>
  /\ UNCHANGED <<src, srcSecret, ready, recent, cooling, maps, changed, queue, sched, loaded>>

-----------------------------------------------------------------------------
(***************************************************************************)
(* Rotation timer and scheduler.                                           *)
(***************************************************************************)
me_rotation_task ==
  /\ Spend("periodic", MaxPeriodic)
  /\ enqueue_reinit_trigger("periodic")
  /\ UNCHANGED <<src, srcSecret, pc, ready, stable, recent, cooling, maps, secret, epoch, changed, sched, loaded>>

ReceiveTrigger ==
  /\ sched \in {"idle", "coalesce"} /\ queue # <<>>
  /\ queue' = Tail(queue) /\ sched' = "coalesce"
  /\ UNCHANGED <<src, srcSecret, pc, ready, stable, recent, cooling, maps, secret, epoch, changed, loaded, spent>>

\* The window closes; the reinit loads the maps of both families.
me_reinit_scheduler ==
  /\ sched = "coalesce" /\ sched' = "running"
  /\ loaded' = maps
  /\ UNCHANGED <<src, srcSecret, pc, ready, stable, recent, cooling, maps, secret, epoch, changed, queue, spent>>

ReinitDone ==
  /\ sched = "running" /\ sched' = "idle"
  /\ UNCHANGED <<src, srcSecret, pc, ready, stable, recent, cooling, maps, secret, epoch, changed, queue, loaded, spent>>

Cycle ==
  \/ me_config_updater \/ ApplyMaps \/ QueueTrigger \/ update_secret
  \/ \E f \in Fam : FetchMap(f) \/ snapshot_passes_guards(f)

Scheduler == ReceiveTrigger \/ me_reinit_scheduler \/ ReinitDone

Next == Publish \/ Cycle \/ CooldownPasses \/ me_rotation_task \/ Scheduler

-----------------------------------------------------------------------------
\* A map in the pool is replaced only by one the server gave, unchanged, as
\* often in a row as the threshold asks, and never by an empty one.
OnlyStableMapsApplied ==
  \A f \in Fam : maps'[f] # maps[f] =>
    \E s \in Snapshots \ {Empty} :
      maps'[f] = Mirror(s) /\ recent[f] = [k \in 1..StableSnapshots |-> s]

\* What the server keeps publishing reaches the pool, and a reinit that has
\* loaded it follows, although triggers are dropped when the queue is full,
\* coalesced and served one at a time, and with no periodic trigger to help.
Reinitialized ==
  \A f \in Fam : src[f] # Empty => maps[f] = Mirror(src[f]) /\ loaded[f] = maps[f]
PublishedMapIsReinitialized == <>[]Reinitialized
=============================================================================
