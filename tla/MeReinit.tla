------------------------------ MODULE MeReinit ------------------------------
(***************************************************************************)
(* Replacing the writers of the Middle-End pool while clients use it       *)
(* (src/src/transport/middle_proxy/: pool_init, pool_reinit, pool_config,  *)
(* rotation): the first connections, the reinit that the map updater and   *)
(* the rotation timer trigger, and the reconnection after a new secret.    *)
(* Two things are cut down: one address family, and Required writers for   *)
(* every DC.  An action is what a task does between two points where       *)
(* another thread can act; the pending hard swap is stored field by field. *)
(***************************************************************************)
EXTENDS Integers, FiniteSets, FiniteSetsExt

CONSTANTS
  Dcs,
  Maps,           \* endpoint maps, functions from Dcs to sets of addresses
  Tasks,          \* reinits that may run at once
  SingleFlight,   \* me_reinit_singleflight
  Hardswap,
  MinPermille,    \* me_pool_min_fresh_ratio_permille
  Required,       \* required_writers_for_dc
  Attempts,       \* connects of a warmup for one DC: its passes times the missing writers
  MaxWriters, MaxGenerations, MaxChanges, MaxPeriodic, MaxRotations, MaxFaults, MaxLost

Ids == 1..MaxWriters

VARIABLES
  map,        \* proxy_map of the family
  boot,       \* init: connecting, ready or failed
  pool,       \* writer ids in MePool::writers
  attr,       \* DC, address and generation of each of them
  draining,
  generation, active,   \* last generation handed out, active_generation
  pendGen, pendMap,     \* pending hard swap: its generation and map hash
  due,        \* a reinit trigger is in the queue
  failed,     \* the last reinit returned false
  task,       \* reinit tasks
  rot,        \* reconnect_all
  spent       \* bounded events so far

vars == <<map, boot, pool, attr, draining, generation, active, pendGen, pendMap, due, failed,
          task, rot, spent>>

NoMap == [d \in Dcs |-> {}]
Off == [pc |-> "off", hard |-> FALSE, prev |-> 0, gen |-> 0, want |-> NoMap, left |-> {},
        tries |-> 0, snap |-> {}, stale |-> {}, drop |-> FALSE]
Resting == [pc |-> "off", left |-> {}, cur |-> 0]

Init ==
  /\ map \in Maps /\ boot = "connecting"
  /\ pool = {} /\ draining = {}
  /\ attr = [i \in Ids |-> [dc |-> 0, addr |-> 0, gen |-> 0]]
  /\ generation = 1 /\ active = 1
  /\ pendGen = 0 /\ pendMap = NoMap
  /\ due = FALSE /\ failed = FALSE
  /\ task = [t \in Tasks |-> Off]
  /\ rot = Resting
  /\ spent = [changes |-> 0, periodic |-> 0, rotations |-> 0, faults |-> 0, lost |-> 0]

Spend(what, bound) == spent[what] < bound /\ spent' = [spent EXCEPT ![what] = @ + 1]
Live == pool \ draining

\* Ids a task still refers to; the code never gives an id twice.
Held == pool \cup rot.left \cup {rot.cur} \cup UNION {task[t].snap \cup task[t].stale : t \in Tasks}

On(ids, d, addrs) == {i \in ids : attr[i].dc = d /\ attr[i].addr \in addrs}
active_writer_count_for_dc_endpoints(d, addrs) == Cardinality(On(Live, d, addrs))
fresh_writer_count_for_dc_endpoints(g, d, addrs) ==
  Cardinality({i \in On(Live, d, addrs) : attr[i].gen = g})

\* connect_one_for_dc and its variants: a writer joins the pool, or a fault
\* of the network leaves it as it was.
Connects(d, addrs, g) ==
  \E a \in addrs : LET free == Ids \ Held IN
    /\ free # {}
    /\ pool' = pool \cup {Min(free)}
    /\ attr' = [attr EXCEPT ![Min(free)] = [dc |-> d, addr |-> a, gen |-> g]]
    /\ UNCHANGED spent

ConnectFails == Spend("faults", MaxFaults) /\ UNCHANGED <<pool, attr>>

-----------------------------------------------------------------------------
(***************************************************************************)
(* First connections.                                                      *)
(***************************************************************************)
\* A round of connect_primary_for_dc towards the coverage of one DC.
connect_primary_for_dc(d) ==
  /\ boot = "connecting"
  /\ active_writer_count_for_dc_endpoints(d, map[d]) = 0
  /\ Connects(d, map[d], active)
  /\ UNCHANGED <<map, boot, draining, generation, active, pendGen, pendMap, due, failed, task, rot>>

\* init ends: every DC is covered, or it reports the DCs without a writer.
init ==
  /\ boot = "connecting"
  /\ IF \A d \in Dcs : active_writer_count_for_dc_endpoints(d, map[d]) > 0
       THEN boot' = "ready" /\ UNCHANGED spent
       ELSE boot' = "failed" /\ Spend("faults", MaxFaults)
  /\ UNCHANGED <<map, pool, attr, draining, generation, active, pendGen, pendMap, due, failed, task, rot>>

\* Background saturation and refill: one more writer of a DC below its floor.
Refill(d) ==
  /\ boot = "ready"
  /\ active_writer_count_for_dc_endpoints(d, map[d]) < Required
  /\ Connects(d, map[d], active) \/ ConnectFails
  /\ UNCHANGED <<map, boot, draining, generation, active, pendGen, pendMap, due, failed, task, rot>>

-----------------------------------------------------------------------------
(***************************************************************************)
(* Triggers.                                                               *)
(***************************************************************************)
\* update_proxy_maps changed the map and its caller queued MapChanged.
update_proxy_maps(m) ==
  /\ boot = "ready" /\ m # map
  /\ Spend("changes", MaxChanges)
  /\ map' = m /\ due' = TRUE
  /\ UNCHANGED <<boot, pool, attr, draining, generation, active, pendGen, pendMap, failed, task, rot>>

\* me_rotation_task: the timer fires for ever; the bound only counts reinits
\* that find nothing left to do.
OffMap == \E i \in Live : attr[i].addr \notin map[attr[i].dc]
me_rotation_task ==
  /\ boot = "ready" /\ ~due
  /\ IF failed \/ OffMap THEN UNCHANGED spent ELSE Spend("periodic", MaxPeriodic)
  /\ due' = TRUE
  /\ UNCHANGED <<map, boot, pool, attr, draining, generation, active, pendGen, pendMap, failed, task, rot>>

-----------------------------------------------------------------------------
(***************************************************************************)
(* zero_downtime_reinit_after_map_change.                                  *)
(***************************************************************************)
Go(t, r) == task' = [task EXCEPT ![t] = r]
At(t, pc) == Go(t, [task[t] EXCEPT !.pc = pc])

\* The pending generation is continued for the same map and unless it is older
\* than the generation that was active when the task began.
Continues(t) == task[t].gen # 0 /\ task[t].gen >= task[t].prev /\ pendMap = task[t].want

\* The endpoints of the map as it is now.
desired_dc_endpoints == map

\* me_reinit_scheduler takes the triggers in the queue and starts a reinit,
\* which loads the map, the active and the pending generation.
me_reinit_scheduler(t) ==
  /\ due /\ due' = FALSE
  /\ task[t].pc = "off"
  /\ SingleFlight => \A u \in Tasks : task[u].pc = "off"
  /\ Go(t, [Off EXCEPT !.pc = "begin", !.hard = Hardswap, !.want = desired_dc_endpoints, !.left = Dcs,
                       !.prev = active, !.gen = pendGen])
  /\ UNCHANGED <<map, boot, pool, attr, draining, generation, active, pendGen, pendMap, failed, rot, spent>>

\* A new generation, unless the pending one can go on and its time to live has
\* not passed.
BeginGeneration(t) ==
  /\ task[t].pc = "begin" /\ generation < MaxGenerations
  /\ \/ /\ task[t].hard /\ Continues(t)
        /\ At(t, "warm")
        /\ UNCHANGED <<generation, pendGen, pendMap, spent>>
     \/ /\ task[t].hard
        /\ IF Continues(t) THEN Spend("faults", MaxFaults) ELSE UNCHANGED spent
        /\ generation' = generation + 1
        /\ Go(t, [task[t] EXCEPT !.pc = "storeGen", !.gen = generation + 1])
        /\ UNCHANGED <<pendGen, pendMap>>
     \/ /\ ~task[t].hard
        /\ pendGen' = 0 /\ pendMap' = NoMap
        /\ generation' = generation + 1
        /\ Go(t, [task[t] EXCEPT !.pc = "reconcile", !.gen = generation + 1])
        /\ UNCHANGED spent
  /\ UNCHANGED <<map, boot, pool, attr, draining, active, due, failed, rot>>

StorePendingGeneration(t) ==
  /\ task[t].pc = "storeGen"
  /\ pendGen' = task[t].gen
  /\ At(t, "storeMap")
  /\ UNCHANGED <<map, boot, pool, attr, draining, generation, active, pendMap, due, failed, rot, spent>>

StorePendingMap(t) ==
  /\ task[t].pc = "storeMap"
  /\ pendMap' = task[t].want
  /\ At(t, "warm")
  /\ UNCHANGED <<map, boot, pool, attr, draining, generation, active, pendGen, due, failed, rot, spent>>

\* A connect of warmup_generation_for_all_dcs, with the task's own map, to the
\* DC its loop has come to; the writers of the generation are counted again
\* before the next one.
warmup_generation_for_all_dcs(t) ==
  /\ task[t].pc = "warm" /\ task[t].left # {}
  /\ LET d == CHOOSE d \in task[t].left : TRUE
         want == task[t].want[d]
         NextDc == Go(t, [task[t] EXCEPT !.tries = 0, !.left = @ \ {d}])
     IN IF fresh_writer_count_for_dc_endpoints(task[t].gen, d, want) >= Required
             \/ task[t].tries = Attempts
          THEN NextDc /\ UNCHANGED <<pool, attr, spent>>
          ELSE /\ Go(t, [task[t] EXCEPT !.tries = @ + 1])
               /\ Connects(d, want, task[t].gen) \/ ConnectFails
  /\ UNCHANGED <<map, boot, draining, generation, active, pendGen, pendMap, due, failed, rot>>

\* reconcile_connections reads the map again, not the one the task started with.
reconcile_connections(t) ==
  /\ task[t].pc = "reconcile" /\ task[t].left # {}
  /\ \E d \in task[t].left :
       /\ IF active_writer_count_for_dc_endpoints(d, map[d]) = 0
            THEN Connects(d, map[d], active) \/ ConnectFails
            ELSE UNCHANGED <<pool, attr, spent>>
       /\ Go(t, [task[t] EXCEPT !.left = @ \ {d}])
  /\ UNCHANGED <<map, boot, draining, generation, active, pendGen, pendMap, due, failed, rot>>

\* coverage_ratio >= min_ratio.
coverage_ratio(ids, want) == Cardinality({d \in Dcs : On(ids, d, want[d]) # {}})
Enough(ids, want) == coverage_ratio(ids, want) * 1000 >= MinPermille * Cardinality(Dcs)

\* Mutant: the hard swap is gated by the writers of every generation.
AnyGenerationCovers(t) == Enough(Live, task[t].want)

\* The gate before stale writers are touched.
CoverageGate(t) ==
  Enough({i \in Live : task[t].hard => attr[i].gen = task[t].gen}, task[t].want)

\* The snapshot of the pool and the gate: a reinit below the ratio gives up,
\* and a hard swap stays pending.
Gate(t) ==
  /\ task[t].pc \in {"warm", "reconcile"} /\ task[t].left = {}
  /\ IF CoverageGate(t)
       THEN Go(t, [task[t] EXCEPT !.pc = "promote", !.snap = pool]) /\ UNCHANGED failed
       ELSE Go(t, Off) /\ failed' = TRUE
  /\ UNCHANGED <<map, boot, pool, attr, draining, generation, active, pendGen, pendMap, due, rot, spent>>

Stale(t, i) ==
  IF task[t].hard THEN attr[i].gen < task[t].gen ELSE attr[i].addr \notin task[t].want[attr[i].dc]

\* The generation becomes the active one, and the stale writers of the snapshot
\* are listed.
promote_warm_generation_to_active(t) ==
  /\ task[t].pc = "promote"
  /\ active' = IF task[t].hard THEN task[t].gen ELSE active
  /\ LET stale == {i \in (task[t].snap \cap pool) \ draining : Stale(t, i)} IN
     Go(t, [task[t] EXCEPT !.snap = {}, !.stale = stale, !.pc = IF stale = {} THEN "clear" ELSE "drop"])
  /\ UNCHANGED <<map, boot, pool, attr, draining, generation, pendGen, pendMap, due, failed, rot, spent>>

\* Clients may be closed at once when every DC of the current map has a writer.
has_non_draining_writer_per_desired_dc_group(t) ==
  /\ task[t].pc = "drop"
  /\ Go(t, [task[t] EXCEPT !.pc = "drain",
              !.drop = \A d \in Dcs : active_writer_count_for_dc_endpoints(d, map[d]) > 0])
  /\ UNCHANGED <<map, boot, pool, attr, draining, generation, active, pendGen, pendMap, due, failed, rot, spent>>

\* One stale writer drains, and leaves at once if it has a replacement.
DrainStale(t) ==
  /\ task[t].pc = "drain"
  /\ \E i \in task[t].stale :
       /\ Go(t, [task[t] EXCEPT !.stale = @ \ {i}, !.pc = IF task[t].stale = {i} THEN "clear" ELSE "drain"])
       /\ IF i \in pool /\ ~task[t].drop THEN draining' = draining \cup {i} /\ UNCHANGED pool
          ELSE pool' = pool \ {i} /\ draining' = draining \ {i}
  /\ UNCHANGED <<map, boot, attr, generation, active, pendGen, pendMap, due, failed, rot, spent>>

clear_pending_hardswap_state(t) ==
  /\ task[t].pc = "clear"
  /\ pendGen' = IF task[t].hard THEN 0 ELSE pendGen
  /\ pendMap' = IF task[t].hard THEN NoMap ELSE pendMap
  /\ Go(t, Off) /\ failed' = FALSE
  /\ UNCHANGED <<map, boot, pool, attr, draining, generation, active, due, rot, spent>>

-----------------------------------------------------------------------------
(***************************************************************************)
(* A new secret, and what happens to writers by themselves.                *)
(***************************************************************************)
\* update_secret stores a new secret and reconnect_all takes its snapshot.
update_secret ==
  /\ boot = "ready" /\ rot.pc = "off"
  /\ Spend("rotations", MaxRotations)
  /\ rot' = [pc |-> "connect", left |-> pool, cur |-> 0]
  /\ UNCHANGED <<map, boot, pool, attr, draining, generation, active, pendGen, pendMap, due, failed, task>>

\* A replacement with the address of the writer and the active generation; the
\* old writer is left alone when that fails.
Replace(i) ==
  \/ /\ Connects(attr[i].dc, {attr[i].addr}, active)
     /\ rot' = [pc |-> "mark", left |-> rot.left \ {i}, cur |-> i]
  \/ /\ ConnectFails
     /\ rot' = [rot EXCEPT !.left = @ \ {i}]

reconnect_all ==
  /\ rot.pc = "connect"
  /\ IF rot.left = {} THEN rot' = Resting /\ UNCHANGED <<pool, attr, spent>>
     ELSE \E i \in rot.left : Replace(i)
  /\ UNCHANGED <<map, boot, draining, generation, active, pendGen, pendMap, due, failed, task>>

mark_writer_draining ==
  /\ rot.pc = "mark"
  /\ draining' = draining \cup ({rot.cur} \cap pool)
  /\ rot' = [rot EXCEPT !.pc = "connect", !.cur = 0]
  /\ UNCHANGED <<map, boot, pool, attr, generation, active, pendGen, pendMap, due, failed, task, spent>>

\* A draining writer leaves once it is empty or its deadline has passed.
DrainEnds(i) ==
  /\ i \in draining
  /\ pool' = pool \ {i} /\ draining' = draining \ {i}
  /\ UNCHANGED <<map, boot, attr, generation, active, pendGen, pendMap, due, failed, task, rot, spent>>

\* The connection of a writer breaks.
WriterLost(i) ==
  /\ i \in Live /\ boot = "ready"
  /\ Spend("lost", MaxLost)
  /\ pool' = pool \ {i}
  /\ UNCHANGED <<map, boot, attr, draining, generation, active, pendGen, pendMap, due, failed, task, rot>>

TaskStep(t) ==
  \/ me_reinit_scheduler(t) \/ BeginGeneration(t) \/ StorePendingGeneration(t) \/ StorePendingMap(t)
  \/ warmup_generation_for_all_dcs(t) \/ reconcile_connections(t) \/ Gate(t)
  \/ promote_warm_generation_to_active(t) \/ has_non_draining_writer_per_desired_dc_group(t)
  \/ DrainStale(t) \/ clear_pending_hardswap_state(t)

Boot == init \/ \E d \in Dcs : connect_primary_for_dc(d)
Rotation == reconnect_all \/ mark_writer_draining

Next ==
  \/ Boot \/ Rotation \/ update_secret \/ me_rotation_task
  \/ \E d \in Dcs : Refill(d)
  \/ \E m \in Maps : update_proxy_maps(m)
  \/ \E t \in Tasks : TaskStep(t)
  \/ \E i \in Ids : DrainEnds(i) \/ WriterLost(i)

-----------------------------------------------------------------------------
\* The pool never runs out of usable writers for a DC on account of a reinit,
\* a map change or a new secret, though connects fail and the pending hard swap
\* expires meanwhile: unless a connection was lost, every DC keeps a writer that
\* does not drain (with a ratio of 1).
ZeroDowntime ==
  boot = "ready" /\ spent.lost = 0 => \A d \in Dcs : \E i \in Live : attr[i].dc = d

=============================================================================
