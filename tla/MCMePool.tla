------------------------------ MODULE MCMePool -------------------------------
(***************************************************************************)
(* Instances for TLC of what keeps the Middle-End pool alive: the refill   *)
(* after a loss and the rotation of writers (MePool, without client        *)
(* sessions), the health monitor (MeHealth), the sender that looks for a   *)
(* writer (MeSend), the updater of the endpoint maps (MeConfigUpdate) and  *)
(* the replacement of all writers while they are in use (MeReinit).        *)
(***************************************************************************)
EXTENDS MePool, TLC

CONSTANTS w1, w2, e1, e2

VARIABLE view   \* what a behaviour is about
VARIABLES writers, up, quarantine, healthRefill, fam, healthTick, healthJob, deadline, outage,
          faults, binds, ages   \* MeHealth
VARIABLES sendPool, info, bytes, queue, wire, sendBound, reg, s, sendRefill, burst, next,
          sendFaults   \* MeSend
VARIABLES src, srcSecret, pc, ready, stable, recent, cooling, maps, secret, epoch, changed,
          updateQueue, sched, loaded, spent   \* MeConfigUpdate
VARIABLES map, boot, reinitPool, attr, reinitDraining, generation, reinitActive, pendGen,
          pendMap, due, failed, task, rot, reinitSpent   \* MeReinit

TwoEndpoints == (w1 :> e1) @@ (w2 :> e2)

\* No client session: what happens to the writers by themselves.
PoolNext == WriterNext \/ RefillNext \/ HealthNext

\* Pools a sender finds: two contours of its DC, or a writer of another DC.
ActiveAndWarm == <<[dc |-> 1, contour |-> "active"], [dc |-> 1, contour |-> "warm"]>>
SingleActive == <<[dc |-> 1, contour |-> "active"]>>
OtherDc == <<[dc |-> 2, contour |-> "active"]>>

\* What the server can publish: nothing, one DC, and a DC with its media twin.
PublishedMaps == {<<>>, <<"a">>, (1 :> "b") @@ (-1 :> "c")}

healthVars == <<writers, up, quarantine, healthRefill, fam, healthTick, healthJob, deadline,
                outage, faults, binds, ages>>
sendVars == <<sendPool, info, bytes, queue, wire, sendBound, reg, s, sendRefill, burst, next,
              sendFaults>>
updateVars == <<src, srcSecret, pc, ready, stable, recent, cooling, maps, secret, epoch,
                changed, updateQueue, sched, loaded, spent>>
reinitVars == <<map, boot, reinitPool, attr, reinitDraining, generation, reinitActive, pendGen,
                pendMap, due, failed, task, rot, reinitSpent>>
allVars == <<view, vars, healthVars, sendVars, updateVars, reinitVars>>

Health1 == INSTANCE MeHealth WITH
  Families <- <<"v4", "v6">>, Map <- [v4 |-> <<{"a"}>>, v6 |-> <<{"d"}>>], Dcs <- {1},
  Adaptive <- TRUE, Floor <- 1, Shadow <- 0, MinWriters <- 1, Cap <- 4, Budget <- 1,
  OutageMode <- TRUE, Bypass <- TRUE, ShadowRotate <- FALSE, FailThreshold <- 2,
  RecoverTarget <- 2, Slots <- 1..5, MaxFaults <- 1, MaxBinds <- 0, MaxAges <- 0,
  refill <- healthRefill, tick <- healthTick, job <- healthJob

Health2 == INSTANCE MeHealth WITH
  Families <- <<"v4">>, Map <- [v4 |-> <<{"b", "c"}>>], Dcs <- {1}, Adaptive <- TRUE,
  Floor <- 1, Shadow <- 0, MinWriters <- 1, Cap <- 2, Budget <- 1, OutageMode <- TRUE,
  Bypass <- FALSE, ShadowRotate <- TRUE, FailThreshold <- 2, RecoverTarget <- 2, Slots <- 1..4,
  MaxFaults <- 1, MaxBinds <- 0, MaxAges <- 0, refill <- healthRefill, tick <- healthTick,
  job <- healthJob

Health3 == INSTANCE MeHealth WITH
  Families <- <<"v4">>, Map <- [v4 |-> <<{"a"}>>], Dcs <- {1}, Adaptive <- TRUE, Floor <- 1,
  Shadow <- 0, MinWriters <- 1, Cap <- 3, Budget <- 1, OutageMode <- TRUE, Bypass <- TRUE,
  ShadowRotate <- TRUE, FailThreshold <- 2, RecoverTarget <- 2, Slots <- 1..4, MaxFaults <- 0,
  MaxBinds <- 1, MaxAges <- 1, refill <- healthRefill, tick <- healthTick, job <- healthJob

Health4 == INSTANCE MeHealth WITH
  Families <- <<"v4">>, Map <- [v4 |-> <<{"a"}>>], Dcs <- {1}, Adaptive <- TRUE, Floor <- 1,
  Shadow <- 0, MinWriters <- 1, Cap <- 3, Budget <- 1, OutageMode <- TRUE, Bypass <- TRUE,
  ShadowRotate <- TRUE, FailThreshold <- 2, RecoverTarget <- 2, Slots <- 1..4, MaxFaults <- 1,
  MaxBinds <- 0, MaxAges <- 1, refill <- healthRefill, tick <- healthTick, job <- healthJob

Health5 == INSTANCE MeHealth WITH
  Families <- <<"v4">>, Map <- [v4 |-> <<{"a", "c"}, {"b", "d"}>>], Dcs <- {1, 2},
  Adaptive <- TRUE, Floor <- 1, Shadow <- 0, MinWriters <- 1, Cap <- 4, Budget <- 1,
  OutageMode <- TRUE, Bypass <- FALSE, ShadowRotate <- FALSE, FailThreshold <- 2,
  RecoverTarget <- 2, Slots <- 1..5, MaxFaults <- 0, MaxBinds <- 0, MaxAges <- 0,
  refill <- healthRefill, tick <- healthTick, job <- healthJob

Send1 == INSTANCE MeSend WITH
  Conns <- {1}, Writers <- {1, 2, 3}, First <- ActiveAndWarm, Endpoints <- {1, 2},
  DefaultDc <- 1, Target <- <<1, 1>>, Mode <- "failfast", Budget <- 3, Slots <- 1,
  Costs <- {2, 9}, Timed <- TRUE, Attempts <- 1, MaxFrames <- 3, MaxFaults <- 2,
  pool <- sendPool, bound <- sendBound, refill <- sendRefill, faults <- sendFaults

Send2 == INSTANCE MeSend WITH
  Conns <- {1}, Writers <- {1, 2, 3}, First <- ActiveAndWarm, Endpoints <- {1, 2},
  DefaultDc <- 1, Target <- <<1, 1>>, Mode <- "hybrid", Budget <- 3, Slots <- 1, Costs <- {2},
  Timed <- TRUE, Attempts <- 1, MaxFrames <- 3, MaxFaults <- 2, pool <- sendPool,
  bound <- sendBound, refill <- sendRefill, faults <- sendFaults

Send3 == INSTANCE MeSend WITH
  Conns <- {1}, Writers <- {1, 2, 3}, First <- <<>>, Endpoints <- {1, 2}, DefaultDc <- 1,
  Target <- <<1, 9>>, Mode <- "legacy", Budget <- 3, Slots <- 1, Costs <- {2}, Timed <- TRUE,
  Attempts <- 1, MaxFrames <- 3, MaxFaults <- 2, pool <- sendPool, bound <- sendBound,
  refill <- sendRefill, faults <- sendFaults

Send4 == INSTANCE MeSend WITH
  Conns <- {1}, Writers <- {1, 2, 3}, First <- OtherDc, Endpoints <- {1, 2}, DefaultDc <- 1,
  Target <- <<1, 9>>, Mode <- "hybrid", Budget <- 3, Slots <- 1, Costs <- {2}, Timed <- TRUE,
  Attempts <- 1, MaxFrames <- 2, MaxFaults <- 2, pool <- sendPool, bound <- sendBound,
  refill <- sendRefill, faults <- sendFaults

Send5 == INSTANCE MeSend WITH
  Conns <- {1, 2}, Writers <- {1, 2, 3}, First <- SingleActive, Endpoints <- {1, 2},
  DefaultDc <- 1, Target <- <<1, 1>>, Mode <- "failfast", Budget <- 9, Slots <- 1,
  Costs <- {2}, Timed <- TRUE, Attempts <- 1, MaxFrames <- 1, MaxFaults <- 1, pool <- sendPool,
  bound <- sendBound, refill <- sendRefill, faults <- sendFaults

Update1 == INSTANCE MeConfigUpdate WITH
  Families <- <<"v4">>, Snapshots <- PublishedMaps, Secrets <- {1, 2}, StableSnapshots <- 2,
  RejectEmpty <- TRUE, Capacity <- 1, MaxPublished <- 1, MaxFailures <- 1, MaxPeriodic <- 1,
  queue <- updateQueue

Update2 == INSTANCE MeConfigUpdate WITH
  Families <- <<"v4", "v6">>, Snapshots <- PublishedMaps, Secrets <- {1, 2},
  StableSnapshots <- 2, RejectEmpty <- TRUE, Capacity <- 1, MaxPublished <- 1,
  MaxFailures <- 0, MaxPeriodic <- 0, queue <- updateQueue

Hard == INSTANCE MeReinit WITH
  Dcs <- {1, 2},
  Maps <- {[d \in {1, 2} |-> {"a"}], [d \in {1, 2} |-> IF d = 1 THEN {"b"} ELSE {"a"}]},
  Tasks <- {1}, SingleFlight <- TRUE, Hardswap <- TRUE, MinPermille <- 1000, Required <- 1,
  Attempts <- 1, MaxWriters <- 8, MaxGenerations <- 20, MaxChanges <- 1, MaxPeriodic <- 1,
  MaxRotations <- 0, MaxFaults <- 1, MaxLost <- 0, pool <- reinitPool,
  draining <- reinitDraining, active <- reinitActive, spent <- reinitSpent

Soft == INSTANCE MeReinit WITH
  Dcs <- {1}, Maps <- {[d \in {1} |-> {"a"}], [d \in {1} |-> IF d = 1 THEN {"b"} ELSE {"a"}]},
  Tasks <- {1}, SingleFlight <- TRUE, Hardswap <- FALSE, MinPermille <- 1000, Required <- 1,
  Attempts <- 1, MaxWriters <- 8, MaxGenerations <- 20, MaxChanges <- 1, MaxPeriodic <- 1,
  MaxRotations <- 1, MaxFaults <- 1, MaxLost <- 0, pool <- reinitPool,
  draining <- reinitDraining, active <- reinitActive, spent <- reinitSpent

Two == INSTANCE MeReinit WITH
  Dcs <- {1}, Maps <- {[d \in {1} |-> {"a"}], [d \in {1} |-> IF d = 1 THEN {"b"} ELSE {"a"}]},
  Tasks <- {1, 2}, SingleFlight <- FALSE, Hardswap <- TRUE, MinPermille <- 1000, Required <- 1,
  Attempts <- 1, MaxWriters <- 8, MaxGenerations <- 3, MaxChanges <- 1, MaxPeriodic <- 1,
  MaxRotations <- 0, MaxFaults <- 0, MaxLost <- 0, pool <- reinitPool,
  draining <- reinitDraining, active <- reinitActive, spent <- reinitSpent

Lossy == INSTANCE MeReinit WITH
  Dcs <- {1}, Maps <- {[d \in {1} |-> {"a"}], [d \in {1} |-> IF d = 1 THEN {"b"} ELSE {"a"}]},
  Tasks <- {1}, SingleFlight <- TRUE, Hardswap <- TRUE, MinPermille <- 1000, Required <- 1,
  Attempts <- 1, MaxWriters <- 8, MaxGenerations <- 20, MaxChanges <- 1, MaxPeriodic <- 1,
  MaxRotations <- 0, MaxFaults <- 0, MaxLost <- 1, pool <- reinitPool,
  draining <- reinitDraining, active <- reinitActive, spent <- reinitSpent

\* The variables of the other views keep one value.
HealthInit ==
  \/ view = "health" /\ Health1!Init
  \/ view = "multi" /\ Health2!Init
  \/ view = "refresh" /\ Health3!Init
  \/ view = "outage" /\ Health4!Init
  \/ view = "capped" /\ Health5!Init
  \/ /\ view \notin {"health", "multi", "refresh", "outage", "capped"}
     /\ writers = 0 /\ up = 0 /\ quarantine = 0 /\ healthRefill = 0 /\ fam = 0 /\ healthTick = 0
     /\ healthJob = 0 /\ deadline = 0 /\ outage = 0 /\ faults = 0 /\ binds = 0 /\ ages = 0

SendInit ==
  \/ view = "hybrid" /\ Send2!Init
  \/ view = "legacy" /\ Send3!Init
  \/ view = "unknown_dc" /\ Send4!Init
  \/ view = "slots" /\ Send5!Init
  \/ view \notin {"hybrid", "legacy", "unknown_dc", "slots"} /\ Send1!Init

UpdateInit ==
  \/ view = "update" /\ Update1!Init
  \/ view = "families" /\ Update2!Init
  \/ /\ view \notin {"update", "families"}
     /\ src = 0 /\ srcSecret = 0 /\ pc = 0 /\ ready = 0 /\ stable = 0 /\ recent = 0
     /\ cooling = 0 /\ maps = 0 /\ secret = 0 /\ epoch = 0 /\ changed = 0 /\ updateQueue = 0
     /\ sched = 0 /\ loaded = 0 /\ spent = 0

ReinitInit ==
  \/ view = "hardswap" /\ Hard!Init
  \/ view = "softswap" /\ Soft!Init
  \/ view = "two_reinits" /\ Two!Init
  \/ view = "lossy" /\ Lossy!Init
  \/ /\ view \notin {"hardswap", "softswap", "two_reinits", "lossy"}
     /\ map = 0 /\ boot = 0 /\ reinitPool = 0 /\ attr = 0 /\ reinitDraining = 0
     /\ generation = 0 /\ reinitActive = 0 /\ pendGen = 0 /\ pendMap = 0 /\ due = 0
     /\ failed = 0 /\ task = 0 /\ rot = 0 /\ reinitSpent = 0

MCInit ==
  /\ view \in {"pool", "health", "multi", "refresh", "outage", "capped", "failfast", "hybrid",
               "legacy", "unknown_dc", "slots", "update", "families", "hardswap", "softswap",
               "two_reinits", "lossy"}
  /\ Init
  /\ HealthInit
  /\ SendInit
  /\ UpdateInit
  /\ ReinitInit

MCNext ==
  /\ UNCHANGED view
  /\ \/ view = "pool" /\ PoolNext /\ UNCHANGED <<healthVars, sendVars, updateVars, reinitVars>>
     \/ view = "health" /\ Health1!Next /\ UNCHANGED <<vars, sendVars, updateVars, reinitVars>>
     \/ view = "multi" /\ Health2!Next /\ UNCHANGED <<vars, sendVars, updateVars, reinitVars>>
     \/ view = "refresh" /\ Health3!Next /\ UNCHANGED <<vars, sendVars, updateVars, reinitVars>>
     \/ view = "outage" /\ Health4!Next /\ UNCHANGED <<vars, sendVars, updateVars, reinitVars>>
     \/ view = "capped" /\ Health5!Next /\ UNCHANGED <<vars, sendVars, updateVars, reinitVars>>
     \/ view = "failfast" /\ Send1!Next /\ UNCHANGED <<vars, healthVars, updateVars, reinitVars>>
     \/ view = "hybrid" /\ Send2!Next /\ UNCHANGED <<vars, healthVars, updateVars, reinitVars>>
     \/ view = "legacy" /\ Send3!Next /\ UNCHANGED <<vars, healthVars, updateVars, reinitVars>>
     \/ view = "unknown_dc" /\ Send4!Next
        /\ UNCHANGED <<vars, healthVars, updateVars, reinitVars>>
     \/ view = "slots" /\ Send5!Next /\ UNCHANGED <<vars, healthVars, updateVars, reinitVars>>
     \/ view = "update" /\ Update1!Next /\ UNCHANGED <<vars, healthVars, sendVars, reinitVars>>
     \/ view = "families" /\ Update2!Next /\ UNCHANGED <<vars, healthVars, sendVars, reinitVars>>
     \/ view = "hardswap" /\ Hard!Next /\ UNCHANGED <<vars, healthVars, sendVars, updateVars>>
     \/ view = "softswap" /\ Soft!Next /\ UNCHANGED <<vars, healthVars, sendVars, updateVars>>
     \/ view = "two_reinits" /\ Two!Next /\ UNCHANGED <<vars, healthVars, sendVars, updateVars>>
     \/ view = "lossy" /\ Lossy!Next /\ UNCHANGED <<vars, healthVars, sendVars, updateVars>>

MCSpec ==
  /\ MCInit /\ [][MCNext]_allVars
  /\ \A a \in Actors \ Conns :
       WF_vars(view = "pool" /\ RemoveFromPool(a)) /\ WF_vars(view = "pool" /\ Forget(a))
  /\ \A w \in Writers :
       /\ WF_vars(view = "pool" /\ register_writer(w)) /\ WF_vars(view = "pool" /\ Spawn(w))
       /\ WF_vars(view = "pool" /\ w \notin pool /\ LifecycleExits(w))
  /\ WF_vars(view = "pool" /\ \E w \in Writers : PruneClosed(w))
  /\ SF_vars(view = "pool" /\ \E w \in Writers : bound[w] < 1 /\ Reap(w))
  /\ \A e \in Endpoints : WF_vars(view = "pool" /\ RefillStarts(e))
  /\ WF_vars(view = "pool" /\ (RefillFails \/ \E w \in Writers : RefillConnects(w)))
  /\ WF_vars(view = "pool" /\ RefillReleases)
  /\ WF_vars(view = "pool" /\ (HealthConnectFails \/ \E w \in Writers : HealthConnects(w)))
  /\ WF_vars(view = "pool" /\ HealthDrains)
  /\ WF_vars(view = "pool" /\ FloorMissing)
  /\ SF_vars(view = "pool" /\ \E w \in Writers : HealthConnects(w))
  /\ WF_healthVars(\/ view = "health" /\ Health1!Monitor
                   \/ view = "multi" /\ Health2!Monitor
                   \/ view = "refresh" /\ Health3!Monitor
                   \/ view = "outage" /\ Health4!Monitor
                   \/ view = "capped" /\ Health5!Monitor)
  /\ WF_healthVars(\/ view = "health" /\ Health1!EndpointUp
                   \/ view = "multi" /\ Health2!EndpointUp
                   \/ view = "refresh" /\ Health3!EndpointUp
                   \/ view = "outage" /\ Health4!EndpointUp
                   \/ view = "capped" /\ Health5!EndpointUp)
  /\ WF_healthVars(\/ view = "health" /\ Health1!Unbind
                   \/ view = "multi" /\ Health2!Unbind
                   \/ view = "refresh" /\ Health3!Unbind
                   \/ view = "outage" /\ Health4!Unbind
                   \/ view = "capped" /\ Health5!Unbind)
  /\ WF_healthVars(\/ view = "health" /\ Health1!SuppressionPasses
                   \/ view = "multi" /\ Health2!SuppressionPasses
                   \/ view = "refresh" /\ Health3!SuppressionPasses
                   \/ view = "outage" /\ Health4!SuppressionPasses
                   \/ view = "capped" /\ Health5!SuppressionPasses)
  /\ WF_healthVars(\/ view = "health" /\ Health1!QuarantinePasses
                   \/ view = "multi" /\ Health2!QuarantinePasses
                   \/ view = "refresh" /\ Health3!QuarantinePasses
                   \/ view = "outage" /\ Health4!QuarantinePasses
                   \/ view = "capped" /\ Health5!QuarantinePasses)
  /\ WF_healthVars(\/ view = "health" /\ \E k \in Health1!Keys : Health1!RefillTries(k) \/ Health1!RefillEnds(k)
                   \/ view = "multi" /\ \E k \in Health2!Keys : Health2!RefillTries(k) \/ Health2!RefillEnds(k)
                   \/ view = "refresh" /\ \E k \in Health3!Keys : Health3!RefillTries(k) \/ Health3!RefillEnds(k)
                   \/ view = "outage" /\ \E k \in Health4!Keys : Health4!RefillTries(k) \/ Health4!RefillEnds(k)
                   \/ view = "capped" /\ \E k \in Health5!Keys : Health5!RefillTries(k) \/ Health5!RefillEnds(k))
  /\ WF_healthVars(\/ view = "health" /\ \E x \in Health1!Deadlines : Health1!DeadlinePasses(x)
                   \/ view = "multi" /\ \E x \in Health2!Deadlines : Health2!DeadlinePasses(x)
                   \/ view = "refresh" /\ \E x \in Health3!Deadlines : Health3!DeadlinePasses(x)
                   \/ view = "outage" /\ \E x \in Health4!Deadlines : Health4!DeadlinePasses(x)
                   \/ view = "capped" /\ \E x \in Health5!Deadlines : Health5!DeadlinePasses(x))
  /\ \A c \in {1, 2} : WF_sendVars(\/ view = "failfast" /\ c \in DOMAIN s /\ Send1!Sender(c)
                                   \/ view = "hybrid" /\ c \in DOMAIN s /\ Send2!Sender(c)
                                   \/ view = "legacy" /\ c \in DOMAIN s /\ Send3!Sender(c)
                                   \/ view = "unknown_dc" /\ c \in DOMAIN s /\ Send4!Sender(c)
                                   \/ view = "slots" /\ c \in DOMAIN s /\ Send5!Sender(c))
  /\ \A c \in {1, 2} : WF_sendVars(\/ view = "failfast" /\ c \in DOMAIN s /\ Send1!DeadlinePasses(c)
                                   \/ view = "hybrid" /\ c \in DOMAIN s /\ Send2!DeadlinePasses(c)
                                   \/ view = "legacy" /\ c \in DOMAIN s /\ Send3!DeadlinePasses(c)
                                   \/ view = "unknown_dc" /\ c \in DOMAIN s /\ Send4!DeadlinePasses(c)
                                   \/ view = "slots" /\ c \in DOMAIN s /\ Send5!DeadlinePasses(c))
  /\ \A w \in {1, 2, 3} : WF_sendVars(\/ view = "failfast" /\ Send1!TakeCommand(w)
                                      \/ view = "hybrid" /\ Send2!TakeCommand(w)
                                      \/ view = "legacy" /\ Send3!TakeCommand(w)
                                      \/ view = "unknown_dc" /\ Send4!TakeCommand(w)
                                      \/ view = "slots" /\ Send5!TakeCommand(w))
  /\ \A w \in {1, 2, 3} : WF_sendVars(\/ view = "failfast" /\ Send1!Written(w)
                                      \/ view = "hybrid" /\ Send2!Written(w)
                                      \/ view = "legacy" /\ Send3!Written(w)
                                      \/ view = "unknown_dc" /\ Send4!Written(w)
                                      \/ view = "slots" /\ Send5!Written(w))
  /\ \A w \in {1, 2, 3} : WF_sendVars(\/ view = "failfast" /\ Send1!WriterCancelled(w)
                                      \/ view = "hybrid" /\ Send2!WriterCancelled(w)
                                      \/ view = "legacy" /\ Send3!WriterCancelled(w)
                                      \/ view = "unknown_dc" /\ Send4!WriterCancelled(w)
                                      \/ view = "slots" /\ Send5!WriterCancelled(w))
  /\ \A w \in {1, 2, 3} : WF_sendVars(\/ view = "failfast" /\ Send1!Lifecycle(w)
                                      \/ view = "hybrid" /\ Send2!Lifecycle(w)
                                      \/ view = "legacy" /\ Send3!Lifecycle(w)
                                      \/ view = "unknown_dc" /\ Send4!Lifecycle(w)
                                      \/ view = "slots" /\ Send5!Lifecycle(w))
  /\ WF_updateVars((view = "update" /\ Update1!Cycle) \/ (view = "families" /\ Update2!Cycle))
  /\ WF_updateVars(\/ view = "update" /\ Update1!CooldownPasses
                   \/ view = "families" /\ Update2!CooldownPasses)
  /\ WF_updateVars(\/ view = "update" /\ Update1!Scheduler
                   \/ view = "families" /\ Update2!Scheduler)

\* When the upsets stop, the floor is restored for good and no refill key stays
\* held: a refill that loses a race, fails or is never triggered is made up for.
PoolFloorRestored == <>[](view = "pool" => Restored)
\* When losses and outages stop, the health monitor brings every DC back to its
\* floor in every family and every family to Healthy, and keeps them there.
PoolRecovers ==
  <>[](/\ view = "health" => Health1!Recovered
       /\ view = "multi" => Health2!Recovered
       /\ view = "refresh" => Health3!Recovered
       /\ view = "outage" => Health4!Recovered
       /\ view = "capped" => Health5!Recovered)
\* A send returns in every mode, whatever ends or drains while it runs: once
\* the frames of a session are all sent, no sender is left waiting.
SendEnds == <>[](\A c \in DOMAIN s : s[c].pc = "idle")
\* What the server keeps publishing is loaded by a reinit, and a map is taken
\* over only when the server gave it often enough (config_updater.rs).
PublishedMapIsReinitialized ==
  /\ [][/\ view = "update" => Update1!OnlyStableMapsApplied
        /\ view = "families" => Update2!OnlyStableMapsApplied]_updateVars
  /\ <>[](/\ view = "update" => Update1!Reinitialized
          /\ view = "families" => Update2!Reinitialized)
\* While no writer is lost, every DC that had a writer keeps one through the
\* swap of the whole pool, whatever connects fail and maps change (pool_reinit.rs).
ZeroDowntime ==
  /\ view = "hardswap" => Hard!ZeroDowntime
  /\ view = "softswap" => Soft!ZeroDowntime
  /\ view = "two_reinits" => Two!ZeroDowntime
  /\ view = "lossy" => Lossy!ZeroDowntime
==============================================================================
