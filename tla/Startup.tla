------------------------------ MODULE Startup ------------------------------
(***************************************************************************)
(* The start of the process (src/src/maestro/orchestrator.rs and           *)
(* bootstrap.rs, runtime_startup.rs, me_startup.rs, connectivity.rs,       *)
(* runtime_tasks.rs, listeners/bind.rs) and the tracker that reports it    *)
(* (src/src/startup.rs).                                                   *)
(*                                                                         *)
(* Four threads of control: the main task, which walks the stages; the     *)
(* task that bootstraps the Middle-End pool in the background when Direct  *)
(* is allowed as a fallback; the task that initialises the pool's writers  *)
(* in the background; and the listener that moves the reported transport   *)
(* when the pool becomes ready.  initialize_me_pool is run by the main     *)
(* task (no fallback) or by the background bootstrap, never by both, so    *)
(* its program counter is one variable.  The tracker's setters take its    *)
(* lock one by one; those a task issues in a row, with nothing of another  *)
(* task depending on the states between, are one step here.                *)
(***************************************************************************)
EXTENDS Integers, FiniteSets

CONSTANTS
  Configs,      \* records [middle, fallback, limit, api, tls, metrics]
  CachedAtStart,\* the sets of proxy-config families the disk may hold
  MaxFailures,  \* bound on the failures the network and the host produce
  MaxPanics     \* bound on the exits of supervised pool tasks

Fetches  == {"v4", "v6"}
Loops    == {"health", "drain", "zombie"}
MeComponents == {"me_secret", "v4", "v6", "me_construct", "me_init"}

\* component_blueprint.
Components ==
  MeComponents \union
  {"config", "tracing", "api", "tls", "probe", "me_ping", "dc_ping",
   "listeners", "watcher", "metrics", "runtime_ready"}

Settled == {"ready", "failed", "skipped"}

VARIABLES
  cfg,       \* the configuration this start runs with
  main,      \* the main task's next stage
  boot,      \* initialize_me_pool and its background loop: [pc, tries, got]
  init,      \* writer initialisation: [pc, attempts]
  tracker,   \* StartupTracker: [comp, me, transport, degraded, ready, limit]
  pool,      \* "none", "built" (MePool::new) or "up" (init returned Ok)
  apiPool,   \* api_me_pool holds the pool
  ready,     \* version of the me_ready watch
  seen,      \* version the transport listener subscribed at; -1 before, -2 after it fired
  loops,     \* supervised pool tasks: "off", "run" or "pause"
  tended,    \* the reinit scheduler, config updater and rotation tasks run
  runtimeReady, \* set_runtime_ready(true) has been called on the pool
  cached,    \* families with a proxy-config on disk
  failures, panics

vars == <<cfg, main, boot, init, tracker, pool, apiPool, ready, seen, loops,
          tended, runtimeReady, cached, failures, panics>>

(* The tracker. *)

start_component(t, id) == [t EXCEPT !.comp[id] = "running"]

finish_component(t, ids, status) ==
  [t EXCEPT !.comp = [id \in Components |-> IF id \in ids THEN status ELSE @[id]]]

set_me_status(t, status) == [t EXCEPT !.me = status]

mark_ready(t) == [t EXCEPT !.ready = TRUE]

Init ==
  /\ cfg \in Configs
  /\ cached \in CachedAtStart
  /\ main = "config"
  /\ boot = [pc |-> "off", tries |-> 0, got |-> {}]
  /\ init = [pc |-> "off", attempts |-> 0]
  /\ tracker = [comp |-> [id \in Components |-> "pending"], me |-> "pending",
                transport |-> "unknown", degraded |-> FALSE, ready |-> FALSE,
                limit |-> 0]
  /\ pool = "none"
  /\ apiPool = FALSE
  /\ ready = 0
  /\ seen = -1
  /\ loops = [l \in Loops |-> "off"]
  /\ tended = FALSE
  /\ runtimeReady = FALSE
  /\ failures = 0
  /\ panics = 0

DirectFirst == cfg.middle /\ cfg.fallback

Fails == failures < MaxFailures /\ failures' = failures + 1
Works == UNCHANGED failures

PoolState == <<boot, init, pool, apiPool, ready, loops, tended, runtimeReady, cached>>

(* The main task up to the runtime. *)

\* A missing file is replaced by a default one; a file that cannot be read,
\* parsed or validated ends the process.
LoadConfig ==
  /\ main = "config"
  /\ \/ /\ Works
        /\ main' = "tracing"
        /\ tracker' = finish_component(tracker, {"config"}, "ready")
     \/ Fails /\ main' = "exit" /\ UNCHANGED tracker
  /\ UNCHANGED <<cfg, PoolState, seen, panics>>

\* data_path, DNS overrides and the log writer.
InitTracing ==
  /\ main = "tracing"
  /\ \/ /\ Works
        /\ main' = "api"
        /\ tracker' = finish_component(tracker, {"tracing"}, "ready")
     \/ Fails /\ main' = "exit" /\ UNCHANGED tracker
  /\ UNCHANGED <<cfg, PoolState, seen, panics>>

ApiBootstrap ==
  /\ main = "api"
  /\ main' = "tls"
  /\ tracker' = finish_component(tracker, {"api"}, IF cfg.api THEN "ready" ELSE "skipped")
  /\ UNCHANGED <<cfg, PoolState, seen, failures, panics>>

\* Best effort: profiles that do not arrive in time do not stop the start.
TlsBootstrap ==
  /\ main = "tls"
  /\ main' = "probe"
  /\ tracker' = finish_component(tracker, {"tls"}, IF cfg.tls THEN "ready" ELSE "skipped")
  /\ UNCHANGED <<cfg, PoolState, seen, failures, panics>>

NetworkProbe ==
  /\ main = "probe"
  /\ main' = "prepare"
  /\ tracker' = finish_component(tracker, {"probe"}, "ready")
  /\ UNCHANGED <<cfg, PoolState, seen, failures, panics>>

\* The head of prepare_runtime: what the tracker says of the Middle-End, and
\* whether the pool is initialised here or later.
PrepareRuntime ==
  /\ main = "prepare"
  /\ tracker' = IF cfg.middle
                  THEN [set_me_status(start_component(tracker, "me_secret"), "initializing")
                          EXCEPT !.limit = IF ~cfg.fallback THEN 0 ELSE cfg.limit]
                  ELSE set_me_status(finish_component(tracker, MeComponents, "skipped"), "skipped")
  /\ IF cfg.middle /\ ~cfg.fallback
       THEN main' = "await_pool" /\ boot' = [boot EXCEPT !.pc = "secret"]
       ELSE main' = "transport" /\ UNCHANGED boot
  /\ UNCHANGED <<cfg, init, pool, apiPool, ready, seen, loops, tended,
                 runtimeReady, cached, failures, panics>>

(* initialize_me_pool. *)

\* Where initialize_me_pool's None goes: the main task, or the next turn of
\* the background bootstrap.
ReturnNone(t) ==
  /\ tracker' = set_me_status(t, "failed")
  /\ boot' = [boot EXCEPT !.pc = IF cfg.fallback THEN "none" ELSE "off"]
  /\ main' = IF cfg.fallback THEN main ELSE "transport"

\* Without a fallback the secret is asked for until it comes.
FetchSecret ==
  /\ boot.pc = "secret"
  /\ \/ /\ Works
        /\ tracker' = set_me_status(start_component(
                        finish_component(tracker, {"me_secret"}, "ready"), "v4"), "initializing")
        /\ boot' = [boot EXCEPT !.pc = "v4", !.got = {}]
        /\ UNCHANGED main
     \/ /\ Fails
        /\ IF cfg.fallback
             THEN ReturnNone(finish_component(
                    finish_component(tracker, {"me_secret", "me_init"}, "failed"),
                    {"v4", "v6", "me_construct"}, "skipped"))
             ELSE UNCHANGED <<tracker, boot, main>>
  /\ UNCHANGED <<cfg, init, pool, apiPool, ready, seen, loops, tended,
                 runtimeReady, cached, panics>>

\* What a fetch of a family's proxy-config comes to: the map fetched, the map
\* on disk, nothing, or another try.
load_startup_proxy_config_snapshot(f, fetched) ==
  CASE fetched        -> "some"
    [] f \in cached   -> "some"
    [] cfg.fallback   -> "none"
    [] OTHER          -> "retry"

\* Mutant: the path without both maps leaves the initialisation pending.
IncompleteForgetsInit(t) == finish_component(t, {"me_construct"}, "skipped")

\* After v6 both maps are needed.
IncompleteConfigs(t) ==
  finish_component(finish_component(t, {"me_construct"}, "skipped"), {"me_init"}, "failed")

LoadProxyConfig(f) ==
  /\ boot.pc = f
  /\ \E fetched \in BOOLEAN, saved \in BOOLEAN :
       /\ IF fetched THEN Works ELSE Fails
       /\ fetched \/ ~saved
       /\ cached' = IF saved THEN cached \union {f} ELSE cached
       /\ LET out == load_startup_proxy_config_snapshot(f, fetched)
              got == IF out = "some" THEN boot.got \union {f} ELSE boot.got
              t   == finish_component(tracker, {f}, IF out = "some" THEN "ready" ELSE "failed")
          IN \/ out = "retry" /\ UNCHANGED <<tracker, boot, main>>
             \/ /\ out # "retry" /\ f = "v4"
                /\ tracker' = set_me_status(start_component(t, "v6"), "initializing")
                /\ boot' = [boot EXCEPT !.pc = "v6", !.got = got]
                /\ UNCHANGED main
             \/ /\ out # "retry" /\ f = "v6" /\ got = Fetches
                /\ tracker' = set_me_status(start_component(t, "me_construct"), "initializing")
                /\ boot' = [boot EXCEPT !.pc = "construct", !.got = got]
                /\ UNCHANGED main
             \/ /\ out # "retry" /\ f = "v6" /\ got # Fetches
                /\ ReturnNone(IncompleteConfigs(t))
  /\ UNCHANGED <<cfg, init, pool, apiPool, ready, seen, loops, tended, runtimeReady, panics>>

\* MePool::new, published for the API before it has a writer.
ConstructPool ==
  /\ boot.pc = "construct"
  /\ pool' = "built"
  /\ apiPool' = TRUE
  /\ tracker' = set_me_status(start_component(
                  finish_component(tracker, {"me_construct"}, "ready"), "me_init"), "initializing")
  /\ init' = [pc |-> "run", attempts |-> 0]
  /\ boot' = [boot EXCEPT !.pc = IF cfg.fallback THEN "spawned" ELSE "await_init"]
  /\ UNCHANGED <<cfg, main, ready, seen, loops, tended, runtimeReady, cached, failures, panics>>

\* The writers are up: the tracker, the watch and the supervisors.  The
\* attempt runs in the background task, or in the caller without a fallback.
InitSucceeds ==
  /\ init.pc = "run"
  /\ pool' = "up"
  /\ init' = [pc |-> "done", attempts |-> init.attempts + 1]
  /\ tracker' = set_me_status(finish_component(tracker, {"me_init"}, "ready"), "ready")
  /\ ready' = ready + 1
  /\ loops' = [l \in Loops |-> "run"]
  /\ IF boot.pc = "await_init"
       THEN boot' = [boot EXCEPT !.pc = "off"] /\ main' = "transport"
       ELSE UNCHANGED <<boot, main>>
  /\ UNCHANGED <<cfg, apiPool, seen, tended, runtimeReady, cached, failures, panics>>

\* The retry limit ends the attempts of the caller only: the background task
\* tries again for ever.
InitFails ==
  /\ init.pc = "run"
  /\ Fails
  /\ LET attempts == init.attempts + 1
     IN IF boot.pc = "await_init" /\ cfg.limit > 0 /\ attempts >= cfg.limit
          THEN /\ ReturnNone(finish_component(tracker, {"me_init"}, "failed"))
               /\ init' = [pc |-> "done", attempts |-> attempts]
          ELSE /\ init' = [init EXCEPT !.attempts = attempts]
               /\ UNCHANGED <<tracker, boot, main>>
  /\ UNCHANGED <<cfg, pool, apiPool, ready, seen, loops, tended, runtimeReady, cached, panics>>

\* The caller's status line after it spawned the background initialisation,
\* and the return of the pool, whose tasks the bootstrap starts.
StatusAfterSpawn ==
  /\ boot.pc = "spawned"
  /\ tracker' = set_me_status(tracker, "initializing")
  /\ boot' = [boot EXCEPT !.pc = "some"]
  /\ UNCHANGED <<cfg, main, init, pool, apiPool, ready, seen, loops, tended,
                 runtimeReady, cached, failures, panics>>

(* The background bootstrap loop of prepare_runtime. *)

BootstrapReturns ==
  \/ /\ boot.pc = "some"
     /\ tended' = TRUE
     /\ boot' = [boot EXCEPT !.pc = "off"]
     /\ UNCHANGED <<cfg, main, init, tracker, pool, apiPool, ready, seen, loops,
                    runtimeReady, cached, failures, panics>>
  \/ /\ boot.pc = "none"
     /\ boot' = IF cfg.limit > 0 /\ boot.tries >= cfg.limit
                  THEN [boot EXCEPT !.pc = "off"]
                  ELSE [boot EXCEPT !.pc = "secret", !.tries = @ + 1]
     /\ UNCHANGED <<cfg, main, init, tracker, pool, apiPool, ready, seen, loops,
                    tended, runtimeReady, cached, failures, panics>>

(* The supervised pool tasks. *)

\* A panic pauses the supervisor for a second; a return restarts the child.
ChildExits(l) ==
  /\ loops[l] = "run"
  /\ panics < MaxPanics
  /\ panics' = panics + 1
  /\ loops' = [loops EXCEPT ![l] = "pause"]
  /\ UNCHANGED <<cfg, main, boot, init, tracker, pool, apiPool, ready, seen,
                 tended, runtimeReady, cached, failures>>

supervise_me_task(l) ==
  /\ loops[l] = "pause"
  /\ loops' = [loops EXCEPT ![l] = "run"]
  /\ UNCHANGED <<cfg, main, boot, init, tracker, pool, apiPool, ready, seen,
                 tended, runtimeReady, cached, failures, panics>>

(* The main task from the transport on. *)

\* Without a pool the configuration in force is switched to Direct, also when
\* the fallback is off and the retry limit ended the attempts.
ChooseTransport ==
  /\ main = "transport"
  /\ IF DirectFirst
       THEN /\ tracker' = [finish_component(tracker, {"me_ping", "dc_ping"}, "skipped")
                             EXCEPT !.transport = "direct", !.degraded = TRUE]
            /\ main' = "tasks"
            /\ UNCHANGED cfg
       ELSE /\ main' = "connectivity"
            /\ IF pool = "up"
                 THEN /\ tracker' = [tracker EXCEPT !.transport = "middle_proxy", !.degraded = FALSE]
                      /\ UNCHANGED cfg
                 ELSE /\ tracker' = [set_me_status(tracker, IF cfg.fallback THEN "failed" ELSE "skipped")
                                       EXCEPT !.transport = "direct", !.degraded = TRUE]
                      /\ cfg' = [cfg EXCEPT !.middle = FALSE]
  /\ UNCHANGED <<PoolState, seen, failures, panics>>

\* The pings only report.
MeConnectivity ==
  /\ main = "connectivity"
  /\ main' = "dc_ping"
  /\ tracker' = finish_component(tracker, {"me_ping"}, IF pool = "up" THEN "ready" ELSE "skipped")
  /\ UNCHANGED <<cfg, PoolState, seen, failures, panics>>

\* Then the pool is published, or the one that could not be initialised is
\* taken back.
DcConnectivity ==
  /\ main = "dc_ping"
  /\ main' = "tasks"
  /\ tracker' = start_component(finish_component(tracker, {"dc_ping"}, "ready"), "runtime_ready")
  /\ runtimeReady' = (pool = "up")
  /\ apiPool' = (pool = "up")
  /\ UNCHANGED <<cfg, boot, init, pool, ready, seen, loops, tended, cached, failures, panics>>

\* spawn_runtime_tasks: the config watcher and the rest; with a pool also its
\* tasks.  Then the background bootstrap is started.
SpawnRuntimeTasks ==
  /\ main = "tasks"
  /\ tracker' = finish_component(tracker, {"watcher"}, "ready")
  /\ IF DirectFirst
       THEN /\ boot' = [boot EXCEPT !.pc = "secret", !.tries = 1]
            /\ main' = "subscribe"
            /\ UNCHANGED tended
       ELSE /\ tended' = (pool = "up")
            /\ main' = "bind"
            /\ UNCHANGED boot
  /\ UNCHANGED <<cfg, init, pool, apiPool, ready, seen, loops, runtimeReady,
                 cached, failures, panics>>

\* The receiver starts from the version the watch has now.
SubscribeReady ==
  /\ main = "subscribe"
  /\ seen' = ready
  /\ main' = "bind"
  /\ UNCHANGED <<cfg, boot, init, tracker, pool, apiPool, ready, loops, tended,
                 runtimeReady, cached, failures, panics>>

ReadyListener ==
  /\ seen >= 0 /\ ready > seen
  /\ seen' = -2
  /\ runtimeReady' = (runtimeReady \/ apiPool)
  /\ tracker' = [tracker EXCEPT !.transport = "middle_proxy", !.degraded = FALSE]
  /\ UNCHANGED <<cfg, main, boot, init, pool, apiPool, ready, loops, tended,
                 cached, failures, panics>>

\* The admission gate's poll, as far as the pool's readiness goes.
GateObserves ==
  /\ main \in {"bind", "metrics", "publish", "serving"}
  /\ cfg.middle /\ pool = "up" /\ apiPool /\ ~runtimeReady
  /\ runtimeReady' = TRUE
  /\ UNCHANGED <<cfg, main, boot, init, tracker, pool, apiPool, ready, seen,
                 loops, tended, cached, failures, panics>>

\* A listener that cannot be bound, no listener at all, or SYN rules that
\* cannot be installed end the process.
BindListeners ==
  /\ main = "bind"
  /\ \/ /\ Works
        /\ main' = "metrics"
        /\ tracker' = finish_component(tracker, {"listeners"}, "ready")
     \/ /\ Fails
        /\ main' = "exit"
        /\ tracker' = start_component(tracker, "listeners")
  /\ UNCHANGED <<cfg, PoolState, seen, panics>>

spawn_metrics_if_configured ==
  /\ main = "metrics"
  /\ main' = "publish"
  /\ tracker' = finish_component(tracker, {"metrics"}, IF cfg.metrics THEN "ready" ELSE "skipped")
  /\ UNCHANGED <<cfg, PoolState, seen, failures, panics>>

\* The generation is published, then the tracker says ready.
mark_runtime_ready ==
  /\ main = "publish"
  /\ main' = "serving"
  /\ tracker' = mark_ready(finish_component(tracker, {"runtime_ready"}, "ready"))
  /\ UNCHANGED <<cfg, PoolState, seen, failures, panics>>

Main ==
  \/ LoadConfig \/ InitTracing \/ ApiBootstrap \/ TlsBootstrap \/ NetworkProbe
  \/ PrepareRuntime \/ ChooseTransport \/ MeConnectivity \/ DcConnectivity
  \/ SpawnRuntimeTasks \/ SubscribeReady \/ BindListeners
  \/ spawn_metrics_if_configured \/ mark_runtime_ready

Boot ==
  \/ FetchSecret \/ ConstructPool \/ StatusAfterSpawn \/ BootstrapReturns
  \/ \E f \in Fetches : LoadProxyConfig(f)

\* A process that has exited takes its tasks along.
Next ==
  \/ Main
  \/ /\ main # "exit"
     /\ \/ Boot \/ InitSucceeds \/ InitFails \/ ReadyListener \/ GateObserves
        \/ \E l \in Loops : ChildExits(l) \/ supervise_me_task(l)

\* Every task keeps being scheduled, and the network's refusals are bounded by
\* MaxFailures: whoever keeps asking is answered in the end.
Fairness ==
  /\ WF_vars(Main)
  /\ WF_vars(main # "exit" /\ Boot)
  /\ WF_vars(main # "exit" /\ (InitSucceeds \/ InitFails))
  /\ WF_vars(main # "exit" /\ ReadyListener)
  /\ WF_vars(main # "exit" /\ GateObserves)
  /\ \A l \in Loops : WF_vars(main # "exit" /\ supervise_me_task(l))

Spec == Init /\ [][Next]_vars /\ Fairness

(* Properties. *)

TypeOK ==
  /\ tracker.me \in {"pending", "initializing", "ready", "failed", "skipped"}
  /\ \A id \in Components : tracker.comp[id] \in Settled \union {"pending", "running"}
  /\ pool \in {"none", "built", "up"}
  /\ tracker.transport \in {"unknown", "direct", "middle_proxy"}

\* A start that does not end the process comes to rest: the tracker is ready,
\* every component of it has a final status on every path of
\* initialize_me_pool, and a pool whose writers came up is used (runtime
\* readiness), tended (updater, rotation, reinitialisation) and supervised.
AtRest ==
  \/ main = "exit"
  \/ /\ tracker.ready
     /\ \A id \in Components : tracker.comp[id] \in Settled
     /\ pool = "up" => /\ runtimeReady /\ tended
                       /\ \A l \in Loops : loops[l] = "run"
StartupSettles == <>[]AtRest

\* The transport reported as Middle-End has an initialised pool published to
\* the API behind it, whichever of the main task and the listener reported it.
TransportHasPool == tracker.transport = "middle_proxy" => pool = "up" /\ apiPool

=============================================================================
