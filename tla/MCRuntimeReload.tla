--------------------------- MODULE MCRuntimeReload ---------------------------
(***************************************************************************)
(* Instances for TLC of how a configuration comes into force and what it   *)
(* starts: the reload of the runtime (RuntimeReload), the API that edits   *)
(* the files (ConfigStore), the watcher of the files (ConfigWatch), the    *)
(* load of their text (ConfigLoad), the start of the process (Startup), the*)
(* upstreams (Upstreams), the public address (NatProbe) and the conntrack  *)
(* controller (Conntrack).  A reload behaviour has one reload and an accept*)
(* task that fails, or two reloads of which the second keeps the address 1.*)
(***************************************************************************)
EXTENDS RuntimeReload, ConfigStore, Sequences, TLC

CONSTANT Views   \* the views a run looks at

VARIABLE view   \* what a behaviour is about
VARIABLES files, writing, published, applied, manifest, watched, polled, queue, task,
          watchEdits, signals   \* ConfigWatch
VARIABLES raw, config, patch, loadEdits   \* ConfigLoad
VARIABLES cfg, main, boot, init, tracker, pool, apiPool, ready, seen, loops, tended,
          runtimeReady, cached, failures, panics   \* Startup
VARIABLES healthy, fails, pref, pinged, check, client, down, changes   \* Upstreams
VARIABLES worker, sender, pressure, conntrackQueue, delta, nft, ipt, changed, events, highs,
          conntrackChanges, faults   \* Conntrack
VARIABLES kind, start, me, cache, backoff, live, natLock, natIp, call, connects, flips   \* NatProbe

\* Only reserve and TaskFails are restricted, neither of which is under fairness.
Bounded ==
  /\ upsets' > 0 => control'.next_id <= 1
  /\ api'.id = 2 => api'.listeners = {1} /\ api'.policy = "rollback"

\* Requests of the API: one of every kind, -2 for a field it leaves alone and
\* -1 for one it removes.
UserOp(k, u, s, l, e) == [kind |-> k, user |-> u, secret |-> s, limit |-> l, enabled |-> e]
SectionOp(s, r) == [kind |-> "config", section |-> s, value |-> 2, reload |-> r]
StoreOps ==
  {UserOp("create", 2, 1, 1, 1), UserOp("patch", 1, -2, 2, -2), UserOp("patch", 1, -2, -1, -2),
   UserOp("rotate", 1, 2, -2, -2), UserOp("switch", 1, -2, -2, 1), UserOp("switch", 1, -2, -2, -1),
   UserOp("delete", 2, -2, -2, -2), SectionOp("general", TRUE), SectionOp("access", FALSE),
   SectionOp("network", FALSE), [kind |-> "reload"]}
SectionOwner == [users |-> "main", limits |-> "inc", general |-> "main", enabled |-> "none"]
StartTables == [users |-> <<1, 0>>, limits |-> <<0, 0>>, general |-> <<0, 0>>, enabled |-> <<0, 0>>]

\* Contents of the two configuration files.
Content(h, c, v, d, i) ==
  [parses |-> TRUE, valid |-> v, hot |-> h, cold |-> c, dns |-> d, includes |-> i]
IncContents == {Content(1, 1, TRUE, TRUE, {}), Content(2, 1, TRUE, TRUE, {})}
SameIncludes ==
  [main |-> {Content(1, 1, TRUE, TRUE, {"inc"}), Content(2, 2, TRUE, TRUE, {"inc"}),
             Content(1, 2, FALSE, TRUE, {"inc"}), Content(2, 1, TRUE, FALSE, {"inc"})},
   inc  |-> IncContents]
AnyIncludes ==
  [main |-> {Content(1, 1, TRUE, TRUE, {}), Content(2, 2, TRUE, TRUE, {"inc"}),
             Content(1, 2, FALSE, TRUE, {"inc"}), Content(2, 1, TRUE, FALSE, {})},
   inc  |-> IncContents]
FirstFiles == [main |-> Content(1, 1, TRUE, TRUE, {"inc"}), inc |-> Content(1, 1, TRUE, TRUE, {})]
NoIncludes == [FirstFiles EXCEPT !.main.includes = {}]

\* Texts of a configuration: one that loads, and variations of its network,
\* its listeners, its domains, its timers and the rest.  -1 is a field left out.
Listener == [ip |-> "v4", port |-> 443, mss |-> 100, announce |-> "", announce_ip |-> ""]
Text ==
  [unknown |-> FALSE, strict |-> FALSE, update_every |-> 5, reload_secs |-> -1, minutes |-> -1,
   top_minutes |-> -1, stun |-> {"unset"}, nat_stun |-> {}, core_ranges |-> TRUE,
   runtime_ranges |-> TRUE, me_ranges |-> TRUE, server_ranges |-> TRUE, hello_delay |-> 0,
   handshake |-> 1, idle_soft |-> 1, idle_hard |-> 2, byte_budget |-> 8, max_frame |-> 2,
   drain_ttl |-> 1, drain_timeout |-> 0, tls_domain |-> "a", tls_domains |-> {},
   fingerprints |-> <<>>, exclusive |-> <<>>, emulation |-> TRUE, cert_len |-> 0, prefer |-> 4,
   prefer_ipv6 |-> FALSE, ipv4 |-> TRUE, ipv6 |-> "auto", middle_proxy |-> TRUE,
   secret_snapshot |-> FALSE, listen_tcp |-> "auto", unix_sock |-> FALSE, addr4 |-> "unset",
   addr6 |-> "unset", listeners |-> {Listener}, port |-> 443, mss |-> -1, bulk |-> -1,
   upstreams |-> {}, log_to_file |-> FALSE, log_path |-> FALSE, users |-> {1}, modes |-> TRUE]
NetworkTexts ==
  {[Text EXCEPT !.prefer = p, !.prefer_ipv6 = x, !.ipv4 = a, !.ipv6 = b, !.middle_proxy = m,
                !.upstreams = {u}] :
     p \in {4, 6}, x \in BOOLEAN, a \in BOOLEAN, b \in {"auto", "off"}, m \in BOOLEAN,
     u \in [ss : BOOLEAN, enabled : {TRUE}, ipv4 : {"auto", "off"}, ipv6 : {"auto", "off"},
            prefer : {-1, 4, 6}]}
ListenerTexts ==
  {[Text EXCEPT !.listen_tcp = t, !.unix_sock = x, !.addr4 = a, !.addr6 = b, !.listeners = l,
                !.mss = m, !.bulk = k] :
     t \in {"auto", "on", "off"}, x \in BOOLEAN, a \in {"unset", "ok", "bad"}, b \in {"unset", "ok"},
     l \in {{}, {Listener}, {[Listener EXCEPT !.port = -1, !.mss = 0, !.announce_ip = "x"]},
            {Listener, [Listener EXCEPT !.mss = -1]}},
     m \in {-1, 50}, k \in {-1, 60, 150}}
DomainTexts ==
  {[Text EXCEPT !.tls_domain = d, !.tls_domains = ds, !.fingerprints = f, !.exclusive = e,
                !.emulation = m, !.cert_len = c] :
     d \in {"A", "bad"}, ds \in SUBSET {"a", "B"},
     f \in {<<>>, "A" :> 1, ("B" :> 1) @@ ("b" :> 2), "b" :> 1},
     e \in {<<>>, ("A" :> 1) @@ ("a" :> 2)}, m \in BOOLEAN, c \in {0, 3}}
TimerTexts ==
  {[Text EXCEPT !.update_every = u, !.reload_secs = s, !.minutes = m, !.top_minutes = t,
                !.drain_ttl = d, !.drain_timeout = o, !.users = us] :
     u \in {-1, 0, 5}, s \in {-1, 0, 7}, m \in {-1, 0, 3}, t \in {-1, 4}, d \in {1, 4}, o \in {0, 2},
     us \in {{}, {1}, {1, 2}}}
OtherTexts ==
  {[Text EXCEPT !.unknown = u, !.strict = s, !.byte_budget = b, !.core_ranges = c,
                !.log_to_file = l, !.stun = st, !.nat_stun = n] :
     u \in BOOLEAN, s \in BOOLEAN, b \in {4, 6, 8}, c \in BOOLEAN, l \in BOOLEAN,
     st \in {{"unset"}, {}, {"s", ""}}, n \in {{}, {"t", ""}}}
Texts == NetworkTexts \cup ListenerTexts \cup DomainTexts \cup TimerTexts \cup OtherTexts

StartConfigs ==
  {[middle |-> m, fallback |-> f, limit |-> l, api |-> a, tls |-> ~a, metrics |-> a] :
     m \in BOOLEAN, f \in BOOLEAN, l \in {0, 2}, a \in BOOLEAN}

\* A direct upstream, and a SOCKS5 one that asks for a login, without IPv6.
DirectUpstream ==
  [kind |-> "direct", scopes |-> {}, ipv4 |-> "auto", ipv6 |-> "auto", prefer |-> 0, weight |-> 1,
   binds |-> {}, login |-> FALSE, asks |-> "nothing"]
TwoUpstreams ==
  <<DirectUpstream,
    [DirectUpstream EXCEPT !.kind = "socks5", !.asks = "login", !.login = TRUE, !.ipv6 = "off"]>>
Paths == {1, 2} \X {1} \X {4, 6}
PathOutages == {{}, {p \in Paths : p[1] = 1}, {p \in Paths : p[3] = 4}, Paths}

\* Configurations of the conntrack controller and rules an earlier process left.
Tracking ==
  [on |-> TRUE, backend |-> "auto", mode |-> "notrack",
   listeners |-> {[family |-> "v4", ip |-> "any", port |-> 1], [family |-> "v6", ip |-> "a", port |-> 2]},
   addresses |-> {}, hybrid |-> {}, port |-> 1, budget |-> 1]
HybridTracking ==
  [Tracking EXCEPT !.mode = "hybrid", !.hybrid = {[family |-> "v4", ip |-> "b"]}, !.listeners = {}]
LeftoverRules == [nft |-> {<<"v4", "z", 9>>}, ipt |-> {<<"v4", "z", 9>>}]

watchVars == <<files, writing, published, applied, manifest, watched, polled, queue, task,
               watchEdits, signals>>
loadVars == <<raw, config, patch, loadEdits>>
startupVars == <<cfg, main, boot, init, tracker, pool, apiPool, ready, seen, loops, tended,
                 runtimeReady, cached, failures, panics>>
upstreamVars == <<healthy, fails, pref, pinged, check, client, down, changes>>
conntrackVars == <<worker, sender, pressure, conntrackQueue, delta, nft, ipt, changed, events,
                   highs, conntrackChanges, faults>>
natVars == <<kind, start, me, cache, backoff, live, natLock, natIp, call, connects, flips>>
allVars == <<view, vars, storeVars, watchVars, loadVars, startupVars, upstreamVars,
             conntrackVars, natVars>>

Watch1 == INSTANCE ConfigWatch WITH
  Files <- {"main", "inc"}, Contents <- SameIncludes, First <- FirstFiles, Inotify <- TRUE,
  QueueCap <- 2, Startup <- FALSE, MaxEdits <- 3, MaxSignals <- 1, edits <- watchEdits

Watch2 == INSTANCE ConfigWatch WITH
  Files <- {"main", "inc"}, Contents <- AnyIncludes, First <- NoIncludes, Inotify <- TRUE,
  QueueCap <- 2, Startup <- FALSE, MaxEdits <- 2, MaxSignals <- 0, edits <- watchEdits

Watch3 == INSTANCE ConfigWatch WITH
  Files <- {"main", "inc"}, Contents <- AnyIncludes, First <- FirstFiles, Inotify <- FALSE,
  QueueCap <- 2, Startup <- FALSE, MaxEdits <- 1, MaxSignals <- 0, edits <- watchEdits

Load == INSTANCE ConfigLoad WITH
  Raws <- Texts, Start <- Text, CertLens <- {1, 2}, Unit <- 4, Reserve <- 1, Fallback <- 3,
  MaxEdits <- 1, edits <- loadEdits

Start1 == INSTANCE Startup WITH
  Configs <- StartConfigs, CachedAtStart <- {{}}, MaxFailures <- 2, MaxPanics <- 1

Ups1 == INSTANCE Upstreams WITH
  Ups <- {1, 2}, Conf <- TwoUpstreams, Dcs <- {1}, IPv4 <- TRUE, IPv6 <- TRUE, Clients <- {1},
  Scopes <- {""}, Attempts <- 2, FailFast <- TRUE, Threshold <- 2, MinGroups <- 1,
  Outages <- PathOutages, MaxChanges <- 1

Nft == INSTANCE Conntrack WITH
  Gens <- {1}, Conf <- <<Tracking>>, Tools <- {"nft", "iptables", "ip6tables", "conntrack"},
  NetAdmin <- TRUE, Leftover <- LeftoverRules, QueueCap <- 2, ReleaseTicks <- 2, Interval <- 2,
  Reasons <- {"normal", "timeout"}, Steady <- FALSE, MaxEvents <- 2, MaxHighs <- 2,
  MaxChanges <- 1, MaxFaults <- 0, queue <- conntrackQueue, changes <- conntrackChanges

Iptables == INSTANCE Conntrack WITH
  Gens <- {1}, Conf <- <<[Tracking EXCEPT !.backend = "iptables"]>>,
  Tools <- {"nft", "iptables", "ip6tables", "conntrack"}, NetAdmin <- TRUE,
  Leftover <- LeftoverRules, QueueCap <- 2, ReleaseTicks <- 2, Interval <- 2,
  Reasons <- {"normal", "timeout"}, Steady <- FALSE, MaxEvents <- 1, MaxHighs <- 1,
  MaxChanges <- 1, MaxFaults <- 1, queue <- conntrackQueue, changes <- conntrackChanges

TwoControllers == INSTANCE Conntrack WITH
  Gens <- {1, 2}, Conf <- <<Tracking, HybridTracking>>,
  Tools <- {"nft", "iptables", "ip6tables", "conntrack"}, NetAdmin <- TRUE,
  Leftover <- LeftoverRules, QueueCap <- 2, ReleaseTicks <- 2, Interval <- 2,
  Reasons <- {"normal", "timeout"}, Steady <- FALSE, MaxEvents <- 1, MaxHighs <- 1,
  MaxChanges <- 0, MaxFaults <- 0, queue <- conntrackQueue, changes <- conntrackChanges

Nat1 == INSTANCE NatProbe WITH
  Families <- {"v4", "v6"}, Servers <- {"a", "b"}, Reports <- ("a" :> "p") @@ ("b" :> "q"),
  Kinds <- {"answers"}, TcpFallback <- FALSE, Concurrency <- 1, NatProbeOn <- TRUE,
  NatIp <- {}, Detected <- ("v4" :> "bogon") @@ ("v6" :> "public"), NoStack <- {},
  Upstreams <- <<>>, Callers <- {1, 2}, MaxConnects <- 2, MaxFlips <- 0, lock <- natLock

Nat2 == INSTANCE NatProbe WITH
  Families <- {"v4", "v6"}, Servers <- {"a", "b"}, Reports <- ("a" :> "p") @@ ("b" :> "q"),
  Kinds <- {"answers", "tcp", "refuses", "garbage"}, TcpFallback <- TRUE, Concurrency <- 1,
  NatProbeOn <- TRUE, NatIp <- {}, Detected <- ("v4" :> "bogon") @@ ("v6" :> "public"),
  NoStack <- {"v6"}, Upstreams <- <<[bind |-> {"v4"}, strict |-> {"v4"}]>>, Callers <- {1},
  MaxConnects <- 2, MaxFlips <- 1, lock <- natLock

\* The variables of the other views keep one value.
WatchInit ==
  \/ view = "watch" /\ Watch1!Init
  \/ view = "watch_includes" /\ Watch2!Init
  \/ view = "watch_poll" /\ Watch3!Init
  \/ /\ view \notin {"watch", "watch_includes", "watch_poll"}
     /\ files = 0 /\ writing = 0 /\ published = 0 /\ applied = 0 /\ manifest = 0 /\ watched = 0
     /\ polled = 0 /\ queue = 0 /\ task = 0 /\ watchEdits = 0 /\ signals = 0

LoadInit ==
  \/ view = "load" /\ Load!Init
  \/ /\ view # "load"
     /\ raw = 0 /\ config = 0 /\ patch = 0 /\ loadEdits = 0

StartupInit ==
  \/ view = "startup" /\ Start1!Init
  \/ /\ view # "startup"
     /\ cfg = 0 /\ main = 0 /\ boot = 0 /\ init = 0 /\ tracker = 0 /\ pool = 0 /\ apiPool = 0
     /\ ready = 0 /\ seen = 0 /\ loops = 0 /\ tended = 0 /\ runtimeReady = 0 /\ cached = 0
     /\ failures = 0 /\ panics = 0

UpstreamInit ==
  \/ view = "upstreams" /\ Ups1!Init
  \/ /\ view # "upstreams"
     /\ healthy = 0 /\ fails = 0 /\ pref = 0 /\ pinged = 0 /\ check = 0 /\ client = 0
     /\ down = 0 /\ changes = 0

ConntrackInit ==
  \/ view = "nft" /\ Nft!Init
  \/ view = "iptables" /\ Iptables!Init
  \/ view = "two_controllers" /\ TwoControllers!Init
  \/ /\ view \notin {"nft", "iptables", "two_controllers"}
     /\ worker = 0 /\ sender = 0 /\ pressure = 0 /\ conntrackQueue = 0 /\ delta = 0 /\ nft = 0
     /\ ipt = 0 /\ changed = 0 /\ events = 0 /\ highs = 0 /\ conntrackChanges = 0
     /\ faults = 0

NatInit ==
  \/ view = "two_callers" /\ Nat1!Init
  \/ view = "servers_change" /\ Nat2!Init
  \/ /\ view \notin {"two_callers", "servers_change"}
     /\ kind = 0 /\ start = 0 /\ me = 0 /\ cache = 0 /\ backoff = 0 /\ live = 0 /\ natLock = 0
     /\ natIp = 0 /\ call = 0 /\ connects = 0 /\ flips = 0

MCInit ==
  /\ view \in Views
  /\ Init /\ (view # "reload" => gens[1].listeners = {1})
  /\ StoreInit
  /\ WatchInit
  /\ LoadInit
  /\ StartupInit
  /\ UpstreamInit
  /\ ConntrackInit
  /\ NatInit

MCNext ==
  /\ UNCHANGED view
  /\ \/ view = "reload" /\ Next /\ Bounded
        /\ UNCHANGED <<storeVars, watchVars, loadVars, startupVars, upstreamVars,
                       conntrackVars, natVars>>
     \/ view = "store" /\ StoreNext /\ Undisturbed'
        /\ UNCHANGED <<vars, watchVars, loadVars, startupVars, upstreamVars, conntrackVars,
                       natVars>>
     \/ view = "store_dropped" /\ StoreNext /\ served' <= 1
        /\ UNCHANGED <<vars, watchVars, loadVars, startupVars, upstreamVars, conntrackVars,
                       natVars>>
     \/ view = "watch" /\ Watch1!Next
        /\ UNCHANGED <<vars, storeVars, loadVars, startupVars, upstreamVars, conntrackVars,
                       natVars>>
     \/ view = "watch_includes" /\ Watch2!Next
        /\ UNCHANGED <<vars, storeVars, loadVars, startupVars, upstreamVars, conntrackVars,
                       natVars>>
     \/ view = "watch_poll" /\ Watch3!Next
        /\ UNCHANGED <<vars, storeVars, loadVars, startupVars, upstreamVars, conntrackVars,
                       natVars>>
     \/ view = "load" /\ Load!Next
        /\ UNCHANGED <<vars, storeVars, watchVars, startupVars, upstreamVars, conntrackVars,
                       natVars>>
     \/ view = "startup" /\ Start1!Next
        /\ UNCHANGED <<vars, storeVars, watchVars, loadVars, upstreamVars, conntrackVars,
                       natVars>>
     \/ view = "upstreams" /\ Ups1!Next
        /\ UNCHANGED <<vars, storeVars, watchVars, loadVars, startupVars, conntrackVars,
                       natVars>>
     \/ view = "nft" /\ Nft!Next
        /\ UNCHANGED <<vars, storeVars, watchVars, loadVars, startupVars, upstreamVars,
                       natVars>>
     \/ view = "iptables" /\ Iptables!Next
        /\ UNCHANGED <<vars, storeVars, watchVars, loadVars, startupVars, upstreamVars,
                       natVars>>
     \/ view = "two_controllers" /\ TwoControllers!Next
        /\ UNCHANGED <<vars, storeVars, watchVars, loadVars, startupVars, upstreamVars,
                       natVars>>
     \/ view = "two_callers" /\ Nat1!Next
        /\ UNCHANGED <<vars, storeVars, watchVars, loadVars, startupVars, upstreamVars,
                       conntrackVars>>
     \/ view = "servers_change" /\ Nat2!Next
        /\ UNCHANGED <<vars, storeVars, watchVars, loadVars, startupVars, upstreamVars,
                       conntrackVars>>

MCSpec ==
  /\ MCInit /\ [][MCNext]_allVars
  /\ WF_vars(view = "reload" /\ ApiStep) /\ WF_vars(view = "reload" /\ SupervisorStep)
  /\ WF_vars(view = "reload" /\ ShutdownStep)
  /\ \A a \in Addrs : WF_vars(view = "reload" /\ AcceptorStep(a))
  /\ \A g \in Gens : WF_vars(view = "reload" /\ gens[g].cancelled /\ SessionEnds(g))
  /\ WF_watchVars(\/ view = "watch" /\ Watch1!Task
                  \/ view = "watch_includes" /\ Watch2!Task
                  \/ view = "watch_poll" /\ Watch3!Task)
  /\ WF_watchVars(\/ view = "watch" /\ Watch1!Poll
                  \/ view = "watch_includes" /\ Watch2!Poll
                  \/ view = "watch_poll" /\ Watch3!Poll)
  /\ \A f \in {"main", "inc"} : WF_watchVars(\/ view = "watch" /\ Watch1!EndRewrite(f)
                                             \/ view = "watch_includes" /\ Watch2!EndRewrite(f)
                                             \/ view = "watch_poll" /\ Watch3!EndRewrite(f))
  /\ WF_startupVars(view = "startup" /\ Start1!Main)
  /\ WF_startupVars(view = "startup" /\ main # "exit" /\ Start1!Boot)
  /\ WF_startupVars(view = "startup" /\ main # "exit" /\ (Start1!InitSucceeds \/ Start1!InitFails))
  /\ WF_startupVars(view = "startup" /\ main # "exit" /\ Start1!ReadyListener)
  /\ WF_startupVars(view = "startup" /\ main # "exit" /\ Start1!GateObserves)
  /\ \A l \in Start1!Loops : WF_startupVars(view = "startup" /\ main # "exit" /\ Start1!supervise_me_task(l))
  /\ WF_upstreamVars(view = "upstreams" /\ Ups1!Health)
  /\ WF_upstreamVars(view = "upstreams" /\ Ups1!Attempt(1))
  /\ WF_upstreamVars(view = "upstreams" /\ Ups1!Recorded(1))
  /\ WF_conntrackVars(\/ view = "nft" /\ Nft!Tick
                      \/ view = "iptables" /\ Iptables!Tick
                      \/ view = "two_controllers" /\ TwoControllers!Tick)
  /\ \A g \in {1, 2} : WF_conntrackVars(\/ view = "nft" /\ g \in DOMAIN worker /\ Nft!run_conntrack_controller(g)
                                        \/ view = "iptables" /\ g \in DOMAIN worker /\ Iptables!run_conntrack_controller(g)
                                        \/ view = "two_controllers" /\ g \in DOMAIN worker /\ TwoControllers!run_conntrack_controller(g))
  /\ \A g \in {1, 2} : WF_conntrackVars(\/ view = "nft" /\ g \in DOMAIN worker /\ Nft!Worker(g)
                                        \/ view = "iptables" /\ g \in DOMAIN worker /\ Iptables!Worker(g)
                                        \/ view = "two_controllers" /\ g \in DOMAIN worker /\ TwoControllers!Worker(g))

\* What the files say last reaches the service, the set of included files
\* being the same, and restart-only fields never do (hot_reload/watcher.rs).
EditsReachService ==
  /\ [](/\ view = "watch" => Watch1!ColdFieldsKept
        /\ view = "watch_includes" => Watch2!ColdFieldsKept)
  /\ <>[](view = "watch" => Watch1!InService)

\* "config watcher: poll watcher active (Docker/NFS safe)": where inotify
\* reports nothing, edits reach the service all the same (watcher.rs).
PolledEditsReachService == <>[](view = "watch_poll" => Watch3!InService)

\* A configuration in force is consistent, be it a load or hot fields laid
\* over an older load (config/load, hot_reload/fields.rs).
ConfigInForceConsistent == view = "load" => Load!ConfigInForceConsistent

\* A start comes to rest with every component settled and a pool that is up in
\* use, and Middle-End is reported only with such a pool (me_startup.rs).
StartupSettles ==
  /\ [](view = "startup" => Start1!TransportHasPool)
  /\ <>[](view = "startup" => Start1!AtRest)

\* An upstream through which the data centres can be reached is healthy again
\* and again, and a request gets an address its policy allows (upstream.rs).
CheckedUpstreamRecovers ==
  /\ [](view = "upstreams" => Ups1!TargetFollowsPolicy)
  /\ \A u \in {1, 2} : []<>(view = "upstreams" => Ups1!HealthyIfReachable(u))

\* Pressure mode ends with the load, also for a generation that is replaced,
\* and rules reported as applied are in the kernel's tables, exactly, whatever
\* was left there and whichever commands failed (conntrack_control.rs).
ConntrackFollowsLoad ==
  /\ [](/\ view = "nft" => Nft!AppliedRulesExact
        /\ view = "iptables" => Iptables!AppliedRulesExact)
  /\ []<>(/\ view = "nft" => Nft!Relaxed
          /\ view = "iptables" => Iptables!Relaxed
          /\ view = "two_controllers" => TwoControllers!Relaxed)

\* The search for the public address is put off only after a probe in which
\* every configured server missed, not those of a narrowed list (pool_nat.rs).
PutOffOnlyAfterAll ==
  /\ view = "two_callers" => Nat1!PutOffOnlyAfterAll
  /\ view = "servers_change" => Nat2!PutOffOnlyAfterAll
==============================================================================
