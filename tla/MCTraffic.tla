------------------------------ MODULE MCTraffic ------------------------------
(***************************************************************************)
(* Instances for TLC of what bounds a client: one rate bucket atomic by    *)
(* atomic, the lease registry behind an auto-template or an explicit subnet*)
(* and the consumption through a lease (TrafficLimiter), the quota of a    *)
(* user and the file it is saved in (QuotaRelay), the eviction of idle     *)
(* relays under pressure (RelayIdle), and the replay check and the throttle*)
(* of the handshake (ClientHandshake).                                     *)
(***************************************************************************)
EXTENDS TrafficLimiter, QuotaRelay, RelayIdle, TLC

CONSTANTS t1, t2, l1, l2, u1, u2, r1, r2, r3

CONSTANT Views   \* the views a run looks at

VARIABLE view   \* what a behaviour is about
VARIABLES handNow, arrivals, config, conn, probe, saturation, tlsShard, mtShard, byIp,
          byPrefix, bySni, ring, fails, sessions   \* ClientHandshake

\* Hellos of users u1, u2 and u3: a TLS hello, an obfuscated handshake, a hello
\* whose SNI names another user, one of nobody, and those refused early.
ClientHello(owner, id, tls, sni) ==
  [tls |-> tls, short |-> FALSE, alpn |-> "none", sni |-> sni, owner |-> owner, kin |-> {"u2"},
   digest |-> id, nonce |-> id, usable |-> TRUE]
Genuine == ClientHello("u1", 1, TRUE, "domain")
Obfuscated == ClientHello("u2", 2, FALSE, "none")
Misleading == ClientHello("u3", 3, TRUE, "u1")
Wrong == ClientHello("nobody", 4, FALSE, "none")
RefusedHellos ==
  {[ClientHello("u1", 5, TRUE, "other") EXCEPT !.kin = {}],
   [Genuine EXCEPT !.short = TRUE], [Genuine EXCEPT !.alpn = "unsupported"],
   [Genuine EXCEPT !.usable = FALSE]}

\* Relays r1 and r2 are user u1's.
MCOwner == r1 :> u1 @@ r2 :> u1 @@ r3 :> u2
MCSecond == <<1, 2>>

handVars == <<handNow, arrivals, config, conn, probe, saturation, tlsShard, mtShard, byIp,
              byPrefix, bySni, ring, fails, sessions>>
allVars == <<view, bucketVars, registryVars, leaseVars, quotaVars, idleVars, handVars>>

Symmetry == Permutations(Tasks) \cup Permutations(Leases)

Replays == INSTANCE ClientHandshake WITH
  Conns <- {1, 2}, Peers <- {1}, Hellos <- {Genuine},
  Snapshots <- <<<<"u1", "u2", "u3">>, <<"u2", "u1">>>>, Denied <- {<<"u2", 1>>},
  SniAction <- "mask", StartFails <- 1, GraceFails <- 1, BackoffMax <- 2, Retention <- 1,
  MaxEntries <- 1, ScanLimit <- 2, PruneRounds <- 1, Window <- 1, ShardCap <- 2, TrackCap <- 8,
  HintedBudget <- 2, UnhintedBudget <- 1, ScanThreshold <- 3, RingSize <- 2, HintMax <- 1,
  MaxTime <- 2, MaxArrivals <- 3, now <- handNow

Throttle == INSTANCE ClientHandshake WITH
  Conns <- {1, 2}, Peers <- {1, 2}, Hellos <- {Wrong, Obfuscated},
  Snapshots <- <<<<"u1", "u2", "u3">>, <<"u2", "u1">>>>, Denied <- {<<"u2", 1>>},
  SniAction <- "mask", StartFails <- 1, GraceFails <- 1, BackoffMax <- 2, Retention <- 1,
  MaxEntries <- 1, ScanLimit <- 2, PruneRounds <- 1, Window <- 1, ShardCap <- 2, TrackCap <- 8,
  HintedBudget <- 2, UnhintedBudget <- 1, ScanThreshold <- 3, RingSize <- 2, HintMax <- 1,
  MaxTime <- 1, MaxArrivals <- 3, now <- handNow

Search == INSTANCE ClientHandshake WITH
  Conns <- {1, 2}, Peers <- {1}, Hellos <- {Genuine, Misleading},
  Snapshots <- <<<<"u1", "u2", "u3">>, <<"u2", "u1">>>>, Denied <- {<<"u2", 1>>},
  SniAction <- "mask", StartFails <- 1, GraceFails <- 1, BackoffMax <- 2, Retention <- 1,
  MaxEntries <- 1, ScanLimit <- 2, PruneRounds <- 1, Window <- 1, ShardCap <- 2, TrackCap <- 8,
  HintedBudget <- 2, UnhintedBudget <- 1, ScanThreshold <- 3, RingSize <- 2, HintMax <- 1,
  MaxTime <- 1, MaxArrivals <- 2, now <- handNow

Refused == INSTANCE ClientHandshake WITH
  Conns <- {1, 2}, Peers <- {1}, Hellos <- RefusedHellos,
  Snapshots <- <<<<"u1", "u2", "u3">>, <<"u2", "u1">>>>, Denied <- {<<"u2", 1>>},
  SniAction <- "mask", StartFails <- 1, GraceFails <- 1, BackoffMax <- 2, Retention <- 1,
  MaxEntries <- 1, ScanLimit <- 2, PruneRounds <- 1, Window <- 1, ShardCap <- 2, TrackCap <- 8,
  HintedBudget <- 2, UnhintedBudget <- 1, ScanThreshold <- 3, RingSize <- 2, HintMax <- 1,
  MaxTime <- 1, MaxArrivals <- 2, now <- handNow

\* The variables of the other views keep one value.
HandInit ==
  \/ view = "throttle" /\ Throttle!Init
  \/ view = "search" /\ Search!Init
  \/ view = "refused" /\ Refused!Init
  \/ view \notin {"throttle", "search", "refused"} /\ Replays!Init

MCInit ==
  /\ view \in Views
  /\ BucketInit /\ (view # "bucket" => cap = MaxCap)
  /\ RegistryInit /\ (view # "registry" => explicit)
  /\ LeaseInit
  /\ QuotaInit
  /\ IdleInit
  /\ HandInit

MCNext ==
  /\ UNCHANGED view
  /\ \/ view = "bucket" /\ BucketNext
        /\ UNCHANGED <<registryVars, leaseVars, quotaVars, idleVars, handVars>>
     \/ view = "registry" /\ RegistryNext /\ (explicit \/ policies' = policies)
        /\ UNCHANGED <<bucketVars, leaseVars, quotaVars, idleVars, handVars>>
     \/ view = "lease" /\ LeaseNext
        /\ UNCHANGED <<bucketVars, registryVars, quotaVars, idleVars, handVars>>
     \/ view = "quota" /\ QuotaNext /\ saver'[2] = saver[2] /\ crashes' = crashes
        /\ UNCHANGED <<bucketVars, registryVars, leaseVars, idleVars, handVars>>
     \/ view = "quota_file" /\ QuotaNext /\ sess'[1] = sess[1] /\ sess'[2].want < 2
        /\ UNCHANGED <<bucketVars, registryVars, leaseVars, idleVars, handVars>>
     \/ view = "idle" /\ IdleNext
        /\ UNCHANGED <<bucketVars, registryVars, leaseVars, quotaVars, handVars>>
     \/ view = "replays" /\ Replays!Next
        /\ UNCHANGED <<bucketVars, registryVars, leaseVars, quotaVars, idleVars>>
     \/ view = "throttle" /\ Throttle!Next
        /\ UNCHANGED <<bucketVars, registryVars, leaseVars, quotaVars, idleVars>>
     \/ view = "search" /\ Search!Next
        /\ UNCHANGED <<bucketVars, registryVars, leaseVars, quotaVars, idleVars>>
     \/ view = "refused" /\ Refused!Next
        /\ UNCHANGED <<bucketVars, registryVars, leaseVars, quotaVars, idleVars>>

MCSpec == MCInit /\ [][MCNext]_allVars

\* Two connections with one obfuscated handshake do not both become sessions
\* within the replay window (replay checks before and after an await).
OneSessionPerHandshake == view = "replays" => Replays!OneSessionPerHandshake
\* A peer is refused unread only after failures since its last success, and
\* without saturation the search finds every user of the snapshot; the table of
\* failures stays bounded (handshake.rs).
HandshakeVerdicts ==
  /\ [](view = "search" => Search!ProbeTableBounded)
  /\ Search!ThrottledOnlyAfterFailures /\ Search!SearchFindsUser
==============================================================================
