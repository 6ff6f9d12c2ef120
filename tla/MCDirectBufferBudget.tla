------------------------ MODULE MCDirectBufferBudget -------------------------
(***************************************************************************)
(* Instances for TLC of the parts of the process that share one resource:  *)
(* the envelope of copy buffers (DirectBufferBudget), the stack of stream  *)
(* codecs under a relay (StreamStack), the certificate budget and the      *)
(* profile cache of the TLS front (CertBudget, TlsFront), the front and the*)
(* ServerHello it answers with (ClientFront, HelloShape), and the SYN      *)
(* limiter rules of the host (SynLimit).  A behaviour exercises the view it*)
(* starts with, so that the state spaces add up.                           *)
(***************************************************************************)
EXTENDS DirectBufferBudget, CertBudget, Sequences, TLC

VARIABLE view   \* what a behaviour is about
VARIABLES side, accepted, ks, cst, pend, op, tst, rec, pos, wire, flushed, shut, script,
          arrived, ended, taken, rst, have, body, out, rks, eof   \* StreamStack
VARIABLES tlsPhase, todo, cache, task, disk, writes, winners, rounds, expiries, crashes   \* TlsFront
VARIABLES config, proc, cmds, errors, active, nft, ipt, pf, faults, synCrashes, runs   \* SynLimit
VARIABLES conf, transport, first, trusted, sni, frontSent, end, got, pc, outcome, peer, hello,
          initial, pending, frontTarget, toMask, total, up, down, answers, maskOpen, toClient   \* ClientFront
VARIABLES helloPc, helloHello, origin, cached, reply   \* HelloShape

\* What a client sends through FakeTLS: records of a type and a length.
Record(t, n) == [type |-> t, len |-> n]
TlsScripts ==
  {<<Record("ccs", 1), Record("app", 2), Record("app", 1)>>,
   <<Record("app", 2), Record("alert", 2), Record("app", 1)>>,
   <<Record("app", 1), Record("handshake", 4)>>,
   <<Record("handshake", 2)>>, <<Record("ccs", 2)>>, <<Record("app", 0)>>}

\* tls_fingerprints of two generations: the binding of domain x changes.
BoundProfiles ==
  [g \in {1, 2} |-> [d \in {"x", "y"} |->
     IF d = "y" THEN "any" ELSE IF g = 1 THEN "fox" ELSE "chrome"]]

\* Cache files an earlier run may have left.
EarlierFile(s, c) == [state |-> "whole", data |-> [source |-> s, profile |-> "none", cert |-> c], old |-> FALSE]
NoFile == [state |-> "absent", data |-> [source |-> "default", profile |-> "none", cert |-> "none"], old |-> FALSE]
EarlierFiles == {NoFile, EarlierFile("raw", "other"), EarlierFile("merged", "own")}

\* Listeners for every backend of the SYN limiter, and one without a limit.
Listener(f, ip, port, mode, seconds, hits) ==
  [family |-> f, ip |-> ip, port |-> port, mode |-> mode, seconds |-> seconds, hits |-> hits]
SynConfigs ==
  LET b == Listener("v6", "x", 1, "nftables", 60, 48) IN
  {{Listener("v6", "any", 1, "iptables", 7, 3), b},
   {Listener("v4", "any", 1, "iptables", 7, 3), Listener("v4", "y", 2, "iptables", 1, 12)},
   {b, Listener("v4", "y", 3, "pf", 60, 48)},
   {Listener("v4", "y", 3, "off", 60, 48)}}

\* Settings of the front: listening with and without PROXY headers, masking
\* to a host, to a unix socket or not at all.
PlainFront == [proxy_protocol |-> FALSE, first_byte |-> FALSE, direct |-> TRUE, mask |-> TRUE, unix |-> FALSE]
FrontConfigs ==
  {PlainFront,
   [PlainFront EXCEPT !.proxy_protocol = TRUE, !.first_byte = TRUE, !.direct = FALSE],
   [PlainFront EXCEPT !.mask = FALSE],
   [PlainFront EXCEPT !.unix = TRUE]}

\* Hellos: extensions in every order that matters to the parsers, whole and
\* cut short, with the key shares and versions the negotiation tells apart.
Ext(t, fits, list) == [t |-> t, fits |-> fits, list |-> list, exact |-> TRUE]
KeyShare(g, right) == [group |-> g, right |-> right]
OneShare == <<KeyShare("x25519", TRUE)>>
ShareLists ==
  {OneShare, <<KeyShare("mlkem", TRUE)>> \o OneShare, <<KeyShare("mlkem", FALSE)>> \o OneShare,
   OneShare \o OneShare}
VersionLists == {<<"13", "12">>, <<"12">>, <<"grease">>}
Host == Ext("sni", TRUE, <<"host">>)
ExtLists ==
  {<<Host, Ext("share", TRUE, l)>> : l \in ShareLists}
  \cup {<<Host, Ext("versions", TRUE, v), Ext("share", TRUE, l)>> : v \in VersionLists, l \in ShareLists}
  \cup {<<Host, Ext("share", TRUE, OneShare), Ext("versions", f, v)>> : f \in BOOLEAN, v \in VersionLists}
  \cup {<<Host, Ext("share", TRUE, <<KeyShare("mlkem", TRUE)>>),
           [Ext("share", TRUE, OneShare) EXCEPT !.exact = FALSE]>>,
         <<Host, Host, Ext("share", TRUE, OneShare)>>,
         <<Host, Ext("alpn", TRUE, <<"imap">>), Ext("share", TRUE, OneShare)>>}
ClientHellos ==
  [record : {TRUE}, handshake : BOOLEAN, legacy12 : BOOLEAN,
   suites : {{"aes128"}, {"chacha", "old"}, {"old"}}, exts : ExtLists]

\* What was captured from the origin: the record sizes and the ServerHello.
Field(t, form) == [t |-> t, form |-> form]
Templates ==
  [version : {"tls12"}, compression : {0}, suite : {"chacha", "old"},
   exts : {<<Field("share", "x25519"), Field("versions", "13")>>,
           <<Field("versions", "13"), Field("share", "x25519"), Field("share", "mlkem")>>,
           <<Field("versions", "13"), Field("share", "mlkem"), Field("alpn", "h2")>>}]
ServedOrigins == [records : {<<>>, <<9, 2>>, <<5, 1, 2, 2>>}, template : Templates]

streamVars == <<side, accepted, ks, cst, pend, op, tst, rec, pos, wire, flushed, shut, script,
                arrived, ended, taken, rst, have, body, out, rks, eof>>
tlsVars == <<tlsPhase, todo, cache, task, disk, writes, winners, rounds, expiries, crashes>>
synVars == <<config, proc, cmds, errors, active, nft, ipt, pf, faults, synCrashes, runs>>
frontVars == <<conf, transport, first, trusted, sni, frontSent, end, got, pc, outcome, peer,
               hello, initial, pending, frontTarget, toMask, total, up, down, answers,
               maskOpen, toClient>>
helloVars == <<helloPc, helloHello, origin, cached, reply>>
allVars == <<view, vars, certVars, streamVars, tlsVars, synVars, frontVars, helloVars>>

LeaseSymmetry == Permutations(Leases)

\* Two of the three addresses share a shard of the certificate gate.
ShardOf == "a" :> 1 @@ "b" :> 1 @@ "c" :> 2

Stream == INSTANCE StreamStack WITH
  MaxBytes <- 6, Writes <- {1, 2, 3}, MaxPending <- 3, Limits <- {1, 2}, HeaderSize <- 2,
  Scripts <- TlsScripts, Buffers <- {1, 2}

TlsReload == INSTANCE TlsFront WITH
  Gens <- {1, 2}, Domains <- {"x"}, Profiles <- <<"chrome", "fox">>, Bound <- BoundProfiles,
  RequireReady <- {2}, Fallback <- "chrome", Compat <- "compat", StrictRoute <- TRUE,
  CacheTtl <- TRUE, WinnerCap <- 1, OldFiles <- EarlierFiles, MaxRounds <- 0, MaxExpiries <- 0,
  MaxCrashes <- 1, phase <- tlsPhase

TlsDomains == INSTANCE TlsFront WITH
  Gens <- {1}, Domains <- {"x", "y"}, Profiles <- <<"chrome", "fox">>, Bound <- BoundProfiles,
  RequireReady <- {1}, Fallback <- "chrome", Compat <- "compat", StrictRoute <- TRUE,
  CacheTtl <- TRUE, WinnerCap <- 1, OldFiles <- EarlierFiles, MaxRounds <- 0, MaxExpiries <- 1,
  MaxCrashes <- 0, phase <- tlsPhase

TlsRefresh == INSTANCE TlsFront WITH
  Gens <- {1}, Domains <- {"x"}, Profiles <- <<"chrome", "fox">>, Bound <- BoundProfiles,
  RequireReady <- {}, Fallback <- "chrome", Compat <- "compat", StrictRoute <- FALSE,
  CacheTtl <- TRUE, WinnerCap <- 1, OldFiles <- EarlierFiles, MaxRounds <- 1, MaxExpiries <- 1,
  MaxCrashes <- 1, phase <- tlsPhase

Syn == INSTANCE SynLimit WITH
  Configs <- SynConfigs, Tools <- {"nft", "iptables", "ip6tables", "pfctl"},
  Privileged <- TRUE, NftTables <- {"ip6"}, PfHook <- TRUE, MaxFaults <- 2, MaxCrashes <- 2,
  MaxRuns <- 3, crashes <- synCrashes

Unprivileged == INSTANCE SynLimit WITH
  Configs <- SynConfigs, Tools <- {"nft", "iptables", "ip6tables", "pfctl"},
  Privileged <- FALSE, NftTables <- {"ip6"}, PfHook <- TRUE, MaxFaults <- 0, MaxCrashes <- 0,
  MaxRuns <- 2, crashes <- synCrashes

FewTools == INSTANCE SynLimit WITH
  Configs <- SynConfigs, Tools <- {"nft", "iptables"}, Privileged <- TRUE,
  NftTables <- {"ip6"}, PfHook <- TRUE, MaxFaults <- 0, MaxCrashes <- 0, MaxRuns <- 2,
  crashes <- synCrashes

Front == INSTANCE ClientFront WITH
  Configs <- FrontConfigs, Transports <- {"tcp", "stream"},
  Firsts <- {"tls", "tls_len", "http", "other"}, MaskHost <- "none", MaskDynamic <- TRUE,
  Exclusive <- [x \in {"ex"} |-> "exhost"], Domains <- {"dom"}, TlsDomain <- "tlsdom",
  Snis <- {"dom"}, SelfHosts <- {"dom"}, MaskProxyProtocol <- TRUE, ShapeHardening <- TRUE,
  Aggressive <- TRUE, BucketFloor <- 4, BucketCap <- 7, BlurMax <- 1, RelayCap <- 3,
  DrainCap <- 1, MaxUnits <- 6, MaxAnswers <- 1, sent <- frontSent, target <- frontTarget

Hello == INSTANCE HelloShape WITH
  Hellos <- ClientHellos, Origins <- ServedOrigins, MinApp <- 4, MaxApp <- 8, Overhead <- 2,
  FakeCertLen <- 5, TicketMax <- 2, Jitter <- 1, CertLens <- {0, 13}, InfoLens <- {0, 3},
  AlpnEnforce <- TRUE, pc <- helloPc, hello <- helloHello

\* The variables of the other views keep one value.
StreamInit ==
  \/ view = "stream" /\ Stream!Init
  \/ /\ view # "stream"
     /\ side = 0 /\ accepted = 0 /\ ks = 0 /\ cst = 0 /\ pend = 0 /\ op = 0 /\ tst = 0
     /\ rec = 0 /\ pos = 0 /\ wire = 0 /\ flushed = 0 /\ shut = 0 /\ script = 0 /\ arrived = 0
     /\ ended = 0 /\ taken = 0 /\ rst = 0 /\ have = 0 /\ body = 0 /\ out = 0 /\ rks = 0
     /\ eof = 0

TlsInit ==
  \/ view = "tls_reload" /\ TlsReload!Init
  \/ view = "tls_domains" /\ TlsDomains!Init
  \/ view = "tls_refresh" /\ TlsRefresh!Init
  \/ /\ view \notin {"tls_reload", "tls_domains", "tls_refresh"}
     /\ tlsPhase = 0 /\ todo = 0 /\ cache = 0 /\ task = 0 /\ disk = 0 /\ writes = 0
     /\ winners = 0 /\ rounds = 0 /\ expiries = 0 /\ crashes = 0

SynInit ==
  \/ view = "synlimit" /\ Syn!Init
  \/ view = "unprivileged" /\ Unprivileged!Init
  \/ view = "few_tools" /\ FewTools!Init
  \/ /\ view \notin {"synlimit", "unprivileged", "few_tools"}
     /\ config = 0 /\ proc = 0 /\ cmds = 0 /\ errors = 0 /\ active = 0 /\ nft = 0 /\ ipt = 0
     /\ pf = 0 /\ faults = 0 /\ synCrashes = 0 /\ runs = 0

FrontInit ==
  \/ view = "front" /\ Front!Init
  \/ /\ view # "front"
     /\ conf = 0 /\ transport = 0 /\ first = 0 /\ trusted = 0 /\ sni = 0 /\ frontSent = 0
     /\ end = 0 /\ got = 0 /\ pc = 0 /\ outcome = 0 /\ peer = 0 /\ hello = 0 /\ initial = 0
     /\ pending = 0 /\ frontTarget = 0 /\ toMask = 0 /\ total = 0 /\ up = 0 /\ down = 0
     /\ answers = 0 /\ maskOpen = 0 /\ toClient = 0

HelloInit ==
  \/ view = "hello" /\ Hello!Init
  \/ /\ view # "hello"
     /\ helloPc = 0 /\ helloHello = 0 /\ origin = 0 /\ cached = 0 /\ reply = 0

MCInit ==
  /\ view \in {"budget", "certs", "stream", "tls_reload", "tls_domains", "tls_refresh",
               "synlimit", "unprivileged", "few_tools", "front", "hello"}
  /\ Init
  /\ CertInit
  /\ StreamInit
  /\ TlsInit
  /\ SynInit
  /\ FrontInit
  /\ HelloInit

MCNext ==
  /\ UNCHANGED view
  /\ \/ view = "budget" /\ Next
        /\ UNCHANGED <<certVars, streamVars, tlsVars, synVars, frontVars, helloVars>>
     \/ view = "certs" /\ CertNext
        /\ UNCHANGED <<vars, streamVars, tlsVars, synVars, frontVars, helloVars>>
     \/ view = "stream" /\ Stream!Next
        /\ UNCHANGED <<vars, certVars, tlsVars, synVars, frontVars, helloVars>>
     \/ view = "tls_reload" /\ TlsReload!Next
        /\ UNCHANGED <<vars, certVars, streamVars, synVars, frontVars, helloVars>>
     \/ view = "tls_domains" /\ TlsDomains!Next
        /\ UNCHANGED <<vars, certVars, streamVars, synVars, frontVars, helloVars>>
     \/ view = "tls_refresh" /\ TlsRefresh!Next
        /\ UNCHANGED <<vars, certVars, streamVars, synVars, frontVars, helloVars>>
     \/ view = "synlimit" /\ Syn!Next
        /\ UNCHANGED <<vars, certVars, streamVars, tlsVars, frontVars, helloVars>>
     \/ view = "unprivileged" /\ Unprivileged!Next
        /\ UNCHANGED <<vars, certVars, streamVars, tlsVars, frontVars, helloVars>>
     \/ view = "few_tools" /\ FewTools!Next
        /\ UNCHANGED <<vars, certVars, streamVars, tlsVars, frontVars, helloVars>>
     \/ view = "front" /\ Front!Next
        /\ UNCHANGED <<vars, certVars, streamVars, tlsVars, synVars, helloVars>>
     \/ view = "hello" /\ Hello!Next
        /\ UNCHANGED <<vars, certVars, streamVars, tlsVars, synVars, frontVars>>

MCSpec == MCInit /\ [][MCNext]_allVars

\* Whatever the writes, flushes and partial writes below, the bytes the layers
\* have put on the wire decode to the bytes they accepted, and what a reader
\* hands up is what the client sent (FakeTlsWriter, CryptoWriter, FakeTlsReader).
ReaderFaithful ==
  view = "stream" => Stream!ReaderFaithful /\ Stream!WireDecodes /\ Stream!FlushMeansSent
\* A domain bound to a fingerprint is served a shape of that fingerprint, and
\* a generation that requires readiness never the built-in one (cache.rs).
BoundShapeIsOwn ==
  /\ view = "tls_reload" => TlsReload!BoundShapeIsOwn /\ TlsReload!ReadyMeansProfiled
  /\ view = "tls_domains" => TlsDomains!BoundShapeIsOwn /\ TlsDomains!ReadyMeansProfiled
  /\ view = "tls_refresh" => TlsRefresh!BoundShapeIsOwn /\ TlsRefresh!ReadyMeansProfiled
\* A process that serves has each limit in force exactly once, and a stopped
\* one leaves no rule behind, whatever failed before (synlimit_control).
NothingLeftBehind == view = "synlimit" => Syn!NothingLeftBehind /\ Syn!LimiterInForce
\* What the mask host received, after any partial handshake, is the client's
\* stream from its first byte on, each byte once and in order (masking.rs).
MaskSeesClientStream == view = "front" => Front!MaskSeesClientStream
\* The ServerHello answers with a share the client offered, of the version and
\* suite the client can speak; its records carry the whole payload, which holds
\* a certificate only for a client that speaks TLS 1.2 (tls.rs, emulator.rs).
ReplyIsNegotiated ==
  view = "hello" =>
    Hello!ReplyIsNegotiated /\ Hello!PayloadIsCarried /\ Hello!CertificateOnlyForTls12
==============================================================================
