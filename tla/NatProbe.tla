------------------------------- MODULE NatProbe -------------------------------
(* Finding out the public address (network/probe.rs, network/stun.rs,         *)
(* transport/middle_proxy/pool_nat.rs).  At startup one probe asks the STUN   *)
(* servers from the default socket and from every bound Direct upstream, and  *)
(* decides the families in use.  Later every writer that connects asks for    *)
(* its reflected address: through a cache, a backoff and a list of servers    *)
(* that answered last, all shared by the families, and one lock per family.   *)
(*                                                                            *)
(* An address is its kind: "public", "bogon" or "none"; what a server         *)
(* reflects is a name from Reports.  A packet is parsed to the address it     *)
(* carries or to nothing.  The length of the backoff is left open.            *)
EXTENDS Integers, FiniteSets, FiniteSetsExt, Sequences, SequencesExt

CONSTANTS
    Families,     \* {"v4", "v6"}
    Servers,      \* network.stun_servers, in use by the pool as well
    Reports,      \* [Servers -> address a server reflects]
    Kinds,        \* behaviours a server can take on: see Udp
    TcpFallback,  \* network.stun_tcp_fallback
    Concurrency,  \* stun_nat_probe_concurrency
    NatProbeOn,   \* middle_proxy_nat_probe and network.stun_use
    NatIp,        \* families for which middle_proxy_nat_ip is configured
    Detected,     \* [Families -> kind of the local address]
    NoStack,      \* families the host has no socket for
    Upstreams,    \* Direct upstreams: [bind, strict : SUBSET Families]
    Callers,      \* writers that connect
    MaxConnects,  \* bound: connects
    MaxFlips      \* bound: servers that change their behaviour

VARIABLES
    kind,      \* [Servers -> behaviour]
    start,     \* the startup probe
    me,        \* families decided for the Middle-End
    cache,     \* [Families -> [addr, age]]
    backoff,   \* stun_backoff_until lies in the future
    live,      \* nat_stun_live_servers
    lock,      \* [Families -> caller that holds the single flight, or 0]
    natIp,     \* nat_ip_detected by HTTP
    call,      \* [Callers -> state of a connecting writer]
    connects, flips

vars == <<kind, start, me, cache, backoff, live, lock, natIp, call, connects, flips>>
shared == <<cache, backoff, live, lock>>
env == <<kind, connects, flips>>

NoVotes == [s \in Servers |-> "none"]
Idle == [pc |-> "idle", f |-> "v4", bind |-> FALSE, asks |-> {}, todo |-> {}, run |-> {},
         votes |-> NoVotes, missed |-> {}, addr |-> "none"]
Fresh(f) == cache[f].age = "fresh"
------------------------------------------------------------------------------
(* One server, one family.  An outcome is "addr", "none", "error" (the socket *)
(* fails, which ends a dual probe), or "late" (the batch timeout cuts it).    *)

\* An answer without an address is asked again at once, without counting the
\* attempt, until the batch timeout.
Udp(k) ==
    CASE k = "answers" -> {"addr", "none"}
      [] k = "refuses" -> {"error"}
      [] k = "garbage" -> {"late"}
      [] OTHER         -> {"none"}
Tcp(k) ==
    CASE k \in {"answers", "tcp"} -> {"addr"}
      [] k = "refuses" -> {"error"}
      [] OTHER         -> {"none", "error"}

\* Without the stack of the family the socket cannot be bound, which is an
\* error for the default address and no answer for a bound one.
stun_probe_family(s, f, bind) ==
    IF f \in NoStack THEN {IF bind THEN "none" ELSE "error"}
    ELSE IF TcpFallback /\ "none" \in Udp(kind[s])
         THEN (Udp(kind[s]) \ {"none"}) \cup Tcp(kind[s])
         ELSE Udp(kind[s])

\* Both families share the task and its timeout: an error or a timeout of
\* either loses what the other found.
Dual(s, binds) ==
    {o \in [Families -> {"addr", "none", "error", "late"}] :
        \A f \in Families : o[f] \in stun_probe_family(s, f, f \in binds)}
Kept(o, f) == o[f] = "addr" /\ \A g \in Families : o[g] \in {"addr", "none"}

\* The address most servers report; a tie goes to either.
Best(votes) ==
    LET ips == {votes[s] : s \in Servers} \ {"none"}
        n(ip) == Cardinality({s \in Servers : votes[s] = ip})
    IN  IF ips = {} THEN {"none"} ELSE {ip \in ips : \A o \in ips : n(ip) >= n(o)}
------------------------------------------------------------------------------
(* Startup.                                                                  *)

Init ==
    /\ kind \in [Servers -> Kinds]
    /\ start = [pc |-> "global", i |-> 1, detected |-> Detected,
                reflected |-> [f \in Families |-> "none"], bound |-> {}, seen |-> {}]
    /\ me = {}
    /\ cache = [f \in Families |-> [addr |-> "none", age |-> "old"]]
    /\ backoff = FALSE
    /\ live = {}
    /\ lock = [f \in Families |-> 0]
    /\ natIp = FALSE
    /\ call = [k \in Callers |-> Idle]
    /\ connects = 0
    /\ flips = 0

\* probe_stun_servers_parallel: one result per server, then the majority.
Batch(binds) ==
    {best \in [Families -> {"none"} \cup {Reports[s] : s \in Servers}] :
        \E o \in [Servers -> UNION {Dual(s, binds) : s \in Servers}] :
            /\ \A s \in Servers : o[s] \in Dual(s, binds)
            /\ \A f \in Families :
                 best[f] \in Best([s \in Servers |-> IF Kept(o[s], f) THEN Reports[s] ELSE "none"])}

GlobalStun ==
    /\ start.pc = "global"
    /\ IF NatProbeOn
         THEN \E best \in Batch({}) : start' = [start EXCEPT !.pc = "direct", !.reflected = best]
         ELSE start' = [start EXCEPT !.pc = "direct"]
    /\ UNCHANGED <<env, me, shared, natIp, call>>

\* An upstream with bound addresses replaces what was detected, the first one
\* per family, and asks the servers from its own address.
DirectStun ==
    LET u == Upstreams[start.i]
        det == [f \in Families |-> IF f \in u.bind \ start.bound THEN "public"
                                   ELSE start.detected[f]]
        Got(best) ==
            start' = [start EXCEPT
                !.i = @ + 1, !.detected = det, !.bound = @ \cup u.bind,
                !.reflected = [f \in Families |-> IF best[f] = "none" THEN @[f] ELSE best[f]],
                !.seen = @ \cup {f \in Families : best[f] # "none"}]
    IN  /\ start.pc = "direct" /\ start.i <= Len(Upstreams)
        /\ IF u.bind # {} /\ NatProbeOn THEN \E best \in Batch(u.bind) : Got(best)
           ELSE Got([f \in Families |-> "none"])
        /\ UNCHANGED <<env, me, shared, natIp, call>>

\* A family that an upstream binds strictly counts only with an address of
\* its own, and a reflection only if it was seen from there.
Strict ==
    LET strict == UNION {Upstreams[i].strict : i \in DOMAIN Upstreams}
        keep(f) == f \notin strict \/ f \in start.bound
    IN  /\ start.pc = "direct" /\ start.i > Len(Upstreams)
        /\ start' = [start EXCEPT
              !.pc = "decide",
              !.detected = [f \in Families |-> IF keep(f) THEN @[f] ELSE "none"],
              !.reflected = [f \in Families |-> IF f \notin strict \/ (keep(f) /\ f \in start.seen)
                                                THEN @[f] ELSE "none"]]
        /\ UNCHANGED <<env, me, shared, natIp, call>>

\* The HTTP fallback, for IPv4 only, and the decision.  A reflected address
\* enables the family whatever it is.
decide_network_capabilities ==
    /\ start.pc = "decide"
    /\ \E http \in IF NatProbeOn /\ start.reflected["v4"] = "none" /\ start.detected["v4"] = "bogon"
                   THEN {"none", "web"} ELSE {start.reflected["v4"]} :
         LET refl == [start.reflected EXCEPT !["v4"] = http]
         IN  /\ me' = {f \in Families : /\ start.detected[f] # "none"
                                        /\ \/ start.detected[f] # "bogon"
                                           \/ refl[f] # "none"
                                           \/ f \in NatIp}
             /\ start' = [start EXCEPT !.pc = "done", !.reflected = refl]
    /\ UNCHANGED <<env, shared, natIp, call>>
------------------------------------------------------------------------------
(* A connecting writer.                                                      *)

Goes(k, pc) == call' = [call EXCEPT ![k].pc = pc]

\* translate_our_addr_with_reflection: a configured address always, otherwise
\* only a bogon local address is replaced, by the reflection or by what HTTP
\* detected, which is an IPv4 address.
Translated(f, a) ==
    IF f \in NatIp THEN "configured"
    ELSE IF start.detected[f] # "bogon" THEN start.detected[f]
    ELSE IF a # "none" THEN a
    ELSE IF natIp /\ f = "v4" THEN "web" ELSE "bogon"

Gets(k, a) ==
    call' = [call EXCEPT ![k] = [Idle EXCEPT !.f = call[k].f, !.addr = Translated(call[k].f, a)]]

\* The cache is only tried: with another caller in it, it is passed by.
Contended(k) == \E j \in Callers \ {k} : call[j].pc \notin {"idle", "batch"}

\* maybe_detect_nat_ip asks over HTTP once, when the local address is bogon.
Connect(k) ==
    /\ start.pc = "done"
    /\ call[k].pc = "idle"
    /\ connects < MaxConnects
    /\ connects' = connects + 1
    /\ \E f \in me, bind \in BOOLEAN :
         call' = [call EXCEPT ![k] = [Idle EXCEPT !.f = f, !.bind = bind,
                      !.pc = IF NatProbeOn THEN "check" ELSE "idle"]]
    /\ natIp' \in IF NatIp = {} /\ NatProbeOn /\ ~natIp /\ \E f \in me : start.detected[f] = "bogon"
                  THEN BOOLEAN ELSE {natIp}
    /\ UNCHANGED <<kind, flips, start, me, shared>>

\* Asked before the lock and again under it.  In a backoff the cached address
\* serves at any age; a bound caller uses neither cache, backoff nor lock.
Known(k) ==
    LET f == call[k].f
    IN  IF call[k].bind THEN {}
        ELSE IF backoff THEN {cache[f].addr} \cup (IF Contended(k) THEN {"none"} ELSE {})
        ELSE IF Fresh(f) THEN {cache[f].addr} ELSE {}
Passes(k) == call[k].bind \/ (~backoff /\ (Fresh(call[k].f) => Contended(k)))

\* nat_stun_live_servers narrows the first batch to what answered last.
Starts(k) ==
    LET asks == IF live = {} THEN Servers ELSE live
    IN  call' = [call EXCEPT ![k].pc = "batch", ![k].asks = asks, ![k].todo = asks,
                             ![k].run = {}, ![k].votes = NoVotes, ![k].missed = {}]

Check(k) ==
    /\ call[k].pc = "check"
    /\ \/ \E a \in Known(k) : Gets(k, a)
       \/ Passes(k) /\ IF call[k].bind THEN Starts(k) ELSE Goes(k, "lock")
    /\ UNCHANGED <<env, start, me, shared, natIp>>

Lock(k) ==
    LET f == call[k].f
    IN  /\ call[k].pc = "lock"
        /\ lock[f] = 0
        /\ \/ (\E a \in Known(k) : Gets(k, a)) /\ UNCHANGED lock
           \/ Passes(k) /\ Starts(k) /\ lock' = [lock EXCEPT ![f] = k]
        /\ UNCHANGED <<env, start, me, cache, backoff, live, natIp>>

\* probe_stun_batch_for_family
Ask(k) ==
    /\ call[k].pc = "batch"
    /\ Cardinality(call[k].run) < Concurrency
    /\ \E s \in call[k].todo :
         call' = [call EXCEPT ![k].todo = @ \ {s}, ![k].run = @ \cup {s}]
    /\ UNCHANGED <<env, start, me, shared, natIp>>

Answer(k) ==
    /\ call[k].pc = "batch"
    /\ \E s \in call[k].run, o \in {"addr", "none", "error", "late"} :
         /\ o \in stun_probe_family(s, call[k].f, call[k].bind)
         /\ call' = [call EXCEPT ![k].run = @ \ {s},
                        ![k].votes[s] = IF o = "addr" THEN Reports[s] ELSE @,
                        ![k].missed = IF o = "addr" THEN @ ELSE @ \cup {s}]
    /\ UNCHANGED <<env, start, me, shared, natIp>>

BatchDone(k) == call[k].pc = "batch" /\ call[k].todo = {} /\ call[k].run = {}
Unanswered(k) == call[k].votes = NoVotes

\* The servers that answered last may all be gone: then all are asked.
NeverAsksAgain(k) == FALSE
AsksAgain(k) == Unanswered(k) /\ call[k].asks # Servers

Rediscover(k) ==
    /\ BatchDone(k) /\ AsksAgain(k)
    /\ call' = [call EXCEPT ![k].asks = Servers, ![k].todo = Servers]
    /\ UNCHANGED <<env, start, me, shared, natIp>>

Found(k) ==
    LET f == call[k].f
    IN  /\ BatchDone(k) /\ ~Unanswered(k)
        /\ live' = {s \in Servers : call[k].votes[s] # "none"}
        /\ \E a \in Best(call[k].votes) :
             /\ cache' \in IF call[k].bind THEN {cache}
                           ELSE {[cache EXCEPT ![f] = [addr |-> a, age |-> "fresh"]]}
                                \cup (IF Contended(k) THEN {cache} ELSE {})
             /\ Gets(k, a)
        /\ lock' = [g \in Families |-> IF lock[g] = k THEN 0 ELSE lock[g]]
        /\ UNCHANGED <<env, start, me, backoff, natIp>>

\* A failed probe clears the list and puts the callers of every family off.
Failed(k) ==
    /\ BatchDone(k) /\ Unanswered(k) /\ ~AsksAgain(k)
    /\ live' = {}
    /\ backoff' = (backoff \/ ~call[k].bind)
    /\ lock' = [g \in Families |-> IF lock[g] = k THEN 0 ELSE lock[g]]
    /\ Gets(k, "none")
    /\ UNCHANGED <<env, start, me, cache, natIp>>
------------------------------------------------------------------------------
(* Time and the servers.                                                     *)

BackoffPasses ==
    /\ backoff
    /\ backoff' = FALSE
    /\ UNCHANGED <<env, start, me, cache, live, lock, natIp, call>>

CacheAges(f) ==
    /\ Fresh(f)
    /\ cache' = [cache EXCEPT ![f].age = "old"]
    /\ UNCHANGED <<env, start, me, backoff, live, lock, natIp, call>>

ServerChanges(s) ==
    /\ flips < MaxFlips
    /\ flips' = flips + 1
    /\ \E b \in Kinds \ {kind[s]} : kind' = [kind EXCEPT ![s] = b]
    /\ UNCHANGED <<connects, start, me, shared, natIp, call>>

Next ==
    \/ GlobalStun \/ DirectStun \/ Strict \/ decide_network_capabilities
    \/ \E k \in Callers :
         \/ Connect(k) \/ Check(k) \/ Lock(k) \/ Ask(k) \/ Answer(k)
         \/ Rediscover(k) \/ Found(k) \/ Failed(k)
    \/ BackoffPasses
    \/ \E f \in Families : CacheAges(f)
    \/ \E s \in Servers : ServerChanges(s)

Spec == Init /\ [][Next]_vars
------------------------------------------------------------------------------
(* The property.                                                             *)

\* A writer is told that its address cannot be found, and the pool is put off
\* for minutes, only after every configured server missed in this very probe.
\* The list of servers that answered last is shared: a probe of the other
\* family, or one bound to another address, may have narrowed it to servers
\* that do not answer this one.
PutOffOnlyAfterAll ==
    \A k \in Callers :
        BatchDone(k) /\ Unanswered(k) /\ ~AsksAgain(k) => call[k].missed = Servers
==============================================================================
