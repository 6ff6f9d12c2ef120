----------------------------- MODULE ClientFront -----------------------------
(***************************************************************************)
(* One client connection from accept to relay or fallback                  *)
(* (src/src/proxy/client.rs, src/src/proxy/masking.rs).  The client sends  *)
(* units 1, 2, 3, ...: the first byte, the rest of the record header, the  *)
(* body of a hello or the rest of an obfuscated handshake, and what        *)
(* follows.  The verdicts of the handshakes are open (ClientHandshake      *)
(* models them).  TCP connections and other streams go through two copies  *)
(* of the same code.                                                       *)
(***************************************************************************)
EXTENDS Integers, Sequences

CONSTANTS
  Transports, Firsts,        \* "tcp", "stream"; what the header of the client says
  Configs,                   \* [proxy_protocol, first_byte, direct, mask, unix: BOOLEAN]
  MaskHost, MaskDynamic, Exclusive, Domains, TlsDomain,
  Snis, SelfHosts,           \* hosts that resolve to an address and port of this listener
  MaskProxyProtocol, ShapeHardening, Aggressive, BucketFloor, BucketCap, BlurMax,
  RelayCap, DrainCap,
  MaxUnits, MaxAnswers

VARIABLES
  conf, transport, first, trusted, sni,
  sent, end,       \* units the client sent; "open", "eof" or "error"
  got,             \* units read by the proxy
  pc, outcome,
  peer,            \* address the connection is accounted to
  hello,           \* the ServerHello was sent
  initial, pending,\* initial_data, plaintext that is wrapped again
  target,
  toMask, total,   \* what the mask host received, bytes copied to it
  up, down, answers, maskOpen, toClient

client == <<conf, transport, first, trusted, sni>>
wire == <<sent, end>>
relay == <<toMask, total, up, down, toClient>>
backend == <<answers, maskOpen>>
vars == <<client, wire, got, pc, outcome, peer, hello, initial, pending, target, relay, backend>>

Body == 4      \* last unit of a hello
Inner == 5     \* the handshake inside TLS
Rest == 3      \* last unit of a handshake without TLS

Init ==
  /\ conf \in Configs /\ transport \in Transports /\ first \in Firsts /\ trusted \in BOOLEAN /\ sni \in Snis
  /\ sent = 0 /\ end = "open" /\ got = 0 /\ pc = "accept" /\ outcome = "none"
  /\ peer = "socket" /\ hello = FALSE /\ initial = <<>> /\ pending = <<>> /\ target = "none"
  /\ toMask = <<>> /\ total = 0 /\ up = "idle" /\ down = "idle" /\ answers = 0 /\ maskOpen = TRUE
  /\ toClient = 0

Ends(how) == pc' = "end" /\ outcome' = how
Go(step) == pc' = step /\ UNCHANGED outcome
Arrived(n) == sent >= n /\ end # "error"
Gone(n) == (sent < n /\ end = "eof") \/ end = "error"

DropsFirstByte(n) == [i \in 1..(n - 1) |-> i + 1]
\* What was read so far is what the mask host gets first.
Initial(n) == [i \in 1..n |-> i]

-----------------------------------------------------------------------------
(***************************************************************************)
(* Accept, PROXY header, first byte.                                       *)
(***************************************************************************)
\* parse_proxy_protocol: a source address, LOCAL or UNKNOWN, or an error.
parse_proxy_protocol ==
  \/ peer' = "proxied" /\ Go("first")
  \/ peer' = peer /\ Go("first")
  \/ peer' = peer /\ Ends("invalid_header")

ReadProxyHeader ==
  /\ pc = "accept"
  /\ CASE ~conf.proxy_protocol -> Go("first") /\ UNCHANGED peer
       [] conf.proxy_protocol /\ ~trusted -> Ends("untrusted") /\ UNCHANGED peer
       [] OTHER -> parse_proxy_protocol
  /\ UNCHANGED <<client, wire, got, hello, initial, pending, target, relay, backend>>

ProxyHeaderTimeout ==
  /\ pc = "accept" /\ conf.proxy_protocol /\ trusted
  /\ Ends("header_timeout")
  /\ UNCHANGED <<client, wire, got, peer, hello, initial, pending, target, relay, backend>>

ReadFirstByte ==
  /\ pc = "first"
  /\ \/ ~conf.first_byte /\ Go("head") /\ UNCHANGED got
     \/ conf.first_byte /\ Arrived(1) /\ got' = 1 /\ Go("head")
     \/ conf.first_byte /\ Gone(1) /\ Ends("closed") /\ UNCHANGED got
  /\ UNCHANGED <<client, wire, peer, hello, initial, pending, target, relay, backend>>

FirstByteTimeout ==
  /\ pc = "first" /\ conf.first_byte
  /\ Ends("idle")
  /\ UNCHANGED <<client, wire, got, peer, hello, initial, pending, target, relay, backend>>

-----------------------------------------------------------------------------
(***************************************************************************)
(* The handshake, under one timeout.                                       *)
(***************************************************************************)
kept == <<client, wire, peer, target, relay, backend>>

\* masking_outcome, after the delay that rejections have in common.
Masks(data, rest, delayed) ==
  /\ initial' = data /\ pending' = rest
  /\ Go(IF delayed THEN "reject" ELSE "prefetch")

ReadHeader ==
  /\ pc = "head"
  /\ \/ /\ Arrived(2) /\ got' = 2
        /\ CASE first = "tls" -> Go("hello") /\ UNCHANGED <<initial, pending>>
             [] first = "tls_len" -> Masks(Initial(2), <<>>, TRUE)
             [] first \in {"http", "other"} /\ conf.direct -> Go("rest") /\ UNCHANGED <<initial, pending>>
             [] OTHER -> Masks(Initial(2), <<>>, TRUE)
     \/ Gone(2) /\ Ends("failed") /\ UNCHANGED <<got, initial, pending>>
  /\ UNCHANGED <<kept, hello>>

\* read_with_progress; a truncated hello is masked with what came of it.
ReadHello ==
  /\ pc = "hello"
  /\ \/ /\ Arrived(got + 1) /\ got' = got + 1
        /\ Go(IF got + 1 = Body THEN "tls" ELSE "hello")
        /\ UNCHANGED <<initial, pending>>
     \/ /\ Gone(got + 1) /\ UNCHANGED got
        /\ Masks(Initial(IF end = "error" THEN 2 ELSE got), <<>>, TRUE)
  /\ UNCHANGED <<kept, hello>>

TlsHandshake ==
  /\ pc = "tls"
  /\ \/ Go("inner") /\ hello' = TRUE /\ UNCHANGED <<initial, pending>>
     \/ Masks(Initial(Body), <<>>, FALSE) /\ UNCHANGED hello
     \/ Ends("failed") /\ UNCHANGED <<hello, initial, pending>>
  /\ UNCHANGED <<kept, got>>

\* The record with the inner handshake may carry more.
ReadInner ==
  /\ pc = "inner"
  /\ \/ \E n \in Inner..MaxUnits : Arrived(n) /\ got' = n /\ Go("mtproto")
     \/ Gone(Inner) /\ Ends("failed") /\ UNCHANGED got
  /\ UNCHANGED <<kept, hello, initial, pending>>

\* Refused after the ServerHello: plaintext read beyond the handshake is wrapped again.
InnerHandshake ==
  /\ pc = "mtproto"
  /\ \/ Go("relay") /\ UNCHANGED <<initial, pending>>
     \/ Masks(<<>>, [i \in 1..(got - Inner) |-> Inner + i], FALSE)
  /\ UNCHANGED <<kept, got, hello>>

ReadDirect ==
  /\ pc = "rest"
  /\ \/ Arrived(Rest) /\ got' = Rest /\ Go("direct")
     \/ Gone(Rest) /\ Ends("failed") /\ UNCHANGED got
  /\ UNCHANGED <<kept, hello, initial, pending>>

DirectHandshake ==
  /\ pc = "direct"
  /\ \/ Go("relay") /\ UNCHANGED <<initial, pending>>
     \/ Masks(Initial(Rest), <<>>, FALSE)
  /\ UNCHANGED <<kept, got, hello>>

\* maybe_apply_mask_reject_delay.
RejectDelay ==
  /\ pc = "reject" /\ Go("prefetch")
  /\ UNCHANGED <<kept, got, hello, initial, pending>>

HandshakeSteps == {"head", "hello", "tls", "inner", "mtproto", "rest", "direct", "reject"}

TimeoutOfHeader ==
  /\ pc = "head"
  /\ Ends("timeout")
  /\ UNCHANGED <<kept, got, hello, initial, pending>>

HandshakeTimeout ==
  /\ pc \in HandshakeSteps
  /\ Ends("timeout")
  /\ UNCHANGED <<kept, got, hello, initial, pending>>

\* The two copies.
TcpHandshake ==
  transport = "tcp" /\ (ReadHeader \/ ReadHello \/ TlsHandshake \/ ReadInner \/ InnerHandshake
                        \/ ReadDirect \/ DirectHandshake)
StreamFront == transport = "stream" /\ (ReadProxyHeader \/ ReadFirstByte)
StreamTls == transport = "stream" /\ (ReadHeader \/ ReadHello \/ TlsHandshake)
StreamInner == transport = "stream" /\ (ReadInner \/ InnerHandshake)
StreamDirect == transport = "stream" /\ (ReadDirect \/ DirectHandshake)

-----------------------------------------------------------------------------
(***************************************************************************)
(* The fallback: what a refused client gets (masking.rs).                  *)
(***************************************************************************)
fixed == <<client, wire, peer, hello, pending, backend>>

\* extend_masking_initial_window: a short text probe may get one more read.
Prefetch ==
  /\ pc = "prefetch" /\ Go("bad")
  /\ \/ UNCHANGED <<got, initial>>
     \/ /\ first = "http" /\ Len(initial) = 2 /\ Arrived(got + 1) /\ got < MaxUnits
        /\ got' = got + 1 /\ initial' = Append(initial, got + 1)
  /\ UNCHANGED <<fixed, target, relay>>

\* The name is read from a whole hello only.
SniSeen == first = "tls" /\ Len(initial) = Body
ExclusiveTarget == IF SniSeen /\ sni \in DOMAIN Exclusive THEN Exclusive[sni] ELSE "none"
DefaultTarget ==
  CASE MaskHost # "none" -> MaskHost
    [] MaskHost = "none" /\ MaskDynamic /\ SniSeen /\ sni \in Domains -> sni
    [] OTHER -> TlsDomain
MaskTarget == IF ExclusiveTarget # "none" THEN ExclusiveTarget ELSE DefaultTarget

\* handle_bad_client: consume, drain without a permit, a Unix socket, or a host.
HandleBadClient ==
  /\ pc = "bad" /\ UNCHANGED <<got, initial, relay>>
  /\ \/ ~conf.mask /\ Go("consume") /\ UNCHANGED target
     \/ conf.mask /\ Go("drain") /\ UNCHANGED target
     \/ conf.mask /\ conf.unix /\ ExclusiveTarget = "none" /\ Go("connect") /\ target' = "socket"
     \/ conf.mask /\ ~(conf.unix /\ ExclusiveTarget = "none") /\ Go("resolve") /\ target' = MaskTarget
  /\ UNCHANGED fixed

ResolveTarget ==
  /\ pc = "resolve" /\ (Go("self") \/ Go("drain"))
  /\ UNCHANGED <<fixed, got, initial, target, relay>>

\* is_mask_target_local_listener: a connection to ourselves would loop.
RefuseSelf ==
  /\ pc = "self" /\ Go(IF target \in SelfHosts THEN "drain" ELSE "connect")
  /\ UNCHANGED <<fixed, got, initial, target, relay>>

ConnectHost ==
  /\ pc = "connect" /\ target # "socket" /\ (Go("header") \/ Go("drain"))
  /\ UNCHANGED <<fixed, got, initial, target, relay>>

ConnectSocket ==
  /\ pc = "connect" /\ target = "socket" /\ (Go("header") \/ Go("drain"))
  /\ UNCHANGED <<fixed, got, initial, target, relay>>

WriteMaskHeader ==
  /\ pc = "header" /\ (Go("initial") \/ (MaskProxyProtocol /\ Go("settle")))
  /\ UNCHANGED <<fixed, got, initial, target, relay>>

WriteInitial ==
  /\ pc = "initial"
  /\ \/ Go("copy") /\ toMask' = initial /\ up' = "run" /\ down' = "run"
     \/ Go("settle") /\ UNCHANGED <<toMask, up, down>>
  /\ UNCHANGED <<fixed, got, initial, target, total, toClient>>

\* copy_with_idle_timeout, client to mask host: wrapped plaintext comes first.
CapReached(n) == RelayCap # 0 /\ n >= RelayCap
CopyUp ==
  /\ pc = "copy" /\ up = "run" /\ ~CapReached(total)
  /\ total' = total + 1
  /\ \E unit \in 1..MaxUnits :
       /\ \/ pending # <<>> /\ unit = Head(pending) /\ pending' = Tail(pending) /\ UNCHANGED got
          \/ pending = <<>> /\ unit = got + 1 /\ Arrived(unit) /\ got' = unit /\ UNCHANGED pending
       /\ \/ toMask' = Append(toMask, unit) /\ UNCHANGED up
          \/ up' = "failed" /\ UNCHANGED toMask
  /\ UNCHANGED <<client, wire, pc, outcome, peer, hello, initial, target, down, toClient, backend>>

CopyUpStops ==
  /\ pc = "copy" /\ up = "run"
  /\ \/ up' = "failed"
     \/ ~CapReached(total) /\ end = "eof" /\ pending = <<>> /\ sent = got /\ up' = "eof"
  /\ UNCHANGED <<fixed, got, pc, outcome, initial, target, toMask, total, down, toClient>>

CopyDown ==
  /\ pc = "copy" /\ down = "run" /\ ~CapReached(toClient)
  /\ toClient < answers /\ toClient' = toClient + 1
  /\ down' \in {"run", "failed"}
  /\ UNCHANGED <<fixed, got, pc, outcome, initial, target, toMask, total, up>>

\* At the end of the answers, at the cap, on an error or when idle.
CopyDownStops ==
  /\ pc = "copy" /\ down = "run"
  /\ \/ ~maskOpen /\ toClient = answers /\ down' = "eof"
     \/ down' = "failed"
  /\ UNCHANGED <<fixed, got, pc, outcome, initial, target, toMask, total, up, toClient>>

doubled[n \in 0..BucketCap] == IF n = 0 THEN BucketFloor ELSE 2 * doubled[n - 1]
next_mask_shape_bucket(n) ==
  IF n = 0 \/ BucketFloor = 0 \/ BucketCap < BucketFloor \/ n >= BucketCap THEN n
  ELSE LET k == CHOOSE k \in 0..BucketCap : doubled[k] >= n /\ \A j \in 0..(k - 1) : doubled[j] < n
       IN IF k > 0 /\ doubled[k] > BucketCap THEN BucketCap ELSE doubled[k]

ShapeTargets(n) ==
  IF n >= BucketCap /\ BlurMax > 0 THEN {n + e : e \in (IF Aggressive THEN 1 ELSE 0)..BlurMax}
  ELSE {next_mask_shape_bucket(n)}

ShouldShape == ShapeHardening /\ initial # <<>> /\ (up = "eof" \/ (Aggressive /\ toClient = 0))

\* Both copies are over: padding (a write of it may fail), then the shutdowns.
FinishRelay ==
  /\ pc = "copy" /\ up # "run" /\ down # "run" /\ Go("settle")
  /\ \/ UNCHANGED toMask
     \/ /\ ShouldShape
        /\ \E t \in ShapeTargets(Len(initial) + total) :
             \E pads \in 0..(t - Len(initial) - total) : toMask' = toMask \o [i \in 1..pads |-> 0]
  /\ UNCHANGED <<fixed, got, initial, target, total, up, down, toClient>>

RelayTimeout ==
  /\ pc \in {"initial", "copy"} /\ Go("settle")
  /\ UNCHANGED <<fixed, got, initial, target, relay>>

\* consume_client_data, whole or up to mask_failure_drain_cap.
ConsumeCap == IF pc = "drain" THEN DrainCap ELSE RelayCap
Consume ==
  /\ pc \in {"drain", "consume"} /\ (ConsumeCap = 0 \/ total < ConsumeCap)
  /\ Arrived(got + 1) /\ got' = got + 1 /\ total' = total + 1
  /\ UNCHANGED <<fixed, pc, outcome, initial, target, toMask, up, down, toClient>>

\* At the cap, at the end of the stream, when idle or when the relay time is over.
ConsumeEnds ==
  /\ pc \in {"drain", "consume"}
  /\ Go("settle")
  /\ UNCHANGED <<fixed, got, initial, target, relay>>

\* wait_mask_outcome_budget, then the permit and the connection are dropped.
Settle ==
  /\ pc = "settle" /\ Ends("masked")
  /\ UNCHANGED <<fixed, got, initial, target, relay>>

-----------------------------------------------------------------------------
\* The client and the mask host.
ClientSends ==
  /\ end = "open" /\ sent < MaxUnits /\ pc # "end" /\ sent' = sent + 1
  /\ UNCHANGED <<client, end, got, pc, outcome, peer, hello, initial, pending, target, relay, backend>>

ClientCloses ==
  /\ end = "open" /\ pc # "end" /\ end' \in {"eof", "error"}
  /\ UNCHANGED <<client, sent, got, pc, outcome, peer, hello, initial, pending, target, relay, backend>>

MaskHostActs ==
  /\ pc = "copy" /\ maskOpen
  /\ \/ answers < MaxAnswers /\ answers' = answers + 1 /\ UNCHANGED maskOpen
     \/ maskOpen' = FALSE /\ UNCHANGED answers
  /\ UNCHANGED <<client, wire, got, pc, outcome, peer, hello, initial, pending, target, relay>>

HandshakeStep ==
  (transport = "tcp" /\ (ReadProxyHeader \/ ReadFirstByte)) \/ TcpHandshake
  \/ StreamFront \/ StreamTls \/ StreamInner \/ StreamDirect \/ RejectDelay
MaskStep ==
  Prefetch \/ HandleBadClient \/ ResolveTarget \/ RefuseSelf \/ ConnectHost \/ ConnectSocket \/ WriteMaskHeader
  \/ WriteInitial \/ CopyUp \/ CopyUpStops \/ CopyDown \/ CopyDownStops \/ FinishRelay \/ Consume \/ Settle
Timer == ProxyHeaderTimeout \/ FirstByteTimeout \/ HandshakeTimeout \/ RelayTimeout \/ ConsumeEnds

Next == HandshakeStep \/ MaskStep \/ Timer \/ ClientSends \/ ClientCloses \/ MaskHostActs

Fairness == WF_vars(HandshakeStep) /\ WF_vars(MaskStep) /\ WF_vars(Timer)

Spec == Init /\ [][Next]_vars /\ Fairness

-----------------------------------------------------------------------------
Genuine == SelectSeq(toMask, LAMBDA u : u # 0)

\* The mask host sees what the client sent and nothing else: from the first
\* byte when the proxy has not answered, from the first byte behind the
\* handshake when it has; in order, without gaps, padding only behind it.
\* This holds over every way the reads of client.rs can be cut short.
MaskSeesClientStream ==
  LET from == IF hello THEN Inner ELSE 0 IN
    /\ \A i \in DOMAIN Genuine : Genuine[i] = from + i
    /\ \A i \in DOMAIN toMask : toMask[i] = 0 => i > Len(Genuine)

\* Every connection ends or is handed to the relay, whatever the client and
\* the mask host do or do not do: each wait of the front has a timer.
ConnectionEnds == <>(pc \in {"relay", "end"})
=============================================================================
