------------------------------ MODULE HelloShape ------------------------------
(***************************************************************************)
(* What the proxy reads from a ClientHello and writes in its ServerHello:  *)
(* the parsers and builders of src/src/protocol/tls.rs, the captured       *)
(* profile of src/src/tls_front/types.rs and fetcher.rs, and the emulation *)
(* of src/src/tls_front/emulator.rs, used by handle_tls_handshake_impl.    *)
(* Messages are parsed field lists: a field that does not fit its parent   *)
(* has fits = FALSE.  Sizes are scaled: MinApp, MaxApp and Overhead stand  *)
(* for 64, 16640 and 17 bytes.                                             *)
(***************************************************************************)
EXTENDS Integers, Sequences, FiniteSets, SequencesExt, FiniteSetsExt

CONSTANTS
  Hellos,      \* [record, handshake, legacy12, suites, exts: seq of [t, fits, list, exact]]
  Origins,     \* the flight of the cover origin, [records, template]
  MinApp, MaxApp, Overhead,
  FakeCertLen, TicketMax, Jitter,
  CertLens,    \* lengths of the certificate message; 0 is none
  InfoLens,    \* lengths of the compact certificate description; 0 is none
  AlpnEnforce

VARIABLES pc, hello, origin, cached, reply

vars == <<pc, hello, origin, cached, reply>>

None == "none"
Tls13Suites == {"aes128", "aes256", "chacha"}
Groups == {"x25519", "mlkem"}

\* The built-in entry of TlsFrontCache::new.
BuiltIn == [template |-> [version |-> "tls12", compression |-> 0, suite |-> "aes128", exts |-> <<>>],
            source |-> "default", apps |-> <<>>, tickets |-> <<>>, total |-> FakeCertLen, sizes |-> <<FakeCertLen>>,
            quality |-> "fallback", cert |-> 0, info |-> 0]
NoReply == [suite |-> None, exts |-> <<>>, sizes |-> <<>>, tickets |-> <<>>, payload |-> 0, carried |-> 0]

Init ==
  /\ pc = "fetch" /\ hello \in Hellos /\ origin \in Origins
  /\ cached = BuiltIn /\ reply = NoReply

-----------------------------------------------------------------------------
\* The extensions before the first one that overruns the list.
Fitting(s) == SelectSeq([i \in 1..Len(s) |-> [e |-> s[i], ok |-> \A j \in 1..i : s[j].fits]], LAMBDA x : x.ok)
Before(h) == [i \in 1..Len(Fitting(h.exts)) |-> Fitting(h.exts)[i].e]
Overruns(h) == \E i \in 1..Len(h.exts) : ~h.exts[i].fits
OfType(s, t) == SelectSeq(s, LAMBDA e : e.t = t)

\* A record cut short, or a handshake message longer than its record.
client_hello_cipher_suites_range(h) == h.record /\ h.handshake /\ h.suites # {}
client_hello_extensions_range(h) == client_hello_cipher_suites_range(h)

is_valid_sni_hostname(name) == name = "host"

\* The first usable name of the only server_name extension.
extract_sni_from_client_hello(h) ==
  LET found == OfType(Before(h), "sni") IN
    IF ~h.record \/ Len(found) # 1 THEN None
    ELSE IF \E i \in 1..Len(found[1].list) : is_valid_sni_hostname(found[1].list[i]) THEN "host" ELSE None

\* The list of the first non-empty ALPN extension.
extract_alpn_from_client_hello(h) ==
  LET found == SelectSeq(OfType(Before(h), "alpn"), LAMBDA e : e.list # <<>>) IN
    IF ~h.record \/ found = <<>> THEN <<>> ELSE found[1].list

\* An extension that overruns the list leaves the version unknown, unless the
\* versions came first.
detect_client_hello_tls_version(h) ==
  LET found == OfType(Before(h), "versions") IN
    IF ~h.record \/ ~h.handshake THEN None
    ELSE IF found # <<>> THEN
      IF found[1].list = <<>> THEN None
      ELSE IF "13" \in ToSet(found[1].list) THEN "13"
      ELSE IF "12" \in ToSet(found[1].list) THEN "12" ELSE None
    ELSE IF Overruns(h) THEN None
    ELSE IF h.legacy12 THEN "12" ELSE None

\* Exactly one share of the group, of the right length, in a list that adds up.
key_share_extension_group_entry(e, g) ==
  LET mine == SelectSeq(e.list, LAMBDA s : s.group = g) IN
    e.exact /\ Len(mine) = 1 /\ mine[1].right

client_hello_key_share_group_entry(h, g) ==
  /\ client_hello_extensions_range(h)
  /\ LET found == OfType(Before(h), "share") IN found # <<>> /\ key_share_extension_group_entry(found[1], g)

server_hello_key_share_candidate_order(preferred) ==
  IF preferred = "x25519" THEN <<"x25519", "mlkem">> ELSE <<"mlkem", "x25519">>

\* The group of the cover origin, whether the client has a share of it or not.
PreferredRegardless(h, preferred) == server_hello_key_share_candidate_order(preferred)[1]

build_server_hello_key_share(h, preferred) ==
  LET order == SelectSeq(server_hello_key_share_candidate_order(preferred),
                         LAMBDA g : client_hello_key_share_group_entry(h, g)) IN
    IF order = <<>> THEN None ELSE Head(order)

select_server_hello_cipher_suite(h, preferred) ==
  LET first == IF preferred \in Tls13Suites THEN preferred ELSE "aes128"
      order == SelectSeq(<<first, "aes128", "chacha", "aes256">>, LAMBDA s : s \in h.suites) IN
    IF ~client_hello_cipher_suites_range(h) \/ order = <<>> THEN None ELSE Head(order)

-----------------------------------------------------------------------------
\* Up to two small records at the end of the flight look like tickets.
derive_behavior_profile(records) ==
  LET apps == SelectSeq(records, LAMBDA n : n > 0)
      small(k) == k <= Len(apps) /\ k <= 2 /\ \A i \in (Len(apps) - k + 1)..Len(apps) : apps[i] <= TicketMax
      n == Max({k \in 0..2 : small(k)}) IN
    [apps |-> SubSeq(apps, 1, Len(apps) - n), tickets |-> SubSeq(apps, Len(apps) - n + 1, Len(apps))]

parse_key_share_group(e) == IF e.form \in Groups THEN e.form ELSE None

is_replay_safe_tls13_shape(t) ==
  LET versions == OfType(t.exts, "versions")
      shares == OfType(t.exts, "share") IN
    /\ t.version = "tls12" /\ t.compression = 0 /\ t.suite \in Tls13Suites
    /\ Len(versions) = 1 /\ versions[1].form = "13"
    /\ Len(shares) = 1 /\ parse_key_share_group(shares[1]) # None
    /\ OfType(t.exts, "alpn") = <<>>

should_replay_profiled_server_hello_shape(c) ==
  c.source \in {"raw", "merged"} /\ is_replay_safe_tls13_shape(c.template)

refresh_server_hello_summary(c) ==
  [c EXCEPT !.quality = IF ~should_replay_profiled_server_hello_shape(c) THEN "fallback"
                        ELSE IF c.apps # <<>> THEN "strict" ELSE "partial"]

profiled_server_hello_key_share_group(c) ==
  IF should_replay_profiled_server_hello_shape(c) THEN parse_key_share_group(OfType(c.template.exts, "share")[1]) ELSE None

\* fetch_via_raw_tls_stream, joined with the certificate when rustls gave one.
Capture(merged, cert, info) ==
  LET b == derive_behavior_profile(origin.records)
      sizes == b.apps \o b.tickets
      total == Max({FoldSeq(LAMBDA x, y : x + y, 0, sizes), FakeCertLen}) IN
    refresh_server_hello_summary(
      [template |-> origin.template, source |-> IF merged THEN "merged" ELSE "raw", apps |-> b.apps, tickets |-> b.tickets,
       total |-> total, sizes |-> IF sizes = <<>> THEN <<total>> ELSE sizes,
       quality |-> "fallback", cert |-> IF merged THEN cert ELSE 0, info |-> IF merged THEN info ELSE 0])

\* The certificate alone: no shape was seen.
fetch_via_rustls_stream(cert, info) ==
  LET n == Max({cert, FakeCertLen})
      sizes == IF n > 2 * FakeCertLen THEN <<n \div 2, n - (n \div 2)>> ELSE <<n>> IN
    [BuiltIn EXCEPT !.source = "rustls", !.sizes = sizes, !.apps = sizes, !.total = n, !.cert = cert, !.info = info]

Fetch ==
  /\ pc = "fetch" /\ pc' = "answer"
  /\ \/ UNCHANGED cached
     \/ \E merged \in BOOLEAN, cert \in CertLens, info \in InfoLens :
          \/ cached' = Capture(merged, cert, info)
          \/ cached' = fetch_via_rustls_stream(cert, info)
  /\ UNCHANGED <<hello, origin, reply>>

\* The entry is written to a file and read back, with its summary refreshed.
Reload ==
  /\ pc = "answer" /\ cached' = refresh_server_hello_summary(cached)
  /\ UNCHANGED <<pc, hello, origin, reply>>

-----------------------------------------------------------------------------
Clamp(n) == Max({MinApp, Min({n, MaxApp})})
Room(sizes) == FoldSeq(LAMBDA n, sum : sum + Max({n - Overhead, 0}), 0, sizes)

fallback_total_app_data_len(c) == Max({c.total, FoldSeq(LAMBDA x, y : x + y, 0, c.sizes), FakeCertLen})
fallback_family_app_data_sizes(c) ==
  <<Clamp(IF c.source = "rustls" /\ c.sizes # <<>> THEN Head(c.sizes) ELSE fallback_total_app_data_len(c))>>

emulated_app_data_sizes(c) ==
  IF c.source \in {"raw", "merged"}
  THEN <<Clamp(IF c.apps # <<>> THEN Head(c.apps) ELSE IF c.sizes # <<>> THEN Head(c.sizes) ELSE c.total)>>
  ELSE fallback_family_app_data_sizes(c)

\* A profile that was not captured is jittered.
jitter_and_clamp_sizes(c) ==
  LET n == Head(emulated_app_data_sizes(c)) IN
    IF c.source \in {"raw", "merged"} THEN {<<n>>} ELSE {<<Clamp(n + d)>> : d \in (-Jitter)..Jitter}

\* The last record grows, then records are added, until the payload fits.
ensure_payload_capacity(sizes, payload) ==
  LET grow == Min({MaxApp - Last(sizes), payload - Room(sizes)})
      grown == [sizes EXCEPT ![Len(sizes)] = @ + grow]
      more[left \in 0..payload] ==
        IF left = 0 THEN <<>>
        ELSE LET chunk == Clamp(left + Overhead) IN <<chunk>> \o more[Max({0, left - (chunk - Overhead)})] IN
    IF payload = 0 \/ Room(sizes) >= payload THEN sizes ELSE grown \o more[Max({0, payload - Room(grown)})]

\* A TLS 1.3 client would see its certificate encrypted: nothing is shown to it.
SelectedPayload(c, version, full, compact) ==
  IF version = "13" THEN 0
  ELSE IF ~compact THEN c.cert
  ELSE IF full /\ c.cert > 0 THEN c.cert ELSE c.info

emulated_ticket_record_sizes(c, n) ==
  LET seen == IF c.source \in {"raw", "merged"} THEN c.tickets ELSE <<>> IN
    SubSeq(seen, 1, Min({n, Len(seen)})) \o [i \in 1..Max({0, n - Len(seen)}) |-> TicketMax]

replay_profiled_server_hello_extension(e, group) == IF e.t = "share" THEN <<"share", group>> ELSE <<"versions", "13">>

build_profiled_server_hello_extensions(c, group) ==
  LET kept == SelectSeq(c.template.exts, LAMBDA e : e.t \in {"versions", "share"})
      replayed == IF should_replay_profiled_server_hello_shape(c)
                  THEN [i \in 1..Len(kept) |-> replay_profiled_server_hello_extension(kept[i], group)] ELSE <<>>
      saw(t) == \E i \in 1..Len(replayed) : replayed[i][1] = t IN
    replayed \o (IF saw("versions") THEN <<>> ELSE <<<<"versions", "13">>>>)
             \o (IF saw("share") THEN <<>> ELSE <<<<"share", group>>>>)

build_emulated_server_hello(c, suite, group, version, full, compact, n, base) ==
  LET payload == SelectedPayload(c, version, full, compact)
      sizes == ensure_payload_capacity(base, payload) IN
    [suite |-> suite, exts |-> build_profiled_server_hello_extensions(c, group), sizes |-> sizes,
     tickets |-> emulated_ticket_record_sizes(c, n), payload |-> payload, carried |-> Min({payload, Room(sizes)})]

\* Without a cache: the key share first, one record of random bytes.
build_server_hello_with_cipher(suite, group, n) ==
  [suite |-> suite, exts |-> <<<<"share", group>>, <<"versions", "13">>>>, sizes |-> <<Clamp(FakeCertLen)>>,
   tickets |-> [i \in 1..n |-> TicketMax], payload |-> 0, carried |-> 0]

\* A list with no protocol the proxy could have chosen.
AlpnRefused(h) ==
  LET list == extract_alpn_from_client_hello(h) IN
    AlpnEnforce /\ list # <<>> /\ ToSet(list) \cap {"h2", "http"} = {}

\* The entry of the named domain; the primary domain, here not fetched yet, otherwise.
EntryFor(h) == IF extract_sni_from_client_hello(h) = "host" THEN cached ELSE BuiltIn

VersionOrTls13(h) == IF detect_client_hello_tls_version(h) = None THEN "13" ELSE detect_client_hello_tls_version(h)

\* The reply of handle_tls_handshake_impl; a hello with nothing to agree on goes to the mask.
Answer ==
  /\ pc = "answer"
  /\ LET entry == EntryFor(hello)
         group == build_server_hello_key_share(hello, profiled_server_hello_key_share_group(entry))
         suite == select_server_hello_cipher_suite(hello, entry.template.suite) IN
       IF AlpnRefused(hello) \/ group = None \/ suite = None THEN pc' = "masked" /\ UNCHANGED reply
       ELSE /\ pc' = "sent"
            /\ \E n \in 0..2 :
                 \/ \E full, compact \in BOOLEAN, base \in jitter_and_clamp_sizes(entry) :
                      reply' = build_emulated_server_hello(entry, suite, group, VersionOrTls13(hello), full, compact, n, base)
                 \/ reply' = build_server_hello_with_cipher(suite, group, n)
  /\ UNCHANGED <<hello, origin, cached>>

Next == Fetch \/ Reload \/ Answer

Spec == Init /\ [][Next]_vars

-----------------------------------------------------------------------------
\* emulator.rs:346, tls.rs:669 and :1346: whatever was captured from the cover origin, a reply
\* agrees with what this client offered - a suite of its list, and one key share of a group it
\* sent a well-formed share of - and shows exactly one supported_versions.
ReplyIsNegotiated ==
  pc = "sent" =>
    /\ reply.suite \in hello.suites \cap Tls13Suites
    /\ Len(reply.exts) = 2
    /\ \E i \in 1..2 : reply.exts[3 - i][1] = "versions" /\ reply.exts[i][1] = "share"
                       /\ client_hello_key_share_group_entry(hello, reply.exts[i][2])

\* emulator.rs:102: the records carry the whole payload and none is outside the limits.
PayloadIsCarried ==
  reply.carried = reply.payload /\ \A i \in 1..Len(reply.sizes) : reply.sizes[i] \in MinApp..MaxApp

\* tls_handshake.rs:157: "Fail-closed to TLS 1.3 semantics when ClientHello version is
\* ambiguous": certificate bytes go only to a hello that parses to its end, or names its
\* versions before it stops parsing, and does not offer TLS 1.3.
CertificateOnlyForTls12 ==
  (pc = "sent" /\ reply.payload > 0) =>
    LET found == OfType(Before(hello), "versions") IN
      /\ hello.handshake
      /\ IF found = <<>> THEN ~Overruns(hello) /\ hello.legacy12
         ELSE "12" \in ToSet(found[1].list) /\ "13" \notin ToSet(found[1].list)
=============================================================================
