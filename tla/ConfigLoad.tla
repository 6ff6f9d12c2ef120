------------------------------ MODULE ConfigLoad ------------------------------
(***************************************************************************)
(* From the text of the configuration to the configuration in force.  A    *)
(* load decodes the text, moves legacy keys to their successors, runs four *)
(* validators and then a series of normalisations that read and write each *)
(* other's fields; a watcher lays only the hot fields of a load over what  *)
(* is in force, a rebuilt generation takes a load whole, and the control   *)
(* API classifies a patch by comparing two loads.  Load(raw) is the SET of *)
(* results of one text: the length of the fake certificate is drawn anew   *)
(* on every load and maps are walked in no fixed order.                    *)
(***************************************************************************)
EXTENDS Integers, FiniteSets, Functions

CONSTANTS Raws,        \* texts an operator may write
          Start,       \* the text at start, which loads
          CertLens,    \* lengths a load may draw for the fake certificate
          Unit,        \* bytes of one permit of the writer's budget
          Reserve,     \* bytes kept for the framing of a client frame
          Fallback,    \* force-close seconds when none are configured
          MaxEdits     \* texts written after the first

VARIABLES raw,         \* the text on disk
          config,      \* the configuration in force
          patch,       \* the API's verdict on the last patch: {} or {[old, new, restart]}
          edits

vars == <<raw, config, patch, edits>>

Unset == -1

DefaultLen == 0

Override(explicit, fallback) == IF explicit # Unset THEN explicit ELSE fallback

(* Unknown keys are refused only in strict mode.                           *)
handle_unknown_config_keys(r) == r.unknown => ~r.strict

(* update_every is dropped only for a text that has a legacy interval and  *)
(* not the new one; 300 is its default.                                    *)
update_every(r) ==
  Override(r.update_every, IF r.reload_secs # Unset THEN Unset ELSE 300)

(* [general] wins over the deprecated top-level key.                       *)
beobachten_minutes(r) == Override(r.minutes, Override(r.top_minutes, 10))

stun_servers(r) == IF r.stun # {"unset"} THEN r.stun \ {""} ELSE ({"default"} \cup r.nat_stun) \ {""}

decode_source_graph(r) ==
  [r EXCEPT !.update_every = update_every(r), !.minutes = beobachten_minutes(r),
            !.stun = stun_servers(r), !.reload_secs = Override(@, 3600),
            !.nat_stun = {}, !.top_minutes = Unset, !.unknown = FALSE]

-----------------------------------------------------------------------------
(* The range checks of single fields are one flag per validator.           *)
validate_core(c) ==
  /\ c.core_ranges
  /\ IF c.update_every = Unset THEN c.reload_secs > 0 ELSE c.update_every > 0
  /\ c.hello_delay < c.handshake
  /\ c.idle_soft <= c.idle_hard

minimum_me_writer_byte_budget_bytes(frame) ==
  ((2 * frame + Reserve + Unit - 1) \div Unit) * Unit

validate_runtime(c) ==
  /\ c.runtime_ranges
  /\ c.byte_budget % Unit = 0
  /\ c.byte_budget >= minimum_me_writer_byte_budget_bytes(c.max_frame)

validate_me(c) == c.me_ranges /\ c.minutes > 0

effective_me_pool_force_close_secs(c) ==
  IF c.drain_timeout = 0 THEN Fallback ELSE c.drain_timeout

BumpForceClose(c) ==
  IF effective_me_pool_force_close_secs(c) < c.drain_ttl
  THEN [c EXCEPT !.drain_timeout = c.drain_ttl] ELSE c

Lower == [n \in {"a", "A", "b", "B"} |-> IF n = "A" THEN "a" ELSE IF n = "B" THEN "b" ELSE n]

is_valid_tls_domain_name(n) == n \in DOMAIN Lower

normalize_domain_to_ascii(n) == Lower[n]

effective_client_mss(c, l) == IF l.mss # Unset THEN l.mss ELSE c.mss

validate_server(c) ==
  /\ c.server_ranges
  /\ is_valid_tls_domain_name(c.tls_domain)
  /\ \A n \in DOMAIN c.exclusive : is_valid_tls_domain_name(n)

-----------------------------------------------------------------------------
Merged(f) == {normalize_domain_to_ascii(n) : n \in DOMAIN f}

(* One entry per normalised name; which of two clashing entries stays      *)
(* depends on the order the map is walked in.                              *)
Merges(f) ==
  {g \in [Merged(f) -> Range(f)] :
     \A d \in Merged(f) : \E n \in DOMAIN f : normalize_domain_to_ascii(n) = d /\ f[n] = g[d]}

tls_fingerprints(c) ==
  IF /\ \A n \in DOMAIN c.fingerprints : is_valid_tls_domain_name(n)
     /\ Cardinality(Merges(c.fingerprints)) = 1
  THEN Merges(c.fingerprints) ELSE {}

(* The fingerprinted domains join the listed ones, without the primary.    *)
tls_domains(c, fingerprints) ==
  ({normalize_domain_to_ascii(n) : n \in c.tls_domains} \cup DOMAIN fingerprints)
    \ {normalize_domain_to_ascii(c.tls_domain)}

fake_cert_len(c) ==
  IF ~c.emulation /\ c.cert_len = DefaultLen THEN CertLens ELSE {c.cert_len}

PreferIpv6(c) == [c EXCEPT !.prefer = IF c.prefer_ipv6 /\ @ = 4 THEN 6 ELSE @]

AutoEnableSnapshot(c) == [c EXCEPT !.secret_snapshot = @ \/ c.middle_proxy]

validate_network_cfg(c) == ~(~c.ipv4 /\ c.ipv6 = "off") /\ c.prefer \in {4, 6}

(* ipv4 first, then ipv6: the second correction sees the first.            *)
ForcePrefer(c) ==
  LET six == IF ~c.ipv4 /\ c.prefer = 4 THEN 6 ELSE c.prefer
  IN  [c EXCEPT !.prefer = IF c.ipv6 = "off" /\ six = 6 THEN 4 ELSE six]

listen_tcp(c) ==
  IF c.listen_tcp # "auto" THEN c.listen_tcp = "on"
  ELSE c.unix_sock => c.addr4 # "unset" \/ c.listeners # {}

Legacy(c, ip) == [ip |-> ip, port |-> c.port, mss |-> Unset, announce |-> "", announce_ip |-> ""]

PopulateListeners(c) ==
  IF c.listeners = {} /\ listen_tcp(c)
  THEN [c EXCEPT !.listeners =
          {Legacy(c, "v4") : x \in IF c.addr4 = "bad" THEN {} ELSE {1}}
            \cup {Legacy(c, "v6") : x \in IF c.addr6 = "ok" THEN {1} ELSE {}}]
  ELSE c

MigrateListeners(c) ==
  [c EXCEPT !.listeners =
     {[l EXCEPT !.port = Override(l.port, c.port),
                !.announce = IF l.announce = "" THEN l.announce_ip ELSE @,
                !.announce_ip = IF l.announce = "" THEN "" ELSE @] : l \in c.listeners}]

(* An explicit empty MSS (0) takes a listener out; a bulk MSS needs at     *)
(* least one that takes part and must exceed all of theirs.                *)
Participants(c) == {l \in c.listeners : effective_client_mss(c, l) > 0}

validate_listener_runtime_profiles(c) ==
  c.bulk > 0 => /\ Participants(c) # {}
                /\ \A l \in Participants(c) : c.bulk > effective_client_mss(c, l)

Direct == [ss |-> FALSE, enabled |-> TRUE, ipv4 |-> "auto", ipv6 |-> "auto", prefer |-> Unset]

PopulateUpstreams(c) == IF c.upstreams = {} THEN [c EXCEPT !.upstreams = {Direct}] ELSE c

normalize_upstream_family_policy(c) ==
  LET six(u) == IF u.ipv4 = "off" /\ u.prefer = 4 THEN 6 ELSE u.prefer
  IN  [c EXCEPT !.upstreams =
         {[u EXCEPT !.prefer = IF u.ipv6 = "off" /\ six(u) = 6 THEN 4 ELSE six(u)]
            : u \in c.upstreams}]

validate_upstreams(c) ==
  /\ c.middle_proxy => ~\E u \in c.upstreams : u.enabled /\ u.ss
  /\ \A u \in c.upstreams : /\ ~(u.ipv4 = "off" /\ u.ipv6 = "off")
                            /\ u.prefer \in {Unset, 4, 6}

validate_logging_config(c) == c.log_to_file => c.log_path

(* A plausible slip: the family check runs before the legacy key is moved. *)
ValidatesFamilyFirst(c) == AutoEnableSnapshot(PreferIpv6(ForcePrefer(c)))

Families(c) == ForcePrefer(AutoEnableSnapshot(PreferIpv6(c)))

(* effective::apply, in the order of the code.                             *)
Effective(c) ==
  LET names == \A n \in c.tls_domains : is_valid_tls_domain_name(n)
      shaped == normalize_upstream_family_policy(PopulateUpstreams(
                  MigrateListeners(PopulateListeners(Families(c)))))
  IN  IF /\ names
         /\ validate_network_cfg(PreferIpv6(c))
         /\ validate_listener_runtime_profiles(shaped)
         /\ validate_logging_config(shaped)
         /\ validate_upstreams(shaped)
      THEN {[shaped EXCEPT !.tls_domain = normalize_domain_to_ascii(@),
                           !.fingerprints = f, !.tls_domains = tls_domains(c, f),
                           !.exclusive = e, !.cert_len = n]
              : f \in tls_fingerprints(c), e \in Merges(c.exclusive), n \in fake_cert_len(c)}
      ELSE {}

load_source_graph(r) ==
  LET c == decode_source_graph(r)
  IN  IF /\ handle_unknown_config_keys(r)
         /\ validate_core(c) /\ validate_runtime(c) /\ validate_me(c) /\ validate_server(c)
      THEN Effective(BumpForceClose(c)) ELSE {}

(* What a load must still pass before it is used.                          *)
validate(c) == c.users # {} /\ c.modes

Load(r) == {c \in load_source_graph(r) : validate(c)}

-----------------------------------------------------------------------------
HotFields == {"users", "secret_snapshot", "drain_ttl", "drain_timeout",
              "update_every", "reload_secs"}

overlay_hot_fields(old, new) ==
  [k \in DOMAIN old |-> IF k \in HotFields THEN new[k] ELSE old[k]]

classify_config_changes(old, new) == overlay_hot_fields(old, new) # new

Init == /\ raw = Start /\ config \in Load(Start)
        /\ patch = {} /\ edits = 0

Edit == /\ edits < MaxEdits /\ edits' = edits + 1
        /\ raw' \in Raws
        /\ UNCHANGED <<config, patch>>

(* The watcher: a load that fails, or fails validation, changes nothing.   *)
HotReload == /\ \E new \in Load(raw) : config' = overlay_hot_fields(config, new)
             /\ UNCHANGED <<raw, patch, edits>>

Rebuild == /\ config' \in Load(raw)
           /\ UNCHANGED <<raw, patch, edits>>

PatchConfig ==
  /\ edits < MaxEdits /\ edits' = edits + 1
  /\ \E r \in Raws : \E old \in Load(raw), new \in Load(r) :
       /\ raw' = r
       /\ patch' = {[old |-> raw, new |-> r, restart |-> classify_config_changes(old, new)]}
  /\ UNCHANGED config

Next == Edit \/ HotReload \/ Rebuild \/ PatchConfig

Spec == Init /\ [][Next]_vars

-----------------------------------------------------------------------------
(* What the consumers of a configuration rely on holds of whatever is in   *)
(* force, a load or hot fields laid over an older load: the preferred      *)
(* family of the network and of each upstream is not switched off, stale   *)
(* writers are not force-closed before their drain ends, every fingerprint *)
(* has a domain that links are made for, each TCP listener has a port, and *)
(* a shadowsocks upstream never meets the middle proxy (effective.rs,      *)
(* validation.rs, validate_server.rs).                                     *)
ConfigInForceConsistent ==
  /\ config.prefer = 4 => config.ipv4
  /\ config.prefer = 6 => config.ipv6 # "off"
  /\ \A u \in config.upstreams : /\ u.prefer = 4 => u.ipv4 # "off"
                                 /\ u.prefer = 6 => u.ipv6 # "off"
                                 /\ u.enabled /\ u.ss => ~config.middle_proxy
  /\ config.upstreams # {}
  /\ effective_me_pool_force_close_secs(config) >= config.drain_ttl
  /\ DOMAIN config.fingerprints \subseteq {config.tls_domain} \cup config.tls_domains
  /\ \A l \in config.listeners : l.port # Unset
  /\ IF config.update_every = Unset THEN config.reload_secs > 0 ELSE config.update_every > 0

=============================================================================
