------------------------------ MODULE Upstreams ------------------------------
(***************************************************************************)
(* The outgoing connections of src/src/transport/upstream.rs: selection by *)
(* scope and health, the retried connect cycle of concurrent sessions, the *)
(* startup ping that learns an IP preference per data centre, and the      *)
(* background health check.  The network is a set of working paths         *)
(* <<upstream, data centre, family>> that changes under them.              *)
(***************************************************************************)
EXTENDS Integers, FiniteSets, Sequences, FiniteSetsExt

CONSTANTS
  Ups,           \* indices of the enabled upstreams
  Conf,          \* [kind, scopes, ipv4, ipv6, prefer, weight, binds, login, asks] of each
  Dcs,
  IPv4, IPv6,    \* the network decision
  Clients,
  Scopes,        \* scopes of requests; "" is none
  Attempts,      \* connect_retry_attempts
  FailFast,      \* connect_failfast_hard_errors
  Threshold,     \* unhealthy_fail_threshold
  MinGroups,     \* MIN_HEALTHY_DC_GROUPS
  Outages,       \* sets of paths that may be down
  MaxChanges

VARIABLES
  healthy, fails, pref,   \* UpstreamState; fails saturates at Threshold
  pinged,                 \* upstreams the startup ping has done
  check,                  \* the health check: upstreams and groups still to do
  client,                 \* the connect call of a session
  down, changes

vars == <<healthy, fails, pref, pinged, check, client, down, changes>>

Families == {4, 6}
NoTarget == 0
Idle == [pc |-> "idle", u |-> 0, dc |-> 0, family |-> 0, attempt |-> 0]
Sleeping == [pc |-> "sleep", todo |-> {}, groups |-> {}, ok |-> 0]

Init ==
  /\ healthy = [u \in Ups |-> TRUE] /\ fails = [u \in Ups |-> 0]
  /\ pref = [u \in Ups |-> [d \in Dcs |-> "unknown"]]
  /\ pinged = {} /\ check = Sleeping
  /\ client = [c \in Clients |-> Idle]
  /\ down \in Outages /\ changes = 0

-----------------------------------------------------------------------------
Setting(u, f) == IF f = 4 THEN Conf[u].ipv4 ELSE Conf[u].ipv6
UnwrapOr(setting, default) == setting = "on" \/ (setting = "auto" /\ default)
Enabled(f) == IF f = 4 THEN IPv4 ELSE IPv6

resolve_probe_dc_families(u) == {f \in Families : UnwrapOr(Setting(u, f), Enabled(f))}

resolve_runtime_dc_families(u, p) ==
  {f \in Families : UnwrapOr(Setting(u, f), p \notin {"v4", "v6"} \/ p = (IF f = 4 THEN "v4" ELSE "v6"))}

\* The family of the address that is dialled for a request to dc whose address has family f.
resolve_runtime_dc_target(u, dc, f) ==
  LET p == pref[u][dc]
      allowed == resolve_runtime_dc_families(u, p)
      preferred == CASE p = "v4" -> 4 [] p = "v6" -> 6 [] OTHER -> Conf[u].prefer IN
    IF preferred \in allowed THEN preferred
    ELSE IF f \in allowed THEN f
    ELSE IF allowed = {} THEN NoTarget
    ELSE CHOOSE g \in allowed : TRUE

\* resolve_bind_address: an address to bind to exists for the family, or none is configured.
CanBind(u, f) == Conf[u].binds = {} \/ f \in Conf[u].binds

Path(u, dc, f) == IF <<u, dc, f>> \in down THEN {"soft", "hard"} ELSE {"ok"}

dial_direct(u, dc, f) == IF CanBind(u, f) THEN Path(u, dc, f) ELSE {"hard"}

\* SOCKS4 has no IPv6; it is refused once the proxy is connected.
connect_socks4(f) == f = 4
dial_socks4(u, dc, f) == IF Path(u, dc, f) = {"ok"} /\ ~connect_socks4(f) THEN {"soft"} ELSE Path(u, dc, f)

\* The negotiation with a SOCKS5 proxy that asks for no login, for one, or for something else.
connect_socks5(u) == Conf[u].asks = "nothing" \/ (Conf[u].asks = "login" /\ Conf[u].login)
dial_socks5(u, dc, f) == IF Path(u, dc, f) = {"ok"} /\ ~connect_socks5(u) THEN {"soft"} ELSE Path(u, dc, f)

dial_shadowsocks(u, dc, f) == Path(u, dc, f)

\* What dialling a data centre through an upstream can give now.
connect_via_upstream(u, dc, f) ==
  CASE Conf[u].kind = "direct" -> dial_direct(u, dc, f)
    [] Conf[u].kind = "socks4" -> dial_socks4(u, dc, f)
    [] Conf[u].kind = "socks5" -> dial_socks5(u, dc, f)
    [] OTHER -> dial_shadowsocks(u, dc, f)

-----------------------------------------------------------------------------
(***************************************************************************)
(* connect and connect_with_details.                                       *)
(***************************************************************************)
InScope(s) == {u \in Ups : IF s = "" THEN Conf[u].scopes = {} ELSE s \in Conf[u].scopes}

\* By weight and latency among the healthy; any one when none is healthy.
select_upstream(s) ==
  LET fit == {u \in InScope(s) : healthy[u]}
      weighted == {u \in fit : Conf[u].weight > 0} IN
    IF fit = {} THEN InScope(s)
    ELSE IF weighted = {} THEN fit
    ELSE weighted \cup {Min(fit)}

Connect(c) ==
  /\ client[c].pc = "idle"
  /\ \E s \in Scopes, dc \in Dcs, f \in Families : \E u \in select_upstream(s) :
       LET target == resolve_runtime_dc_target(u, dc, f) IN
         /\ target # NoTarget
         /\ client' = [client EXCEPT ![c] =
              [pc |-> "dial", u |-> u, dc |-> dc, family |-> target, attempt |-> 1]]
  /\ UNCHANGED <<healthy, fails, pref, pinged, check, down, changes>>

\* One attempt; a failed one is retried unless it was the last, was hard, or used up the budget.
Attempt(c) ==
  LET me == client[c] IN
    /\ me.pc = "dial"
    /\ \E r \in connect_via_upstream(me.u, me.dc, me.family) :
         client' = [client EXCEPT ![c] =
           IF r = "ok" THEN [me EXCEPT !.pc = "won"]
           ELSE IF me.attempt = Attempts \/ (FailFast /\ r = "hard") THEN [me EXCEPT !.pc = "lost"]
           ELSE [me EXCEPT !.attempt = @ + 1]]
    /\ UNCHANGED <<healthy, fails, pref, pinged, check, down, changes>>

BudgetSpent(c) ==
  /\ client[c].pc = "dial"
  /\ client' = [client EXCEPT ![c].pc = "lost"]
  /\ UNCHANGED <<healthy, fails, pref, pinged, check, down, changes>>

Succeeds(u) == healthy' = [healthy EXCEPT ![u] = TRUE] /\ fails' = [fails EXCEPT ![u] = 0]
Fails(u) ==
  /\ fails' = [fails EXCEPT ![u] = IF @ < Threshold THEN @ + 1 ELSE @]
  /\ healthy' = [healthy EXCEPT ![u] = @ /\ fails'[u] < Threshold]

Recorded(c) ==
  LET me == client[c] IN
    /\ \/ me.pc = "won" /\ Succeeds(me.u)
       \/ me.pc = "lost" /\ Fails(me.u)
    /\ client' = [client EXCEPT ![c] = Idle]
    /\ UNCHANGED <<pref, pinged, check, down, changes>>

\* The session is cancelled and its connect call dropped.
Cancelled(c) ==
  /\ client[c].pc # "idle" /\ client' = [client EXCEPT ![c] = Idle]
  /\ UNCHANGED <<healthy, fails, pref, pinged, check, down, changes>>

-----------------------------------------------------------------------------
(***************************************************************************)
(* ping_all_dcs and run_health_checks.                                     *)
(***************************************************************************)
Unscoped == {u \in Ups : Conf[u].scopes = {}}
should_check_in_default_dc_connectivity == IF Unscoped = {} THEN Ups ELSE Unscoped

Works(u, dc, f) == f \in resolve_probe_dc_families(u) /\ connect_via_upstream(u, dc, f) = {"ok"}

ping_all_dcs(u) ==
  /\ u \in should_check_in_default_dc_connectivity \ pinged
  /\ pinged' = pinged \cup {u}
  /\ pref' = [pref EXCEPT ![u] = [d \in Dcs |->
       LET v6 == Works(u, d, 6)
           v4 == Works(u, d, 4) IN
         CASE v6 /\ v4 -> "both" [] v6 /\ ~v4 -> "v6" [] ~v6 /\ v4 -> "v4" [] OTHER -> "unavailable"]]
  /\ UNCHANGED <<healthy, fails, check, client, down, changes>>

\* The families the groups are built for: the decision, or any upstream that insists.
build_health_check_groups ==
  IF \E f \in Families : Enabled(f) \/ \E u \in Ups : Setting(u, f) = "on" THEN Dcs ELSE {}
required_healthy_group_count ==
  IF Cardinality(build_health_check_groups) < MinGroups THEN Cardinality(build_health_check_groups) ELSE MinGroups

\* A check that leaves out what is already known to be down.
HealthyUpstreams == {u \in Ups : healthy[u]} \cap should_check_in_default_dc_connectivity
HealthTargets == should_check_in_default_dc_connectivity

StartCheck ==
  /\ check.pc = "sleep" /\ build_health_check_groups # {} /\ HealthTargets # {}
  /\ check' = [pc |-> "probe", todo |-> HealthTargets, groups |-> build_health_check_groups, ok |-> 0]
  /\ UNCHANGED <<healthy, fails, pref, pinged, client, down, changes>>

\* One group of one upstream: it is up if some endpoint of either family answers.
ProbeGroup ==
  /\ check.pc = "probe" /\ check.groups # {}
  /\ LET u == Min(check.todo)
         d == Min(check.groups)
         up == \E f \in Families : Works(u, d, f) IN
       check' = [check EXCEPT !.groups = @ \ {d}, !.ok = IF up THEN @ + 1 ELSE @]
  /\ UNCHANGED <<healthy, fails, pref, pinged, client, down, changes>>

Verdict ==
  /\ check.pc = "probe" /\ check.groups = {}
  /\ LET u == Min(check.todo) IN
       /\ IF check.ok >= required_healthy_group_count THEN Succeeds(u) ELSE Fails(u)
       /\ check' = IF check.todo = {u} THEN Sleeping
                   ELSE [check EXCEPT !.todo = @ \ {u}, !.groups = build_health_check_groups, !.ok = 0]
  /\ UNCHANGED <<pref, pinged, client, down, changes>>

NetworkChanges ==
  /\ changes < MaxChanges /\ changes' = changes + 1
  /\ \E o \in Outages \ {down} : down' = o
  /\ UNCHANGED <<healthy, fails, pref, pinged, check, client>>

Health == StartCheck \/ ProbeGroup \/ Verdict
Session(c) == Connect(c) \/ Attempt(c) \/ BudgetSpent(c) \/ Recorded(c) \/ Cancelled(c)
Next == Health \/ NetworkChanges \/ (\E u \in Ups : ping_all_dcs(u)) \/ \E c \in Clients : Session(c)

Spec == Init /\ [][Next]_vars

-----------------------------------------------------------------------------
\* In every state the startup ping and later connects can reach: unless the
\* configuration of an upstream forbids both families, a request to a data
\* centre gets an address, of a family its configuration does not forbid, and
\* of the family that answered the ping when only one did.
TargetFollowsPolicy ==
  \A u \in Ups, d \in Dcs, f \in Families : (\E g \in Families : Setting(u, g) # "off") =>
    LET t == resolve_runtime_dc_target(u, d, f) IN
      /\ t # NoTarget /\ Setting(u, t) # "off"
      /\ pref[u][d] = "v4" => t = 4
      /\ pref[u][d] = "v6" => t = 6

\* An upstream through which every data centre can be reached is healthy
\* again and again, however many connects failed before: the background
\* check finds it without waiting for a session to try it.
Reachable(u) == \A d \in Dcs, f \in resolve_probe_dc_families(u) : connect_via_upstream(u, d, f) = {"ok"}
HealthyIfReachable(u) == Reachable(u) => healthy[u]
CheckedUpstreamRecovers ==
  \A u \in should_check_in_default_dc_connectivity : []<>HealthyIfReachable(u)

=============================================================================
