------------------------------ MODULE SynLimit ------------------------------
(***************************************************************************)
(* The SYN limiter's firewall rules (src/src/synlimit_control/): installed *)
(* before the listeners accept, removed at shutdown, under a namespace     *)
(* derived from the rules themselves.  The kernel outlives the process: a  *)
(* run may crash after any command, and the next one may have another      *)
(* configuration.  Every firewall command is a step.                       *)
(***************************************************************************)
EXTENDS Integers, Sequences, FiniteSets, SequencesExt

CONSTANTS
  Configs,     \* sets of listeners [family, ip, port, mode, seconds, hits]
  Tools,       \* binaries that can be found
  Privileged,  \* CAP_NET_ADMIN, or root
  NftTables,   \* families of the nft tables other programs keep
  PfHook,      \* pf.conf has the anchor
  MaxFaults, MaxCrashes, MaxRuns

VARIABLES
  config,      \* the listeners of the current run
  proc,        \* "down", "clear", "apply", "undo", "serving", "stop", "failed"
  cmds,        \* commands still to run
  errors,      \* a command of the clear in progress failed
  active,      \* ACTIVE_SYNLIMIT_NAMESPACE: {} or {namespace}
  nft,         \* <<namespace, family, rule>> of the nft tables
  ipt,         \* <<binary, namespace>> -> [chain, jumps, rules]
  pf,          \* <<namespace, rule>> of the pf anchors
  faults, crashes, runs

vars == <<config, proc, cmds, errors, active, nft, ipt, pf, faults, crashes, runs>>

Binaries == {"iptables", "ip6tables"}

(* Targets. *)

\* The rule a listener asks for; an unspecified address matches any.
Rule(l) == [ip |-> l.ip, port |-> l.port, seconds |-> l.seconds, hits |-> l.hits]

synlimit_targets(c, mode, family) ==
  {Rule(l) : l \in {k \in c : k.mode = mode /\ k.family = family}}

Targets(c) == {l \in c : l.mode # "off"}

\* The names carry a hash of all rules: equal exactly when the rules are.
synlimit_namespace(c) ==
  {<<l.mode, l.family, Rule(l)>> : l \in Targets(c)}

Namespaces == {synlimit_namespace(c) : c \in Configs}

\* A rate of hits per seconds in the units the firewalls know: the first unit
\* that makes it whole, or a daily rate rounded up.
synlimit_rate_arg(seconds, hits) ==
  LET units == <<1, 60, 3600, 86400>>
      exact == {i \in 1..4 : /\ hits * units[i] >= seconds
                             /\ (hits * units[i]) % seconds = 0}
      first == CHOOSE i \in exact : \A j \in exact : i <= j
  IN IF exact # {} THEN <<(hits * units[first]) \div seconds, units[first]>>
     ELSE <<(hits * 86400 + seconds - 1) \div seconds, 86400>>

(* The commands. *)

Cmd(bin, op, ns, arg) == [bin |-> bin, op |-> op, ns |-> ns, arg |-> arg]

clear_nftables(ns) ==
  [i \in 1..3 |-> Cmd("nft", "delete", ns, <<"inet", "ip", "ip6">>[i])]

clear_rules_for_binary(b, ns) ==
  <<Cmd(b, "unjump", ns, ""), Cmd(b, "flush", ns, ""), Cmd(b, "drop", ns, "")>>

clear_pf(ns) == <<Cmd("pfctl", "clear", ns, "")>>

\* Mutant: the IPv6 chains are forgotten.
clear_forgets_ip6tables(ns) ==
  clear_nftables(ns) \o clear_rules_for_binary("iptables", ns) \o clear_pf(ns)

clear_synlimit_rules_for_namespace(ns) ==
  clear_nftables(ns) \o clear_rules_for_binary("iptables", ns) \o
  clear_rules_for_binary("ip6tables", ns) \o clear_pf(ns)

\* Four rules per target, iOS-like SYNs first, and a final return.
iptables_synfix_rules(r) ==
  <<[rule |-> r, kind |-> "ios_accept"], [rule |-> r, kind |-> "ios_reject"],
    [rule |-> r, kind |-> "accept"], [rule |-> r, kind |-> "reject"]>>

apply_rules_for_binary(b, rules, ns) ==
  IF rules = {} THEN <<>>
  ELSE <<Cmd(b, "new", ns, ""), Cmd(b, "reset", ns, ""), Cmd(b, "jump", ns, "")>> \o
       [i \in 1..Cardinality(rules) |->
          Cmd(b, "append", ns, iptables_synfix_rules(SetToSeq(rules)[i]))] \o
       <<Cmd(b, "return", ns, "")>>

\* One table: inet for both families or when nothing speaks against it.
nft_apply_plan(c) ==
  LET v4 == synlimit_targets(c, "nftables", "v4")
      v6 == synlimit_targets(c, "nftables", "v6")
  IN IF v4 # {} /\ v6 # {} THEN "inet"
     ELSE IF v4 # {} THEN (IF "inet" \in NftTables \/ "ip" \notin NftTables THEN "inet" ELSE "ip")
     ELSE (IF "inet" \in NftTables \/ "ip6" \notin NftTables THEN "inet" ELSE "ip6")

NftRules(c) == synlimit_targets(c, "nftables", "v4") \union synlimit_targets(c, "nftables", "v6")
PfRules(c)  == synlimit_targets(c, "pf", "v4") \union synlimit_targets(c, "pf", "v6")

ApplyCommands(c, ns) ==
  apply_rules_for_binary("iptables", synlimit_targets(c, "iptables", "v4"), ns) \o
  apply_rules_for_binary("ip6tables", synlimit_targets(c, "iptables", "v6"), ns) \o
  (IF NftRules(c) = {} THEN <<>> ELSE <<Cmd("nft", "load", ns, nft_apply_plan(c))>>) \o
  (IF PfRules(c) = {} THEN <<>> ELSE <<Cmd("pfctl", "load", ns, "")>>)

(* The kernel. *)

NoRule == [ip |-> "", port |-> 0, seconds |-> 1, hits |-> 0]

NoChain == [chain |-> FALSE, jumps |-> 0, rules |-> <<>>]

Chain(cmd) == ipt[<<cmd.bin, cmd.ns>>]

\* The command finds what it acts on.
Applicable(cmd) ==
  CASE cmd.bin = "nft" /\ cmd.op = "delete" -> \E r \in nft : r[1] = cmd.ns /\ r[2] = cmd.arg
    [] cmd.bin = "nft" /\ cmd.op = "load"   -> TRUE
    [] cmd.bin = "pfctl" /\ cmd.op = "clear" -> \E r \in pf : r[1] = cmd.ns
    [] cmd.bin = "pfctl" /\ cmd.op = "load"  -> PfHook
    [] cmd.op = "unjump" -> Chain(cmd).jumps > 0
    [] cmd.op = "drop"   -> Chain(cmd).chain /\ Chain(cmd).jumps = 0 /\ Chain(cmd).rules = <<>>
    [] cmd.op = "new"    -> ~Chain(cmd).chain
    [] OTHER             -> Chain(cmd).chain

NftAfter(cmd, c) ==
  CASE cmd.bin # "nft"    -> nft
    [] cmd.op = "delete" -> {r \in nft : ~(r[1] = cmd.ns /\ r[2] = cmd.arg)}
    [] cmd.op = "load"   -> nft \union {<<cmd.ns, cmd.arg, r>> : r \in NftRules(c)}

PfAfter(cmd, c) ==
  IF cmd.bin # "pfctl" THEN pf
  ELSE {r \in pf : r[1] # cmd.ns} \union
       (IF cmd.op = "load" THEN {<<cmd.ns, r>> : r \in PfRules(c)} ELSE {})

\* The jump is looked for before it is inserted, and deleted until it is gone.
IptAfter(cmd) ==
  IF cmd.bin \notin Binaries THEN ipt
  ELSE [ipt EXCEPT ![<<cmd.bin, cmd.ns>>] =
          CASE cmd.op = "unjump" -> [@ EXCEPT !.jumps = 0]
            [] cmd.op \in {"flush", "reset"} -> [@ EXCEPT !.rules = <<>>]
            [] cmd.op = "drop"   -> NoChain
            [] cmd.op = "new"    -> [@ EXCEPT !.chain = TRUE]
            [] cmd.op = "jump"   -> [@ EXCEPT !.jumps = IF @ = 0 THEN 1 ELSE @]
            [] cmd.op = "append" -> [@ EXCEPT !.rules = @ \o cmd.arg]
            [] cmd.op = "return" -> [@ EXCEPT !.rules = Append(@, [rule |-> NoRule, kind |-> "return"])]]

Init ==
  /\ config = {}
  /\ proc = "down"
  /\ cmds = <<>>
  /\ errors = FALSE
  /\ active = {}
  /\ nft = {}
  /\ ipt = [k \in Binaries \X Namespaces |-> NoChain]
  /\ pf = {}
  /\ faults = 0 /\ crashes = 0 /\ runs = 0

Kernel == <<nft, ipt, pf>>

\* reconcile_synlimit_rules: nothing to do, not allowed to, or a clear of
\* what an earlier run left under the same name.
reconcile_synlimit_rules ==
  /\ proc = "down"
  /\ runs < MaxRuns
  /\ runs' = runs + 1
  /\ \E c \in Configs :
       /\ config' = c
       /\ \/ /\ Targets(c) = {}
             /\ proc' = "serving"
             /\ UNCHANGED cmds
          \/ /\ Targets(c) # {} /\ ~Privileged
             /\ proc' = "failed"
             /\ UNCHANGED cmds
          \/ /\ Targets(c) # {} /\ Privileged
             /\ proc' = "clear"
             /\ cmds' = clear_synlimit_rules_for_namespace(synlimit_namespace(c))
  /\ errors' = FALSE
  /\ UNCHANGED <<active, Kernel, faults, crashes>>

Clearing == proc \in {"clear", "undo", "stop"}

\* A clear goes on after an error and remembers it; what is missing already
\* is no error.  While applying, the chain may exist; any other error ends
\* the attempt and is undone.
run_command ==
  LET cmd == Head(cmds)
  IN /\ cmds # <<>>
     /\ \/ /\ cmd.bin \in Tools /\ Applicable(cmd)
           /\ nft' = NftAfter(cmd, config) /\ pf' = PfAfter(cmd, config) /\ ipt' = IptAfter(cmd)
           /\ cmds' = Tail(cmds)
           /\ UNCHANGED <<proc, errors, faults>>
        \/ /\ \/ cmd.bin \notin Tools /\ UNCHANGED faults
              \/ cmd.bin \in Tools /\ ~Applicable(cmd) /\ UNCHANGED faults
              \/ cmd.bin \in Tools /\ faults < MaxFaults /\ faults' = faults + 1
           /\ IF Clearing
                THEN /\ errors' = (errors \/ (cmd.bin \in Tools /\
                                     (Applicable(cmd) \/ (cmd.op = "drop" /\ Chain(cmd).chain))))
                     /\ cmds' = Tail(cmds)
                     /\ UNCHANGED proc
                ELSE IF cmd.op = "new"
                  THEN cmds' = Tail(cmds) /\ UNCHANGED <<proc, errors>>
                  ELSE /\ proc' = "undo"
                       /\ cmds' = clear_synlimit_rules_for_namespace(synlimit_namespace(config))
                       /\ errors' = FALSE
           /\ UNCHANGED Kernel
     /\ UNCHANGED <<config, active, crashes, runs>>

\* The commands of a phase are done.
PhaseEnds ==
  /\ cmds = <<>>
  /\ \/ /\ proc = "clear" /\ ~errors
        /\ proc' = "apply"
        /\ cmds' = ApplyCommands(config, synlimit_namespace(config))
        /\ UNCHANGED active
     \/ /\ proc = "apply"
        /\ proc' = "serving"
        /\ active' = {synlimit_namespace(config)}
        /\ UNCHANGED cmds
     \/ /\ \/ proc = "undo"
           \/ proc = "clear" /\ errors
        /\ proc' = "failed"
        /\ UNCHANGED <<cmds, active>>
     \/ /\ proc = "stop"
        /\ proc' = "down"
        /\ active' = {}
        /\ UNCHANGED cmds
  /\ UNCHANGED <<config, errors, Kernel, faults, crashes, runs>>

\* Shutdown removes the rules this process installed.
clear_synlimit_rules_all_backends ==
  /\ proc = "serving"
  /\ proc' = "stop"
  /\ errors' = FALSE
  /\ cmds' = IF active = {} THEN <<>>
             ELSE clear_synlimit_rules_for_namespace(CHOOSE ns \in active : TRUE)
  /\ UNCHANGED <<config, active, Kernel, faults, crashes, runs>>

\* A failed start ends the process.
Exits ==
  /\ proc = "failed"
  /\ proc' = "down"
  /\ UNCHANGED <<config, cmds, errors, active, Kernel, faults, crashes, runs>>

Crash ==
  /\ crashes < MaxCrashes
  /\ proc # "down"
  /\ crashes' = crashes + 1
  /\ proc' = "down"
  /\ cmds' = <<>>
  /\ active' = {}
  /\ UNCHANGED <<config, errors, Kernel, faults, runs>>

Next ==
  \/ reconcile_synlimit_rules \/ run_command \/ PhaseEnds
  \/ clear_synlimit_rules_all_backends \/ Exits \/ Crash

Spec == Init /\ [][Next]_vars

(* Properties. *)

\* Everything the kernel holds under a namespace.
Holds(ns) ==
  \/ \E r \in nft : r[1] = ns
  \/ \E r \in pf : r[1] = ns
  \/ \E b \in Binaries : ipt[<<b, ns>>] # NoChain

ChainRules(b, ns) == {e.rule : e \in {ipt[<<b, ns>>].rules[i] : i \in DOMAIN ipt[<<b, ns>>].rules} }

\* A process that serves has each listener's limit in force exactly once,
\* with a rate that never undercuts the configured one nor exceeds it by a
\* whole unit, also when an earlier run died between two commands.
LimiterInForce ==
  proc = "serving" =>
    LET ns == synlimit_namespace(config)
        families == {r[2] : r \in {s \in nft : s[1] = ns}}
    IN /\ {r[3] : r \in {s \in nft : s[1] = ns}} = NftRules(config)
       /\ Cardinality(families) <= 1
       /\ {r[2] : r \in {s \in pf : s[1] = ns}} = PfRules(config)
       /\ \A b \in Binaries :
            LET rules == synlimit_targets(config, "iptables", IF b = "iptables" THEN "v4" ELSE "v6")
            IN IF rules = {} THEN Targets(config) # {} => ipt[<<b, ns>>] = NoChain
               ELSE /\ ipt[<<b, ns>>].jumps = 1
                    /\ Len(ipt[<<b, ns>>].rules) = 4 * Cardinality(rules) + 1
                    /\ rules \subseteq ChainRules(b, ns)
       /\ \A l \in Targets(config) :
            LET rate == synlimit_rate_arg(l.seconds, l.hits)
            IN /\ rate[1] * l.seconds >= l.hits * rate[2]
               /\ (rate[1] - 1) * l.seconds < l.hits * rate[2]

\* A start that failed and a shutdown that reported no error leave nothing in
\* the kernel under their name.
NothingLeftBehind ==
  (/\ proc \in {"failed", "stop"} /\ cmds = <<>> /\ ~errors
   /\ Targets(config) # {} /\ Privileged)
    => ~Holds(synlimit_namespace(config))
=============================================================================
