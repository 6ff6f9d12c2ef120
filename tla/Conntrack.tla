----------------------------- MODULE Conntrack -----------------------------
(***************************************************************************)
(* The conntrack controller (src/src/conntrack_control.rs): one worker per *)
(* runtime generation reconciles the notrack rules of the kernel, samples  *)
(* the load to enter and leave pressure mode, and deletes the conntrack    *)
(* entries of sessions that ended badly while pressure lasts.  Sessions    *)
(* publish their close through ProxySharedState.                           *)
(*                                                                         *)
(* The worker is one select loop: while it runs a command nothing else of  *)
(* it happens, and the sample timer is created anew on every turn.  Time   *)
(* is counted in fractions of the sample interval (Interval ticks).  The   *)
(* kernel's tables are shared by all generations; each command is a step.  *)
(***************************************************************************)
EXTENDS Integers, Sequences, FiniteSets

CONSTANTS
  Gens,        \* runtime generations, 1, 2, ... in the order they are built
  Conf,        \* their configurations
  Tools,       \* binaries found on PATH
  NetAdmin,    \* CAP_NET_ADMIN
  Leftover,    \* notrack rules a previous process may have left, by backend
  QueueCap,    \* CONNTRACK_EVENT_QUEUE_CAPACITY
  ReleaseTicks,\* PRESSURE_RELEASE_TICKS
  Interval,    \* ticks of PRESSURE_SAMPLE_INTERVAL
  Reasons,     \* close reasons sessions publish
  Steady,      \* sessions close for ever, rather than MaxEvents times
  MaxEvents, MaxHighs, MaxChanges, MaxFaults

VARIABLES
  worker,      \* per generation: [pc, cmds, ok, active, low, tokens, timer, due]
  sender,      \* the close sender is installed
  pressure,    \* ProxySharedState's pressure flag
  queue,       \* close events waiting, by generation
  delta,       \* refusals counted since the last sample
  nft,         \* rules of table tupoproxy_conntrack, {} when there is none
  ipt,         \* per binary: [chain, jump, rules] of TUPOPROXY_NOTRACK
  changed,     \* the config watch has a value the worker has not seen
  events, highs, changes, faults

vars == <<worker, sender, pressure, queue, delta, nft, ipt, changed,
          events, highs, changes, faults>>

Binaries == {"iptables", "ip6tables"}

command_exists(b) == b \in Tools

pick_backend(c) ==
  CASE c.backend = "auto" /\ command_exists("nft")      -> "nft"
    [] c.backend = "auto" /\ command_exists("iptables") -> "iptables"
    [] c.backend # "auto" /\ command_exists(c.backend)  -> c.backend
    [] OTHER                                            -> "none"

effective_conntrack_enabled(c) ==
  c.on /\ NetAdmin /\ pick_backend(c) # "none" /\ command_exists("conntrack")

(* The notrack targets of a configuration: <<family, address, port>>. *)

listener_port_set(c) ==
  IF c.listeners = {} THEN {c.port} ELSE {l.port : l \in c.listeners}

notrack_targets(c) ==
  CASE c.mode = "tracked" -> {}
    [] c.mode = "notrack" /\ c.listeners = {} -> {<<a.family, a.ip, c.port>> : a \in c.addresses}
    [] c.mode = "notrack" /\ c.listeners # {} -> {<<l.family, l.ip, l.port>> : l \in c.listeners}
    [] c.mode = "hybrid" -> {<<h.family, h.ip, p>> : h \in c.hybrid, p \in listener_port_set(c)}

\* An inet rule without an address matches both families.
NftRules(c) ==
  {t \in notrack_targets(c) : t[2] # "any"} \union
  {<<f, "any", t[3]>> : f \in {"v4", "v6"}, t \in {u \in notrack_targets(c) : u[2] = "any"}}

IptRules(c, b) ==
  {t \in notrack_targets(c) : t[1] = (IF b = "iptables" THEN "v4" ELSE "v6")}

(* The commands of a reconcile, in order.  "must" is the ? of the code. *)

Cmd(bin, op, must) == [bin |-> bin, op |-> op, must |-> must]

apply_nft_rules(c) ==
  <<Cmd("nft", "delete", FALSE)>> \o
  (IF c.mode = "tracked" THEN <<>> ELSE <<Cmd("nft", "load", TRUE)>>)

clear_iptables(b) ==
  <<Cmd(b, "unjump", FALSE), Cmd(b, "flush", FALSE), Cmd(b, "delete", FALSE)>>

apply_iptables_rules_for_binary(c, b) ==
  IF ~command_exists(b) THEN <<>>
  ELSE clear_iptables(b) \o
       (IF c.mode = "tracked" THEN <<>>
        ELSE <<Cmd(b, "new", TRUE), Cmd(b, "flush", TRUE), Cmd(b, "jump", TRUE),
               Cmd(b, "append", TRUE)>>)

clear_notrack_rules_all_backends ==
  <<Cmd("nft", "delete", FALSE)>> \o clear_iptables("iptables") \o clear_iptables("ip6tables")

reconcile_rules(c) ==
  IF ~effective_conntrack_enabled(c) THEN clear_notrack_rules_all_backends
  ELSE IF pick_backend(c) = "nft" THEN apply_nft_rules(c)
  ELSE apply_iptables_rules_for_binary(c, "iptables") \o
       apply_iptables_rules_for_binary(c, "ip6tables")

\* What rule_apply_ok becomes when the commands end well.
RuleApplyOk(c) == ~c.on \/ effective_conntrack_enabled(c)

(* The kernel. *)

Possible(cmd) ==
  /\ command_exists(cmd.bin)
  /\ CASE cmd.bin = "nft" /\ cmd.op = "delete" -> nft # {}
       [] cmd.bin = "nft" /\ cmd.op = "load"   -> TRUE
       [] cmd.op = "unjump" -> ipt[cmd.bin].jump
       [] cmd.op = "flush"  -> ipt[cmd.bin].chain
       [] cmd.op = "delete" -> ipt[cmd.bin].chain /\ ~ipt[cmd.bin].jump /\ ipt[cmd.bin].rules = {}
       [] cmd.op = "new"    -> ~ipt[cmd.bin].chain
       [] cmd.op = "jump"   -> ipt[cmd.bin].chain
       [] cmd.op = "append" -> ipt[cmd.bin].chain

NftAfter(cmd, c) ==
  CASE cmd.bin # "nft"    -> nft
    [] cmd.op = "delete" -> {}
    [] cmd.op = "load"   -> nft \union NftRules(c)

IptAfter(cmd, c) ==
  IF cmd.bin = "nft" THEN ipt
  ELSE [ipt EXCEPT ![cmd.bin] =
          CASE cmd.op = "unjump" -> [@ EXCEPT !.jump = FALSE]
            [] cmd.op = "flush"  -> [@ EXCEPT !.rules = {}]
            [] cmd.op = "delete" -> [@ EXCEPT !.chain = FALSE]
            [] cmd.op = "new"    -> [@ EXCEPT !.chain = TRUE]
            [] cmd.op = "jump"   -> [@ EXCEPT !.jump = TRUE]
            [] cmd.op = "append" -> [@ EXCEPT !.rules = @ \union IptRules(c, cmd.bin)]]

Init ==
  /\ worker = [g \in Gens |-> [pc |-> "off", cmds |-> <<>>, ok |-> FALSE, active |-> FALSE,
                               low |-> 0, tokens |-> 0, timer |-> 0, due |-> 0]]
  /\ sender = [g \in Gens |-> FALSE]
  /\ pressure = [g \in Gens |-> FALSE]
  /\ queue = [g \in Gens |-> <<>>]
  /\ delta = [g \in Gens |-> FALSE]
  /\ nft \in {{}, Leftover.nft}
  /\ ipt \in {[b \in Binaries |-> [chain |-> FALSE, jump |-> FALSE, rules |-> {}]],
              [b \in Binaries |-> [chain |-> TRUE, jump |-> TRUE, rules |-> Leftover.ipt]]}
  /\ changed = [g \in Gens |-> FALSE]
  /\ events = 0 /\ highs = 0 /\ changes = 0 /\ faults = 0

(* The worker. *)

\* A new turn of the loop: the sleep of the select is created again.
Turn(w) == [w EXCEPT !.pc = "loop", !.timer = Interval]

\* run_conntrack_controller: the sender is installed, then the first
\* reconcile.  A generation is built while the one before it serves.
run_conntrack_controller(g) ==
  /\ worker[g].pc = "off"
  /\ \A h \in Gens : h < g => worker[h].pc # "off"
  /\ sender' = [sender EXCEPT ![g] = TRUE]
  /\ worker' = [worker EXCEPT ![g] = [@ EXCEPT !.pc = "run", !.cmds = reconcile_rules(Conf[g]),
                                               !.tokens = Conf[g].budget]]
  /\ delta' = [delta EXCEPT ![g] = FALSE]
  /\ UNCHANGED <<pressure, queue, nft, ipt, changed, events, highs, changes, faults>>

\* One command of a reconcile; a failed one that must succeed ends it.
run_command(g) ==
  LET w == worker[g]  cmd == Head(w.cmds)  c == Conf[g]
  IN /\ w.pc = "run" /\ w.cmds # <<>>
     /\ \/ /\ Possible(cmd)
           /\ nft' = NftAfter(cmd, c)
           /\ ipt' = IptAfter(cmd, c)
           /\ worker' = [worker EXCEPT ![g].cmds = Tail(@)]
           /\ UNCHANGED faults
        \/ /\ \/ ~Possible(cmd) /\ UNCHANGED faults
              \/ Possible(cmd) /\ faults < MaxFaults /\ faults' = faults + 1
           /\ worker' = [worker EXCEPT ![g] = IF cmd.must
                                                THEN [Turn(@) EXCEPT !.ok = FALSE, !.cmds = <<>>]
                                                ELSE [@ EXCEPT !.cmds = Tail(@)]]
           /\ UNCHANGED <<nft, ipt>>
     /\ UNCHANGED <<sender, pressure, queue, delta, changed, events, highs, changes>>

ReconcileEnds(g) ==
  /\ worker[g].pc = "run" /\ worker[g].cmds = <<>>
  /\ worker' = [worker EXCEPT ![g] = [Turn(@) EXCEPT !.ok = RuleApplyOk(Conf[g])]]
  /\ UNCHANGED <<sender, pressure, queue, delta, nft, ipt, changed, events, highs, changes, faults>>

\* apply_runtime_state and a new reconcile: also for a change of other fields.
ConfigChanged(g) ==
  /\ worker[g].pc = "loop" /\ changed[g]
  /\ changed' = [changed EXCEPT ![g] = FALSE]
  /\ worker' = [worker EXCEPT ![g] = [@ EXCEPT !.pc = "run", !.cmds = reconcile_rules(Conf[g]),
                                               !.tokens = Conf[g].budget]]
  /\ pressure' = [pressure EXCEPT ![g] = effective_conntrack_enabled(Conf[g]) /\ worker[g].active]
  /\ UNCHANGED <<sender, queue, delta, nft, ipt, events, highs, changes, faults>>

\* A close event: under pressure the entries of sessions that ended badly are
\* deleted while the second's budget lasts.
CloseEvent(g) ==
  /\ worker[g].pc = "loop" /\ queue[g] # <<>>
  /\ queue' = [queue EXCEPT ![g] = Tail(@)]
  /\ LET w == worker[g]
         deletes == /\ effective_conntrack_enabled(Conf[g]) /\ w.active
                    /\ Head(queue[g]) \in {"timeout", "pressure", "reset"}
                    /\ w.tokens > 0
     IN worker' = [worker EXCEPT ![g] = IF deletes THEN [Turn(@) EXCEPT !.tokens = @ - 1]
                                        ELSE Turn(@)]
  /\ UNCHANGED <<sender, pressure, delta, nft, ipt, changed, events, highs, changes, faults>>

\* Mutant: the last low sample of the streak starts it over.
update_never_releases(w, enabled, level) ==
  IF ~enabled THEN [w EXCEPT !.active = FALSE, !.low = IF w.active THEN 0 ELSE @]
  ELSE IF ~w.active /\ level = "high" THEN [w EXCEPT !.active = TRUE, !.low = 0]
  ELSE IF w.active /\ level = "low" /\ w.low + 1 < ReleaseTicks THEN [w EXCEPT !.low = @ + 1]
  ELSE [w EXCEPT !.low = 0]

update_pressure_state(w, enabled, level) ==
  IF ~enabled THEN [w EXCEPT !.active = FALSE, !.low = IF w.active THEN 0 ELSE @]
  ELSE IF ~w.active /\ level = "high" THEN [w EXCEPT !.active = TRUE, !.low = 0]
  ELSE IF w.active /\ level = "low"
    THEN IF w.low + 1 >= ReleaseTicks THEN [w EXCEPT !.active = FALSE, !.low = 0]
         ELSE [w EXCEPT !.low = @ + 1]
  ELSE [w EXCEPT !.low = 0]

\* The sample: connections and descriptors against the watermarks, and the
\* refusals counted since the sample before.
collect_pressure_sample(g, load) == IF delta[g] THEN "high" ELSE load

PressureSample(g) ==
  /\ worker[g].pc = "loop" /\ worker[g].timer = 0
  /\ \E load \in {"low", "mid", "high"} :
       /\ load = "low" \/ highs < MaxHighs
       /\ highs' = IF load = "low" THEN highs ELSE highs + 1
       /\ LET enabled == effective_conntrack_enabled(Conf[g])
              w == update_pressure_state(worker[g], enabled, collect_pressure_sample(g, load))
          IN /\ worker' = [worker EXCEPT ![g] = [Turn(w) EXCEPT !.tokens = Conf[g].budget,
                                                               !.due = 0]]
             /\ pressure' = [pressure EXCEPT ![g] = w.active]
  /\ delta' = [delta EXCEPT ![g] = FALSE]
  /\ UNCHANGED <<sender, queue, nft, ipt, changed, events, changes, faults>>

\* The generation is retired: nothing more is published or reported, and the
\* rules stay as they are.
Cancelled(g) ==
  /\ worker[g].pc = "loop"
  /\ \E h \in Gens : h > g /\ worker[h].pc = "loop"
  /\ worker' = [worker EXCEPT ![g].pc = "end", ![g].timer = 0, ![g].due = 0]
  /\ sender' = [sender EXCEPT ![g] = FALSE]
  /\ pressure' = [pressure EXCEPT ![g] = FALSE]
  /\ UNCHANGED <<queue, delta, nft, ipt, changed, events, highs, changes, faults>>

(* Sessions, the configuration file and time. *)

\* A full queue drops the event; without a sender it is not published.
publish_conntrack_close_event(g) ==
  /\ Steady \/ events < MaxEvents
  /\ sender[g] /\ worker[g].pc # "off"
  /\ events' = IF Steady THEN events ELSE events + 1
  /\ Len(queue[g]) < QueueCap
  /\ \E r \in Reasons : queue' = [queue EXCEPT ![g] = Append(@, r)]
  /\ UNCHANGED <<worker, sender, pressure, delta, nft, ipt, changed, highs, changes, faults>>

\* An accept permit or a Middle-End queue slot was refused.
Refusal(g) ==
  /\ highs < MaxHighs
  /\ highs' = highs + 1
  /\ worker[g].pc \in {"run", "loop"}
  /\ delta' = [delta EXCEPT ![g] = TRUE]
  /\ UNCHANGED <<worker, sender, pressure, queue, nft, ipt, changed, events, changes, faults>>

ConfigPublished(g) ==
  /\ changes < MaxChanges
  /\ worker[g].pc \in {"run", "loop"}
  /\ changes' = changes + 1
  /\ changed' = [changed EXCEPT ![g] = TRUE]
  /\ UNCHANGED <<worker, sender, pressure, queue, delta, nft, ipt, events, highs, faults>>

\* The sleeps of the running workers advance together.
Tick ==
  /\ \E g \in Gens : worker[g].pc = "loop"
  /\ \A g \in Gens : worker[g].pc = "loop" => worker[g].timer > 0 /\ queue[g] = <<>>
  /\ worker' = [g \in Gens |-> IF worker[g].pc = "loop"
                                 THEN [worker[g] EXCEPT !.timer = @ - 1,
                                         !.due = IF @ < 2 * Interval THEN @ + 1 ELSE @]
                                 ELSE worker[g]]
  /\ UNCHANGED <<sender, pressure, queue, delta, nft, ipt, changed, events, highs, changes, faults>>

Worker(g) ==
  \/ run_command(g) \/ ReconcileEnds(g) \/ ConfigChanged(g) \/ CloseEvent(g)
  \/ PressureSample(g)

Next ==
  \/ Tick
  \/ \E g \in Gens :
       \/ run_conntrack_controller(g) \/ Worker(g) \/ Cancelled(g)
       \/ publish_conntrack_close_event(g) \/ Refusal(g) \/ ConfigPublished(g)

\* The workers are scheduled and time passes.
Fairness ==
  /\ WF_vars(Tick)
  /\ \A g \in Gens : WF_vars(run_conntrack_controller(g)) /\ WF_vars(Worker(g))

Spec == Init /\ [][Next]_vars /\ Fairness

(* Properties. *)

\* Pressure mode caps the timeouts of every session while it lasts: it does
\* not outlast the load.  Once samples stay low it is left, and the flag the
\* sessions read goes with it.
Relaxed == \A g \in Gens : ~pressure[g] /\ (worker[g].active => worker[g].pc = "end")
\* A worker at rest that reports its rules as applied has left in its
\* backend's tables exactly the rules of its configuration, whatever an
\* earlier process left there and whichever commands failed on the way.
AppliedRulesExact ==
  \A g \in Gens :
    LET c == Conf[g]
    IN (/\ worker[g].pc = "loop" /\ worker[g].ok /\ effective_conntrack_enabled(c)
        /\ \A h \in Gens \ {g} : worker[h].pc \in {"off", "end"})
       => IF pick_backend(c) = "nft" THEN nft = NftRules(c)
          ELSE \A b \in Binaries \intersect Tools :
                 /\ ipt[b].rules = IptRules(c, b)
                 /\ ipt[b].jump = (c.mode # "tracked")

=============================================================================
