------------------------------ MODULE CertBudget ------------------------------
(***************************************************************************)
(* The gate of src/src/tls_front/cache.rs that sends the full certificate  *)
(* to a client address once per lifetime: a sharded table in the cache of  *)
(* each runtime generation, a process-wide gauge that caps the entries,    *)
(* and a sweep started by whichever request finds it due.                  *)
(***************************************************************************)
EXTENDS Integers, FiniteSets

CONSTANTS
  Gens, Ips, Requests,
  Shard,          \* [Ips -> 1..Shards]
  Shards,
  Ttl,            \* tls_full_cert_ttl_secs; 0 is no gate
  SweepInterval,  \* FULL_CERT_SENT_SWEEP_INTERVAL_SECS
  MaxIps,         \* FULL_CERT_SENT_MAX_IPS
  StartTime, MaxTime

ASSUME CertAssumption ==
  /\ IsFiniteSet(Gens) /\ 1 \in Gens
  /\ IsFiniteSet(Ips) /\ Ips # {}
  /\ MaxIps \in Nat /\ StartTime \in Nat

VARIABLES
  now, gen,
  sent,        \* [Gens -> [Ips -> time or Never]]
  lastSweep,   \* [Gens -> time]
  gauge,       \* FULL_CERT_SENT_IPS_GAUGE
  req          \* a call of take_full_cert_budget_for_ip

certVars == <<now, gen, sent, lastSweep, gauge, req>>

Never == -1
NoRequest == [pc |-> "idle", g |-> 1, ip |-> CHOOSE i \in Ips : TRUE, at |-> 0, shard |-> 0]

CertInit ==
  /\ now = StartTime /\ gen = 1 /\ gauge = 0
  /\ sent = [g \in Gens |-> [i \in Ips |-> Never]]
  /\ lastSweep = [g \in Gens |-> 0]
  /\ req = [r \in Requests |-> NoRequest]

Tracked(g) == {i \in Ips : sent[g][i] # Never}

\* The clock is read and the sweep claimed before any lock is taken.
take_full_cert_budget_for_ip(r, i) ==
  /\ req[r].pc = "idle" /\ Ttl > 0
  /\ LET due == now - lastSweep[gen] >= SweepInterval IN
       /\ lastSweep' = IF due THEN [lastSweep EXCEPT ![gen] = now] ELSE lastSweep
       /\ req' = [req EXCEPT ![r] = [pc |-> IF due THEN "sweep" ELSE "take", g |-> gen, ip |-> i, at |-> now, shard |-> 1]]
  /\ UNCHANGED <<now, gen, sent, gauge>>

decrement_full_cert_sent_entries(n) == IF gauge >= n THEN gauge - n ELSE 0

\* What is left of a shard is subtracted, not what was removed.
SubtractsTheRest(r) ==
  LET q == req[r]
      mine == {i \in Tracked(q.g) : Shard[i] = q.shard}
      kept == {i \in mine : q.at - sent[q.g][i] < Ttl} IN
    /\ q.pc = "sweep"
    /\ sent' = [sent EXCEPT ![q.g] = [i \in Ips |-> IF i \in mine \ kept THEN Never ELSE @[i]]]
    /\ gauge' = decrement_full_cert_sent_entries(Cardinality(kept))
    /\ req' = [req EXCEPT ![r].shard = @ + 1, ![r].pc = IF q.shard = Shards THEN "take" ELSE "sweep"]
    /\ UNCHANGED <<now, gen, lastSweep>>

\* One shard of the sweep, under its lock.
sweep_full_cert_sent_shards(r) ==
  LET q == req[r]
      mine == {i \in Tracked(q.g) : Shard[i] = q.shard}
      kept == {i \in mine : q.at - sent[q.g][i] < Ttl} IN
    /\ q.pc = "sweep"
    /\ sent' = [sent EXCEPT ![q.g] = [i \in Ips |-> IF i \in mine \ kept THEN Never ELSE @[i]]]
    /\ gauge' = decrement_full_cert_sent_entries(Cardinality(mine) - Cardinality(kept))
    /\ req' = [req EXCEPT ![r].shard = @ + 1, ![r].pc = IF q.shard = Shards THEN "take" ELSE "sweep"]
    /\ UNCHANGED <<now, gen, lastSweep>>

try_reserve_full_cert_sent_entry == gauge < MaxIps

\* The lookup, under the lock of the address's shard.
Take(r) ==
  LET q == req[r]
      known == sent[q.g][q.ip] # Never
      allowed == IF known THEN q.at - sent[q.g][q.ip] >= Ttl ELSE try_reserve_full_cert_sent_entry IN
    /\ q.pc = "take"
    /\ sent' = IF allowed THEN [sent EXCEPT ![q.g][q.ip] = q.at] ELSE sent
    /\ gauge' = IF allowed /\ ~known THEN gauge + 1 ELSE gauge
    /\ req' = [req EXCEPT ![r] = NoRequest]
    /\ UNCHANGED <<now, gen, lastSweep>>

CertTick == now < MaxTime /\ now' = now + 1 /\ UNCHANGED <<gen, sent, lastSweep, gauge, req>>

\* A reload replaces the generation; the cache goes with its last request, and its
\* entries with it.
Reload ==
  /\ gen + 1 \in Gens /\ gen' = gen + 1
  /\ UNCHANGED <<now, sent, lastSweep, gauge, req>>

CertNext ==
  \/ \E r \in Requests : \/ \E i \in Ips : take_full_cert_budget_for_ip(r, i)
                         \/ sweep_full_cert_sent_shards(r) \/ Take(r)
  \/ CertTick \/ Reload

CertSpec == CertInit /\ [][CertNext]_certVars

-----------------------------------------------------------------------------
Entries == {p \in Gens \X Ips : p[2] \in Tracked(p[1])}

\* cache.rs:228-251: concurrent sweeps, renewals and insertions keep the gauge equal to the
\* entries ever made and not removed, so the cap is neither passed nor reached too early.
GaugeExact == gauge = Cardinality(Entries) /\ gauge <= MaxIps
=============================================================================
