------------------------------- MODULE TlsFront -------------------------------
(***************************************************************************)
(* The profiles of the cover origin: src/src/tls_front/cache.rs and        *)
(* fetcher.rs, started by src/src/maestro/tls_bootstrap.rs.  Every runtime *)
(* generation has a cache of its own, filled from the shared directory and *)
(* by fetches; generations overlap during a reload, and share the files    *)
(* and the table of profiles that worked (PROFILE_CACHE).                  *)
(***************************************************************************)
EXTENDS Integers, Sequences, FiniteSets

CONSTANTS
  Gens,          \* runtime generations, and restarts of the process
  Domains,       \* tls_domains of every generation
  Profiles,      \* <<...>> censorship.tls_fetch.profiles; may be empty
  Bound,         \* tls_fingerprints: [Gens -> [Domains -> profile or "any"]]
  RequireReady,  \* the generations built with TlsBootstrapPolicy::RequireReady
  Fallback,      \* TlsFetchProfile::ModernChromeLike
  Compat,        \* TlsFetchProfile::CompatTls12
  StrictRoute,
  CacheTtl,      \* profile_cache_ttl is not zero
  WinnerCap,     \* PROFILE_CACHE_MAX_ENTRIES
  OldFiles,      \* what an earlier run may have left in the directory
  MaxRounds, MaxExpiries, MaxCrashes

VARIABLES
  phase, todo,        \* of a generation; the files it still has to read
  cache,              \* memory: [Gens -> [Domains -> entry]]
  task,               \* the fetch of a domain
  disk, writes,       \* the files; the writes handed to the blocking pool
  winners,            \* PROFILE_CACHE
  rounds, expiries, crashes

vars == <<phase, todo, cache, task, disk, writes, winners, rounds, expiries, crashes>>

\* own: the certificate names the domain.  A file also has an age.
NoEntry == [source |-> "default", profile |-> "none", cert |-> "none"]
Entry(s, p, c) == [source |-> s, profile |-> p, cert |-> c]
Absent == [state |-> "absent", data |-> NoEntry, old |-> FALSE]
Torn == [state |-> "torn", data |-> NoEntry, old |-> FALSE]
File(e) == [state |-> "whole", data |-> e, old |-> FALSE]
Finished == [pc |-> "done", order |-> <<>>, raw |-> "none", out |-> NoEntry]
Unknown == [profile |-> "none", fresh |-> FALSE]

Running(g) == phase[g] \in {"load", "fetch", "ready"}

Init ==
  /\ phase = [g \in Gens |-> "off"] /\ todo = [g \in Gens |-> {}]
  /\ cache = [g \in Gens |-> [d \in Domains |-> NoEntry]]
  /\ task = [g \in Gens |-> [d \in Domains |-> Finished]]
  /\ disk \in [Domains -> OldFiles] /\ writes = {}
  /\ winners = [d \in Domains |-> Unknown]
  /\ rounds = 0 /\ expiries = 0 /\ crashes = 0

-----------------------------------------------------------------------------
\* TlsFrontCache::new, and the listing of the directory.
Start(g) ==
  /\ phase[g] = "off" /\ \A h \in Gens : h < g => phase[h] # "off"
  /\ phase' = [phase EXCEPT ![g] = "load"]
  /\ todo' = [todo EXCEPT ![g] = Domains]
  /\ cache' = [cache EXCEPT ![g] = [d \in Domains |-> NoEntry]]
  /\ UNCHANGED <<task, disk, writes, winners, rounds, expiries, crashes>>

cert_info_matches_domain(e) == e.cert # "other"

load_from_disk(g, d) ==
  /\ phase[g] = "load" /\ d \in todo[g]
  /\ todo' = [todo EXCEPT ![g] = @ \ {d}]
  /\ cache' = IF disk[d].state = "whole" /\ cert_info_matches_domain(disk[d].data) /\ ~disk[d].old
              THEN [cache EXCEPT ![g][d] = disk[d].data] ELSE cache
  /\ UNCHANGED <<phase, task, disk, writes, winners, rounds, expiries, crashes>>

\* An entry kept although it says nothing of its profile.
KeepsUnlabelled(g) ==
  [cache EXCEPT ![g] = [d \in Domains |->
     IF Bound[g][d] # "any" /\ @[d] # NoEntry /\ @[d].profile \notin {"none", Bound[g][d]} THEN NoEntry ELSE @[d]]]

invalidate_profile_mismatches(g) ==
  [cache EXCEPT ![g] = [d \in Domains |->
     IF Bound[g][d] # "any" /\ @[d] # NoEntry /\ @[d].profile # Bound[g][d] THEN NoEntry ELSE @[d]]]

fetch_all(g) == [task EXCEPT ![g] = [d \in Domains |-> [Finished EXCEPT !.pc = "order"]]]

\* The cache is loaded; a best-effort generation serves while it fetches.
bootstrap_tls_front(g) ==
  /\ phase[g] = "load" /\ todo[g] = {}
  /\ cache' = invalidate_profile_mismatches(g)
  /\ phase' = [phase EXCEPT ![g] = IF g \in RequireReady THEN "fetch" ELSE "ready"]
  /\ task' = fetch_all(g)
  /\ UNCHANGED <<todo, disk, writes, winners, rounds, expiries, crashes>>

-----------------------------------------------------------------------------
\* strategy_for_fingerprint: a bound domain is probed with its profile and no other.
Strategy(g, d) == IF Bound[g][d] = "any" THEN Profiles ELSE <<Bound[g][d]>>
UsesWinners(g, d) == CacheTtl /\ Bound[g][d] = "any"

ToFront(s, i) == [s EXCEPT ![1] = s[i], ![i] = s[1]]

Ordered(g, d) ==
  LET s == IF Strategy(g, d) = <<>> THEN <<Compat>> ELSE Strategy(g, d)
      at == {i \in 1..Len(s) : s[i] = winners[d].profile} IN
    IF UsesWinners(g, d) /\ winners[d].fresh /\ at # {} THEN ToFront(s, CHOOSE i \in at : TRUE) ELSE s

order_profiles(g, d) ==
  /\ task[g][d].pc = "order"
  /\ task' = [task EXCEPT ![g][d].pc = "raw", ![g][d].order = Ordered(g, d)]
  /\ winners' = IF UsesWinners(g, d) /\ ~winners[d].fresh THEN [winners EXCEPT ![d] = Unknown] ELSE winners
  /\ UNCHANGED <<phase, todo, cache, disk, writes, rounds, expiries, crashes>>

\* The route is refused when the upstream cannot resolve or connect; without
\* strict_route it is left for a direct connection.
RouteErrors == IF StrictRoute THEN {"route"} ELSE {}
connect_tcp_with_upstream == RouteErrors \cup {"connect"}
fetch_via_raw_tls_stream == {"eof", "hello"}

remember_profile_success_with_cap(d, p) ==
  LET known == {e \in Domains : winners[e] # Unknown}
      swept == [e \in Domains |-> IF winners[e].fresh THEN winners[e] ELSE Unknown]
      kept == IF d \in known \/ Cardinality(known) < WinnerCap THEN winners ELSE swept IN
    IF d \in known \/ Cardinality({e \in Domains : kept[e] # Unknown}) < WinnerCap
    THEN [kept EXCEPT ![d] = [profile |-> p, fresh |-> TRUE]] ELSE kept

\* fetch_via_raw_tls with the next profile.
RawSucceeds(g, d) ==
  LET p == Head(task[g][d].order) IN
    /\ task[g][d].pc = "raw" /\ task[g][d].order # <<>>
    /\ task' = [task EXCEPT ![g][d].pc = "rustls", ![g][d].raw = p]
    /\ winners' = IF UsesWinners(g, d) THEN remember_profile_success_with_cap(d, p) ELSE winners
    /\ UNCHANGED <<phase, todo, cache, disk, writes, rounds, expiries, crashes>>

RawFails(g, d) ==
  /\ task[g][d].pc = "raw" /\ task[g][d].order # <<>>
  /\ \E kind \in connect_tcp_with_upstream \cup fetch_via_raw_tls_stream :
       LET rest == Tail(task[g][d].order) IN
         task' = [task EXCEPT
           ![g][d].order = rest,
           ![g][d].pc = IF kind = "route" THEN "done" ELSE IF rest = <<>> THEN "rustls" ELSE "raw"]
  /\ UNCHANGED <<phase, todo, cache, disk, writes, winners, rounds, expiries, crashes>>

\* total_budget is over before an attempt: what the raw probe gave is used, or nothing.
BudgetOver(g, d) ==
  /\ task[g][d].pc \in {"raw", "rustls"}
  /\ LET t == task[g][d] IN
       task' = [task EXCEPT ![g][d] = IF t.raw = "none" THEN Finished
                                     ELSE [t EXCEPT !.pc = "update", !.out = Entry("raw", t.raw, "none")]]
  /\ UNCHANGED <<phase, todo, cache, disk, writes, winners, rounds, expiries, crashes>>

\* Joining the raw shape and the certificate of fetch_via_rustls.
Merge(t, cert) ==
  IF t.raw # "none" THEN Entry("merged", t.raw, cert) ELSE Entry("rustls", Fallback, cert)

fetch_via_rustls(g, d) ==
  /\ task[g][d].pc = "rustls"
  /\ LET t == task[g][d] IN
       \/ \E cert \in {"none", "own", "other"} :
            task' = [task EXCEPT ![g][d].pc = "update", ![g][d].out = Merge(t, cert)]
       \/ task' = [task EXCEPT ![g][d] = IF t.raw = "none" THEN Finished
                                        ELSE [t EXCEPT !.pc = "update", !.out = Entry("raw", t.raw, "none")]]
  /\ UNCHANGED <<phase, todo, cache, disk, writes, winners, rounds, expiries, crashes>>

\* The entry is visible before its file is written.
update_from_fetch(g, d) ==
  /\ task[g][d].pc = "update"
  /\ cache' = [cache EXCEPT ![g][d] = task[g][d].out]
  /\ task' = [task EXCEPT ![g][d].pc = "persist"]
  /\ UNCHANGED <<phase, todo, disk, writes, winners, rounds, expiries, crashes>>

-----------------------------------------------------------------------------
\* tokio::fs::write runs on the blocking pool: dropping the task does not stop it.
persist(g, d) ==
  /\ task[g][d].pc = "persist"
  /\ writes' = writes \cup {[g |-> g, d |-> d, data |-> task[g][d].out, open |-> FALSE]}
  /\ task' = [task EXCEPT ![g][d].pc = "writing"]
  /\ UNCHANGED <<phase, todo, cache, disk, winners, rounds, expiries, crashes>>

\* Opening truncates the file.
OpenFile(w) ==
  /\ ~w.open
  /\ writes' = (writes \ {w}) \cup {[w EXCEPT !.open = TRUE]}
  /\ disk' = [disk EXCEPT ![w.d] = Torn]
  /\ UNCHANGED <<phase, todo, cache, task, winners, rounds, expiries, crashes>>

\* Two writers of one file may leave a mix of both; the write may also fail.
WriteFile(w) ==
  /\ w.open
  /\ writes' = writes \ {w}
  /\ disk' \in {[disk EXCEPT ![w.d] = File(w.data)], [disk EXCEPT ![w.d] = Torn]}
  /\ task' = IF task[w.g][w.d].pc = "writing" THEN [task EXCEPT ![w.g][w.d] = Finished] ELSE task
  /\ UNCHANGED <<phase, todo, cache, winners, rounds, expiries, crashes>>

\* create_dir_all fails: nothing is written.
PersistFails(g, d) ==
  /\ task[g][d].pc = "persist"
  /\ task' = [task EXCEPT ![g][d] = Finished]
  /\ UNCHANGED <<phase, todo, cache, disk, writes, winners, rounds, expiries, crashes>>

-----------------------------------------------------------------------------
AllDone(g) == \A d \in Domains : task[g][d].pc = "done"
default_profile_domains(g) == {d \in Domains : cache[g][d] = NoEntry}

\* fetch_all_with_budget: at the deadline the JoinSet is dropped, and every fetch with it.
Deadline(g) ==
  /\ phase[g] \in {"fetch", "ready"} /\ ~AllDone(g)
  /\ task' = [task EXCEPT ![g] = [d \in Domains |-> Finished]]
  /\ UNCHANGED <<phase, todo, cache, disk, writes, winners, rounds, expiries, crashes>>

\* The end of bootstrap_tls_front under RequireReady.
Conclude(g) ==
  /\ phase[g] = "fetch" /\ AllDone(g)
  /\ phase' = [phase EXCEPT ![g] = IF default_profile_domains(g) = {} THEN "ready" ELSE "failed"]
  /\ UNCHANGED <<todo, cache, task, disk, writes, winners, rounds, expiries, crashes>>

\* The refresh loop, after hours.
Refresh(g) ==
  /\ phase[g] = "ready" /\ AllDone(g) /\ rounds < MaxRounds
  /\ rounds' = rounds + 1
  /\ task' = fetch_all(g)
  /\ UNCHANGED <<phase, todo, cache, disk, writes, winners, expiries, crashes>>

\* The generation's task scope is cancelled.
Retire(g) ==
  /\ Running(g) /\ phase' = [phase EXCEPT ![g] = "gone"]
  /\ task' = [task EXCEPT ![g] = [d \in Domains |-> Finished]]
  /\ todo' = [todo EXCEPT ![g] = {}]
  /\ cache' = [cache EXCEPT ![g] = [d \in Domains |-> NoEntry]]
  /\ UNCHANGED <<disk, writes, winners, rounds, expiries, crashes>>

\* The process stops; a file being written stays truncated.
Crash ==
  /\ crashes < MaxCrashes /\ crashes' = crashes + 1
  /\ phase' = [g \in Gens |-> IF phase[g] = "off" THEN "off" ELSE "gone"]
  /\ todo' = [g \in Gens |-> {}]
  /\ cache' = [g \in Gens |-> [d \in Domains |-> NoEntry]]
  /\ task' = [g \in Gens |-> [d \in Domains |-> Finished]]
  /\ writes' = {} /\ winners' = [d \in Domains |-> Unknown]
  /\ UNCHANGED <<disk, rounds, expiries>>

\* A remembered profile passes its lifetime, or a file its 72 hours.
Expire(d) ==
  /\ expiries < MaxExpiries /\ expiries' = expiries + 1
  /\ \/ winners[d].fresh /\ winners' = [winners EXCEPT ![d].fresh = FALSE] /\ UNCHANGED disk
     \/ disk[d].state = "whole" /\ ~disk[d].old /\ disk' = [disk EXCEPT ![d].old = TRUE] /\ UNCHANGED winners
  /\ UNCHANGED <<phase, todo, cache, task, writes, rounds, crashes>>

TaskStep(g, d) ==
  \/ order_profiles(g, d) \/ RawSucceeds(g, d) \/ RawFails(g, d) \/ BudgetOver(g, d)
  \/ fetch_via_rustls(g, d) \/ update_from_fetch(g, d) \/ persist(g, d) \/ PersistFails(g, d)

Next ==
  \/ \E g \in Gens : \/ Start(g) \/ bootstrap_tls_front(g) \/ Deadline(g) \/ Conclude(g) \/ Refresh(g) \/ Retire(g)
                     \/ \E d \in Domains : load_from_disk(g, d) \/ TaskStep(g, d)
  \/ \E w \in writes : OpenFile(w) \/ WriteFile(w)
  \/ \E d \in Domains : Expire(d)
  \/ Crash

Spec == Init /\ [][Next]_vars

-----------------------------------------------------------------------------
\* tls_bootstrap.rs:216: a generation built with RequireReady serves no domain with the
\* built-in profile, from the moment it is accepted and through every later refresh.
ReadyMeansProfiled ==
  \A g \in RequireReady : phase[g] = "ready" => default_profile_domains(g) = {}

\* cache.rs:396, tls_bootstrap.rs:99: once a generation has left loading, a domain bound to a
\* fingerprint shows no shape captured with another profile or with an unknown one - whatever
\* files other generations wrote and whichever profile won elsewhere.  (The certificate-only
\* fallback of fetch_via_rustls captures no shape.)
BoundShapeIsOwn ==
  \A g \in Gens, d \in Domains :
    (phase[g] \in {"fetch", "ready"} /\ Bound[g][d] # "any" /\ cache[g][d].source \in {"raw", "merged"})
      => cache[g][d].profile = Bound[g][d]
=============================================================================
