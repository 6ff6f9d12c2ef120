--------------------------- MODULE ClientHandshake ---------------------------
(***************************************************************************)
(* The client handshakes (src/src/proxy/handshake/) and the state they     *)
(* share: the table of failing peers with its global saturation mark, the  *)
(* replay checker (src/src/stats/replay.rs), and the hints that order the  *)
(* search for the user whose secret signed a hello.  Connections run       *)
(* concurrently; each step below is one critical section of the code.      *)
(* A hello is a record of what the code tells apart in it; secrets are     *)
(* their owners.                                                           *)
(***************************************************************************)
EXTENDS Integers, Sequences, FiniteSets, SequencesExt

CONSTANTS
  Conns, Peers, Hellos,
  Snapshots,                 \* user lists of the successive configurations
  Denied,                    \* access.user_source_deny: pairs <<user, peer>>
  SniAction,                 \* unknown_sni_action
  StartFails, GraceFails, BackoffMax, Retention, MaxEntries, ScanLimit, PruneRounds,
  Window, ShardCap,
  TrackCap, HintedBudget, UnhintedBudget, ScanThreshold, RingSize, HintMax,
  MaxTime, MaxArrivals

VARIABLES
  now, arrivals,
  config,      \* index of the current snapshot
  conn,        \* [pc, peer, hello, snap, match, then, rounds]
  probe,       \* handshake.auth_probe: peer -> [streak, until, seen]
  saturation,  \* handshake.auth_probe_saturation
  tlsShard, mtShard,   \* ReplayChecker
  byIp, byPrefix, bySni, ring,  \* sticky hints and recent users
  fails,       \* history: failures of a peer since its last success
  sessions     \* history: <<nonce, time>> of the accepted handshakes

shared == <<probe, saturation, tlsShard, mtShard, byIp, byPrefix, bySni, ring, fails, sessions>>
vars == <<now, arrivals, config, conn, shared>>

NoSaturation == [streak |-> 0, until |-> 0, seen |-> 0]
EmptyShard == [cache |-> <<>>, queue |-> <<>>, seq |-> 0]
NoHello == CHOOSE h \in Hellos : TRUE
Idle == [pc |-> "idle", peer |-> CHOOSE p \in Peers : TRUE, hello |-> NoHello,
         snap |-> 1, match |-> 0, then |-> "idle", rounds |-> 0]

Init ==
  /\ now = 0 /\ arrivals = 0 /\ config = 1
  /\ conn = [c \in Conns |-> Idle]
  /\ probe = <<>> /\ saturation = NoSaturation
  /\ tlsShard = EmptyShard /\ mtShard = EmptyShard
  /\ byIp = <<>> /\ byPrefix = 0 /\ bySni = <<>> /\ ring = <<>>
  /\ fails = [p \in Peers |-> 0] /\ sessions = <<>>

Min2(a, b) == IF a < b THEN a ELSE b
Without(f, S) == [x \in DOMAIN f \ S |-> f[x]]
With(f, k, v) == [x \in DOMAIN f \union {k} |-> IF x = k THEN v ELSE f[x]]

-----------------------------------------------------------------------------
(***************************************************************************)
(* The table of failing peers (auth_probe.rs).                             *)
(***************************************************************************)
auth_probe_backoff(streak) ==
  IF streak < StartFails THEN 0 ELSE Min2(2 ^ Min2(streak - StartFails, 10), BackoffMax)

auth_probe_state_expired(e) == now - e.seen > Retention

NewEntry == [streak |-> 1, until |-> now + auth_probe_backoff(1), seen |-> now]

\* update_existing.
Failed(e) ==
  IF auth_probe_state_expired(e) THEN NewEntry
  ELSE [streak |-> e.streak + 1, until |-> now + auth_probe_backoff(e.streak + 1), seen |-> now]

auth_probe_is_throttled_in(p) ==
  p \in DOMAIN probe /\ ~auth_probe_state_expired(probe[p]) /\ now < probe[p].until

auth_probe_saturation_is_throttled_in ==
  /\ saturation # NoSaturation /\ now - saturation.seen <= Retention
  /\ now < saturation.until

auth_probe_saturation_grace_exhausted_in(p) ==
  probe[p].streak >= StartFails + GraceFails

auth_probe_should_apply_preauth_throttle_in(p) ==
  /\ auth_probe_is_throttled_in(p)
  /\ auth_probe_saturation_is_throttled_in => auth_probe_saturation_grace_exhausted_in(p)

\* A look at an expired entry, or at an expired mark, drops it.
LooksAt(p) ==
  /\ probe' = IF p \in DOMAIN probe /\ auth_probe_state_expired(probe[p])
              THEN Without(probe, {p}) ELSE probe
  /\ saturation' = IF /\ auth_probe_is_throttled_in(p)
                      /\ now - saturation.seen > Retention
                   THEN NoSaturation ELSE saturation

auth_probe_note_saturation_in ==
  IF saturation # NoSaturation /\ now - saturation.seen <= Retention
  THEN [streak |-> saturation.streak + 1, seen |-> now,
        until |-> now + auth_probe_backoff(saturation.streak + 1)]
  ELSE [streak |-> StartFails, seen |-> now, until |-> now + auth_probe_backoff(StartFails)]

auth_probe_note_expensive_invalid_scan_in(checks, overload) ==
  IF overload \/ checks < ScanThreshold THEN saturation ELSE auth_probe_note_saturation_in

\* The entry of a scanned part of the table with the fewest failures, the oldest of those.
Candidates(W) ==
  {p \in W : \A q \in W : \/ probe[p].streak < probe[q].streak
                          \/ probe[p].streak = probe[q].streak /\ probe[p].seen <= probe[q].seen}

Windows == {W \in SUBSET DOMAIN probe : Cardinality(W) = Min2(ScanLimit, Cardinality(DOMAIN probe))}

Go(c, step) == conn' = [conn EXCEPT ![c].pc = step]
Fails(c, then) == conn' = [conn EXCEPT ![c].pc = "record", ![c].then = then, ![c].rounds = 0]
others == <<tlsShard, mtShard, byIp, byPrefix, bySni, ring, sessions>>

\* auth_probe_record_failure_with_state_in: an existing entry is updated in place.
RecordFailure(c) ==
  LET p == conn[c].peer IN
  /\ conn[c].pc = "record"
  /\ IF p \in DOMAIN probe
     THEN /\ probe' = With(probe, p, Failed(probe[p]))
          /\ fails' = [fails EXCEPT ![p] = @ + 1]
          /\ Go(c, conn[c].then)
     ELSE Go(c, "prune") /\ UNCHANGED <<probe, fails>>
  /\ UNCHANGED <<now, arrivals, config, saturation, others>>

\* One round of the loop that makes room; the last one evicts whatever it finds.
PruneRound(c) ==
  /\ conn[c].pc = "prune" /\ Cardinality(DOMAIN probe) >= MaxEntries
  /\ conn' = [conn EXCEPT ![c].rounds = @ + 1,
                          ![c].pc = IF conn[c].rounds >= PruneRounds THEN "insert" ELSE "prune"]
  /\ \E W \in Windows : \E e \in Candidates(W) :
       LET stale == {p \in W : auth_probe_state_expired(probe[p])}
           room == Cardinality(DOMAIN probe \ stale) < MaxEntries
           last == conn[c].rounds >= PruneRounds IN
       /\ probe' = Without(probe, IF last THEN {e} ELSE IF room THEN stale ELSE stale \union {e})
       /\ saturation' = IF room /\ ~last THEN saturation ELSE auth_probe_note_saturation_in
  /\ UNCHANGED <<now, arrivals, config, fails, others>>

PruneDone(c) ==
  /\ conn[c].pc = "prune" /\ Cardinality(DOMAIN probe) < MaxEntries
  /\ Go(c, "insert")
  /\ UNCHANGED <<now, arrivals, config, shared>>

\* Between the look at the size and the insertion other connections insert too.
InsertFailure(c) ==
  LET p == conn[c].peer IN
  /\ conn[c].pc = "insert"
  /\ probe' = With(probe, p, IF p \in DOMAIN probe THEN Failed(probe[p]) ELSE NewEntry)
  /\ fails' = [fails EXCEPT ![p] = @ + 1]
  /\ Go(c, conn[c].then)
  /\ UNCHANGED <<now, arrivals, config, saturation, others>>

SuccessKeepsEntry(p) ==
  /\ fails' = [fails EXCEPT ![p] = 0] /\ UNCHANGED probe

auth_probe_record_success_in(p) ==
  /\ probe' = Without(probe, {p})
  /\ fails' = [fails EXCEPT ![p] = 0]

-----------------------------------------------------------------------------
(***************************************************************************)
(* One shard of the replay checker (replay.rs): a cache, and a queue of    *)
(* what was put into it and when.                                          *)
(***************************************************************************)
\* evict_queue_front: a queue entry takes its cache entry along, if it is still its own.
evict_queue_front(s) ==
  LET h == Head(s.queue) IN
  [s EXCEPT !.queue = Tail(@),
            !.cache = IF h.key \in DOMAIN @ /\ @[h.key] = h.seq THEN Without(@, {h.key}) ELSE @]

Evict(s, n) == FoldLeft(LAMBDA t, i : evict_queue_front(t), s, [i \in 1..n |-> i])

Expired(s) == Cardinality({i \in DOMAIN s.queue : s.queue[i].at < now - Window})
ExpiredEarly(s) == Cardinality({i \in DOMAIN s.queue : s.queue[i].at <= now - Window})

CleanupEarly(s) == Evict(s, ExpiredEarly(s))
cleanup(s) == Evict(s, Expired(s))

check(s, key) == key \in DOMAIN cleanup(s).cache

add_owned(s, key) ==
  LET t == cleanup(s)
      r == Evict(t, IF Len(t.queue) < ShardCap THEN 0 ELSE Len(t.queue) - ShardCap + 1) IN
  IF key \in DOMAIN t.cache THEN t
  ELSE [cache |-> With(r.cache, key, r.seq + 1), seq |-> r.seq + 1,
        queue |-> Append(r.queue, [at |-> now, key |-> key, seq |-> r.seq + 1])]

\* run_periodic_cleanup.
run_periodic_cleanup ==
  /\ tlsShard' = cleanup(tlsShard) /\ mtShard' = cleanup(mtShard)
  /\ UNCHANGED <<now, arrivals, config, conn, probe, saturation, byIp, byPrefix, bySni, ring,
                 fails, sessions>>

-----------------------------------------------------------------------------
(***************************************************************************)
(* The search for the owner of a hello (auth_candidates.rs,                *)
(* tls_validation.rs, mtproto.rs).  A user id is a position in the         *)
(* snapshot the connection works with; hints may come from another one.    *)
(***************************************************************************)
Ids(snap, S) == SelectSeq([i \in DOMAIN snap |-> i], LAMBDA i : snap[i] \in S)
Hint(f, k) == IF k \in DOMAIN f THEN <<f[k]>> ELSE <<>>

budget_for_validation(total, overload, hinted) ==
  IF ~overload THEN total ELSE Min2(total, IF hinted THEN HintedBudget ELSE UnhintedBudget)

\* try_user_id!, with mark_candidate_if_new: ids past TrackCap are not remembered.
TryUser(snap, owner, budget, st, id) ==
  IF st.match # 0 \/ st.exhausted THEN st
  ELSE IF st.checks >= budget THEN [st EXCEPT !.exhausted = TRUE]
  ELSE IF Contains(st.tried, id) THEN st
  ELSE [st EXCEPT !.tried = IF Len(@) < TrackCap THEN Append(@, id) ELSE @,
                  !.checks = IF id \in DOMAIN snap THEN @ + 1 ELSE @,
                  !.match = IF id \in DOMAIN snap /\ snap[id] = owner THEN id ELSE 0]

Scan(snap, owner, budget, ids) ==
  FoldLeft(LAMBDA st, id : TryUser(snap, owner, budget, st, id),
           [match |-> 0, checks |-> 0, exhausted |-> FALSE, tried |-> <<>>], ids)

\* The hints that count as such, then the recent users, then everybody.
TlsHints(c) ==
  LET h == conn[c].hello
      snap == Snapshots[conn[c].snap] IN
  Hint(byIp, conn[c].peer) \o Ids(snap, {h.sni}) \o Hint(bySni, h.sni)
    \o (IF byPrefix = 0 THEN <<>> ELSE <<byPrefix>>) \o Ids(snap, h.kin)

MtHints(c) ==
  LET snap == Snapshots[conn[c].snap] IN
  Hint(byIp, conn[c].peer)
    \o (IF conn[c].hello.tls /\ conn[c].match # 0 THEN <<conn[c].match>> ELSE <<>>)
    \o (IF byPrefix = 0 THEN <<>> ELSE <<byPrefix>>)

Search(c, hints) ==
  LET snap == Snapshots[conn[c].snap]
      budget == budget_for_validation(Len(snap), auth_probe_saturation_is_throttled_in, hints # <<>>) IN
  Scan(snap, conn[c].hello.owner, budget, hints \o Reverse(ring) \o [i \in DOMAIN snap |-> i])

\* The outcome of a search: who matched goes on, a source address may be refused to them.
Searched(c, hints, next) ==
  LET r == Search(c, hints)
      snap == Snapshots[conn[c].snap] IN
  /\ IF r.match # 0 /\ <<snap[r.match], conn[c].peer>> \notin Denied
     THEN /\ conn' = [conn EXCEPT ![c].pc = next, ![c].match = r.match]
          /\ UNCHANGED saturation
     ELSE /\ conn' = [conn EXCEPT ![c].pc = "record", ![c].rounds = 0,
                                  ![c].then = IF r.match = 0 THEN "unknown" ELSE "bad"]
          /\ saturation' = IF r.match # 0 THEN saturation
                           ELSE auth_probe_note_expensive_invalid_scan_in(r.checks,
                                  auth_probe_saturation_is_throttled_in)
  /\ UNCHANGED <<now, arrivals, config, probe, fails, others>>

\* sticky_hint_record_success_in: a full table is cleared before the insertion.
Stick(f, k, id) == With(IF Cardinality(DOMAIN f) > HintMax THEN <<>> ELSE f, k, id)

\* record_recent_user_success_in.
record_recent_user_success_in(id) ==
  ring' = Append(IF Len(ring) = RingSize THEN Tail(ring) ELSE ring, id)

Remember(c, sni) ==
  /\ byIp' = Stick(byIp, conn[c].peer, conn[c].match)
  /\ byPrefix' = conn[c].match
  /\ bySni' = IF sni = "none" THEN bySni ELSE Stick(bySni, sni, conn[c].match)
  /\ record_recent_user_success_in(conn[c].match)

-----------------------------------------------------------------------------
(***************************************************************************)
(* The FakeTLS handshake (tls_handshake.rs).                               *)
(***************************************************************************)
Arrive(c) ==
  /\ conn[c].pc = "idle" /\ arrivals < MaxArrivals
  /\ arrivals' = arrivals + 1
  /\ \E p \in Peers, h \in Hellos :
       conn' = [conn EXCEPT ![c] = [Idle EXCEPT !.peer = p, !.hello = h, !.snap = config,
                                      !.pc = IF h.tls THEN "tls_throttle" ELSE "mt_throttle"]]
  /\ UNCHANGED <<now, config, shared>>

Throttle(c, next) ==
  /\ Go(c, IF auth_probe_should_apply_preauth_throttle_in(conn[c].peer) THEN "throttled" ELSE next)
  /\ LooksAt(conn[c].peer)
  /\ UNCHANGED <<now, arrivals, config, fails, others>>

TlsThrottle(c) == conn[c].pc = "tls_throttle" /\ Throttle(c, "tls_policy")

\* A short hello, an unsupported ALPN list and an unknown name are settled without a search.
TlsPolicy(c) ==
  LET h == conn[c].hello
      snap == Snapshots[conn[c].snap]
      unknown == h.sni \notin {"none", "domain"} \union {snap[i] : i \in DOMAIN snap} IN
  /\ conn[c].pc = "tls_policy"
  /\ CASE h.short -> Fails(c, "bad")
       [] ~h.short /\ h.alpn = "unsupported" -> Go(c, "bad")
       [] ~h.short /\ h.alpn # "unsupported" /\ unknown /\ SniAction # "accept" ->
            Fails(c, IF SniAction = "mask" THEN "bad" ELSE "error")
       [] OTHER -> Go(c, "tls_scan")
  /\ UNCHANGED <<now, arrivals, config, shared>>

TlsScan(c) == conn[c].pc = "tls_scan" /\ Searched(c, TlsHints(c), "tls_replay")

\* check_tls_digest; the profile of the front is awaited after it.
TlsReplay(c) ==
  /\ conn[c].pc = "tls_replay"
  /\ tlsShard' = cleanup(tlsShard)
  /\ IF check(tlsShard, conn[c].hello.digest) THEN Fails(c, "bad") ELSE Go(c, "tls_offer")
  /\ UNCHANGED <<now, arrivals, config, probe, saturation, mtShard, byIp, byPrefix, bySni, ring,
                 fails, sessions>>

\* No usable key share, or no cipher suite in common.
TlsOffer(c) ==
  /\ conn[c].pc = "tls_offer"
  /\ IF conn[c].hello.usable THEN Go(c, "tls_add") ELSE Fails(c, "bad")
  /\ UNCHANGED <<now, arrivals, config, shared>>

TlsAdd(c) ==
  /\ conn[c].pc = "tls_add"
  /\ tlsShard' = add_owned(tlsShard, conn[c].hello.digest)
  /\ Go(c, "tls_write")
  /\ UNCHANGED <<now, arrivals, config, probe, saturation, mtShard, byIp, byPrefix, bySni, ring,
                 fails, sessions>>

TlsWritten(c) ==
  /\ conn[c].pc = "tls_write"
  /\ auth_probe_record_success_in(conn[c].peer)
  /\ Remember(c, conn[c].hello.sni)
  /\ Go(c, "mt_throttle")
  /\ UNCHANGED <<now, arrivals, config, saturation, tlsShard, mtShard, sessions>>

TlsWriteFails(c) ==
  /\ conn[c].pc = "tls_write"
  /\ Go(c, "error")
  /\ UNCHANGED <<now, arrivals, config, shared>>

(***************************************************************************)
(* The obfuscated handshake, alone or inside FakeTLS (mtproto.rs).         *)
(***************************************************************************)
MtThrottle(c) == conn[c].pc = "mt_throttle" /\ Throttle(c, "mt_scan")

MtScan(c) == conn[c].pc = "mt_scan" /\ Searched(c, MtHints(c), "mt_replay")

\* check_and_add_handshake: one critical section.
MtReplay(c) ==
  LET n == conn[c].hello.nonce
      found == check(mtShard, n) IN
  /\ conn[c].pc = "mt_replay"
  /\ mtShard' = IF found THEN cleanup(mtShard) ELSE add_owned(mtShard, n)
  /\ sessions' = IF found THEN sessions ELSE Append(sessions, <<n, now>>)
  /\ IF found THEN Fails(c, "bad") ELSE Go(c, "mt_done")
  /\ UNCHANGED <<now, arrivals, config, probe, saturation, tlsShard, byIp, byPrefix, bySni, ring, fails>>

MtDone(c) ==
  /\ conn[c].pc = "mt_done"
  /\ auth_probe_record_success_in(conn[c].peer)
  /\ Remember(c, "none")
  /\ Go(c, "accepted")
  /\ UNCHANGED <<now, arrivals, config, saturation, tlsShard, mtShard, sessions>>

\* The connection is masked, dropped or relayed.
Leave(c) ==
  /\ conn[c].pc \in {"throttled", "bad", "unknown", "error", "accepted"}
  /\ conn' = [conn EXCEPT ![c] = Idle]
  /\ UNCHANGED <<now, arrivals, config, shared>>

Reload ==
  /\ config < Len(Snapshots) /\ config' = config + 1
  /\ UNCHANGED <<now, arrivals, conn, shared>>

Tick ==
  /\ now < MaxTime /\ now' = now + 1
  /\ UNCHANGED <<arrivals, config, conn, shared>>

Step(c) ==
  \/ Arrive(c) \/ TlsThrottle(c) \/ TlsPolicy(c) \/ TlsScan(c) \/ TlsReplay(c) \/ TlsOffer(c)
  \/ TlsAdd(c) \/ TlsWritten(c) \/ TlsWriteFails(c) \/ MtThrottle(c) \/ MtScan(c) \/ MtReplay(c)
  \/ MtDone(c) \/ Leave(c) \/ RecordFailure(c) \/ PruneRound(c) \/ PruneDone(c) \/ InsertFailure(c)

Next == (\E c \in Conns : Step(c)) \/ Reload \/ Tick \/ run_periodic_cleanup

Spec == Init /\ [][Next]_vars

-----------------------------------------------------------------------------
\* A peer is refused without a look at its hello only after StartFails
\* failures since it last succeeded, however entries were evicted, expired and
\* saturation came and went meanwhile (auth_probe_should_apply_preauth_throttle_in).
ThrottledOnlyAfterFailures ==
  [][\A c \in Conns : conn[c].pc \in {"tls_throttle", "mt_throttle"} /\ conn'[c].pc = "throttled"
                        => fails[conn[c].peer] >= StartFails]_vars

\* Two concurrent connections that present the same obfuscated handshake do
\* not both become sessions within the replay window, although both may pass
\* the check of the TLS digest, which is made before an await and recorded
\* after it (check_and_add_handshake).
OneSessionPerHandshake ==
  \A i, j \in DOMAIN sessions :
    i < j /\ sessions[i][1] = sessions[j][1] => sessions[j][2] - sessions[i][2] > Window

\* Without saturation the search finds every user of the snapshot the
\* connection works with, whatever other snapshots left in the hints and in the
\* ring of recent users (validate_tls_client, handle_mtproto_handshake_impl);
\* the ids tried by way of hints must fit the array that remembers them.
SearchFindsUser ==
  [][\A c \in Conns :
       LET snap == Snapshots[conn[c].snap] IN
       (/\ conn[c].pc \in {"tls_scan", "mt_scan"} /\ conn'[c].then = "unknown"
        /\ \E i \in DOMAIN snap : snap[i] = conn[c].hello.owner)
       => auth_probe_saturation_is_throttled_in]_vars

\* Connections that found room at the same time overrun the table by at most
\* one entry each (auth_probe_record_failure_with_state_in).
ProbeTableBounded ==
  Cardinality(DOMAIN probe) <= MaxEntries - 1 + Cardinality(Conns)
=============================================================================
