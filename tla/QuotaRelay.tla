------------------------------ MODULE QuotaRelay ------------------------------
(***************************************************************************)
(* The data quota of one user, shared by all sessions of the user          *)
(* (src/src/stats/quota_store.rs): Direct sessions reserve what a poll may *)
(* move and refund what it did not (src/src/proxy/relay/io.rs), Middle     *)
(* sessions reserve whole frames (src/src/proxy/middle_relay/quota.rs),    *)
(* the API resets the counter, and the state file carries it over a        *)
(* restart (src/src/quota_state.rs).                                       *)
(***************************************************************************)
EXTENDS UnitSums

CONSTANTS
  Direct, Middle,    \* sessions of the user on either route
  Limit, Overshoot,  \* user_data_quota, me_quota_soft_overshoot_bytes
  Sizes,             \* bytes a poll or a frame can want to move
  Savers,            \* requests that write the state file
  Second,            \* second of the clock at which each of them writes
  MaxResets, MaxCrashes

ASSUME QuotaAssumption ==
  /\ IsFiniteSet(Direct) /\ IsFiniteSet(Middle) /\ Limit \in Nat /\ Overshoot \in Nat
  /\ Sizes \subseteq Nat /\ Savers \subseteq Nat \ {0}

VARIABLES
  quotaUsed, \* UserQuotaCounters.used_bytes
  sess,
  charged,   \* bytes that were moved, or given up by a Middle session, since the last reset
  raced,     \* a reset met a reservation in flight, or the counter came from the file
  quotaResets, crashes,
  saver, inode, tmp, path

quota == <<quotaUsed, sess, charged, raced>>
disk == <<saver, inode, tmp, path>>
quotaVars == <<quota, quotaResets, crashes, disk>>

QuotaSessions == Direct \cup Middle
None == 0           \* no file; savers are positive numbers
Part == -1          \* a file that is not written yet
FreshSession == [pc |-> "idle", dir |-> "up", want |-> 0, seen |-> 0, reserved |-> 0, over |-> FALSE]

QuotaInit ==
  /\ quotaUsed = 0 /\ sess = [s \in QuotaSessions |-> FreshSession] /\ charged = 0 /\ raced = FALSE
  /\ quotaResets = 0 /\ crashes = 0
  /\ saver = [v \in Savers |-> [pc |-> "idle", snap |-> 0, file |-> None]]
  /\ inode = [v \in Savers |-> Part] /\ tmp = [v \in Savers |-> None] /\ path = None

Left(limit) == IF quotaUsed >= limit THEN 0 ELSE limit - quotaUsed
refund(total, bytes) == IF bytes >= total THEN 0 ELSE total - bytes
At(s, step) == sess[s].pc = step
To(s, step) == IF step \in {"idle", "closed"} THEN [FreshSession EXCEPT !.pc = step, !.over = sess[s].over]
               ELSE [sess[s] EXCEPT !.pc = step]
LimitOf(s) == Limit + (IF s \in Middle /\ sess[s].dir = "down" THEN Overshoot ELSE 0)
Min2(a, b) == IF a < b THEN a ELSE b

-----------------------------------------------------------------------------
(***************************************************************************)
(* One poll of a Direct session: StatsIo.poll_read and poll_write.         *)
(***************************************************************************)
Poll(s) ==
  /\ s \in Direct /\ At(s, "idle")
  /\ IF sess[s].over THEN sess' = [sess EXCEPT ![s] = To(s, "closed")]
     ELSE \E d \in {"up", "down"}, n \in Sizes :
            sess' = [sess EXCEPT ![s] = [To(s, "load") EXCEPT !.dir = d, !.want = n]]
  /\ UNCHANGED <<quotaUsed, charged, raced>>

LoadRemaining(s) ==
  /\ At(s, "load")
  /\ sess' = [sess EXCEPT ![s] =
       IF Left(Limit) = 0 THEN [To(s, "closed") EXCEPT !.over = TRUE]
       ELSE [To(s, "try") EXCEPT !.want = Min2(@, Left(Limit))]]
  /\ UNCHANGED <<quotaUsed, charged, raced>>

\* try_reserve: a load, then compare_exchange_weak.
TryReserve(s) ==
  /\ At(s, "try")
  /\ IF sess[s].want <= Left(LimitOf(s))
     THEN sess' = [sess EXCEPT ![s] = [To(s, "cas") EXCEPT !.seen = quotaUsed]]
     ELSE IF s \in Direct /\ sess[s].dir = "down"
          THEN \E step \in {"load", "idle"} : sess' = [sess EXCEPT ![s] = To(s, step)]
          ELSE sess' = [sess EXCEPT ![s] = [To(s, "closed") EXCEPT !.over = TRUE]]
  /\ UNCHANGED <<quotaUsed, charged, raced>>

ExchangeBlind(s) ==
  /\ At(s, "cas") /\ quotaUsed' = sess[s].seen + sess[s].want
  /\ sess' = [sess EXCEPT ![s] = [To(s, "io") EXCEPT !.seen = 0, !.reserved = sess[s].want]]
  /\ UNCHANGED <<charged, raced>>

Exchange(s) ==
  /\ At(s, "cas") /\ quotaUsed = sess[s].seen
  /\ quotaUsed' = quotaUsed + sess[s].want
  /\ sess' = [sess EXCEPT ![s] = [To(s, "io") EXCEPT !.seen = 0, !.reserved = sess[s].want]]
  /\ UNCHANGED <<charged, raced>>

\* Contention: again, from the load for a write, or later when the rounds are over.
Contended(s) ==
  /\ At(s, "cas")
  /\ \E step \in {"try", IF s \in Direct THEN "idle" ELSE "closed"}
                 \cup (IF s \in Direct /\ sess[s].dir = "down" THEN {"load"} ELSE {}) :
       sess' = [sess EXCEPT ![s] = To(s, step)]
  /\ UNCHANGED <<quotaUsed, charged, raced>>

\* The inner read or write: bytes, nothing yet, or an error.
InnerIo(s) ==
  /\ s \in Direct /\ At(s, "io")
  /\ \E n \in 0..sess[s].reserved :
       /\ quotaUsed' = refund(quotaUsed, sess[s].reserved - n)
       /\ charged' = charged + n
       /\ \E step \in IF n > 0 THEN {"after"} ELSE {"idle", "closed"} :
            sess' = [sess EXCEPT ![s] = [To(s, step) EXCEPT !.reserved = 0]]
  /\ UNCHANGED raced

\* A read looks at the counter again; a write may skip it far from the limit.
CheckAfter(s) ==
  /\ At(s, "after")
  /\ \/ sess' = [sess EXCEPT ![s] = [To(s, "idle") EXCEPT !.over = @ \/ quotaUsed >= Limit]]
     \/ sess[s].dir = "down" /\ sess' = [sess EXCEPT ![s] = To(s, "idle")]
  /\ UNCHANGED <<quotaUsed, charged, raced>>

\* The watchdog of the relay: quota reached, or idle for too long.
Watchdog(s) ==
  /\ s \in Direct /\ At(s, "idle")
  /\ sess' = [sess EXCEPT ![s] = To(s, "closed")]
  /\ UNCHANGED <<quotaUsed, charged, raced>>

-----------------------------------------------------------------------------
(***************************************************************************)
(* A frame of a Middle session: charged whole, never refunded.             *)
(***************************************************************************)
Frame(s) ==
  /\ s \in Middle /\ At(s, "idle")
  /\ \E d \in {"up", "down"}, n \in Sizes :
       sess' = [sess EXCEPT ![s] = [To(s, "try") EXCEPT !.dir = d, !.want = n]]
  /\ UNCHANGED <<quotaUsed, charged, raced>>

FrameIo(s) ==
  /\ s \in Middle /\ At(s, "io")
  /\ charged' = charged + sess[s].reserved
  /\ \E step \in {"idle", "closed"} :
       sess' = [sess EXCEPT ![s] = [To(s, step) EXCEPT !.reserved = 0]]
  /\ UNCHANGED <<quotaUsed, raced>>

QuotaStep(s) ==
  Poll(s) \/ LoadRemaining(s) \/ TryReserve(s) \/ Exchange(s) \/ Contended(s) \/ InnerIo(s)
  \/ CheckAfter(s) \/ Watchdog(s) \/ Frame(s) \/ FrameIo(s)

-----------------------------------------------------------------------------
(***************************************************************************)
(* The state file: reset_user_quota of the API and the save at shutdown.   *)
(***************************************************************************)
Inflight == \E s \in QuotaSessions : sess[s].reserved > 0 \/ At(s, "cas")

ResetQuota(v) ==
  /\ saver[v].pc = "idle" /\ quotaResets < MaxResets
  /\ quotaUsed' = 0 /\ charged' = 0 /\ raced' = (raced \/ Inflight) /\ quotaResets' = quotaResets + 1
  /\ saver' = [saver EXCEPT ![v].pc = "snap"]
  /\ UNCHANGED <<sess, crashes, inode, tmp, path>>

SaveAtShutdown(v) ==
  /\ saver[v].pc = "idle" /\ saver' = [saver EXCEPT ![v].pc = "snap"]
  /\ UNCHANGED <<quota, quotaResets, crashes, inode, tmp, path>>

Snapshot(v) ==
  /\ saver[v].pc = "snap"
  /\ saver' = [saver EXCEPT ![v].pc = "create", ![v].snap = quotaUsed]
  /\ UNCHANGED <<quota, quotaResets, crashes, inode, tmp, path>>

\* File::create truncates the file of that name if there is one.
Named(v) == {u \in Savers : tmp[u] # None /\ Second[u] = Second[v]}
CreateTmp(v) ==
  /\ saver[v].pc = "create"
  /\ LET file == IF Named(v) = {} THEN v ELSE tmp[CHOOSE u \in Named(v) : TRUE] IN
       /\ saver' = [saver EXCEPT ![v].pc = "write", ![v].file = file]
       /\ inode' = [inode EXCEPT ![file] = Part]
       /\ tmp' = IF Named(v) = {} THEN [tmp EXCEPT ![v] = file] ELSE tmp
  /\ UNCHANGED <<quota, quotaResets, crashes, path>>

WriteTmp(v) ==
  /\ saver[v].pc = "write"
  /\ saver' = [saver EXCEPT ![v].pc = "rename"]
  /\ inode' = [inode EXCEPT ![saver[v].file] = saver[v].snap]
  /\ UNCHANGED <<quota, quotaResets, crashes, tmp, path>>

\* Fails when another request renamed the file of that name.
RenameTmp(v) ==
  /\ saver[v].pc = "rename"
  /\ saver' = [saver EXCEPT ![v] = [pc |-> "done", snap |-> 0, file |-> None]]
  /\ IF Named(v) = {} THEN UNCHANGED <<tmp, path>>
     ELSE LET u == CHOOSE u \in Named(v) : TRUE IN
            path' = tmp[u] /\ tmp' = [tmp EXCEPT ![u] = None]
  /\ UNCHANGED <<quota, quotaResets, crashes, inode>>

\* The process dies; the next one loads the file, or starts from zero.
Restart ==
  /\ crashes < MaxCrashes /\ crashes' = crashes + 1
  /\ LET loaded == IF path = None \/ inode[path] = Part THEN 0 ELSE inode[path] IN
       quotaUsed' = loaded /\ charged' = loaded
  /\ sess' = [s \in QuotaSessions |-> FreshSession] /\ raced' = FALSE
  /\ saver' = [v \in Savers |-> IF saver[v].pc = "idle" THEN saver[v] ELSE [saver[v] EXCEPT !.pc = "done"]]
  /\ UNCHANGED <<quotaResets, inode, tmp, path>>

Save(v) == Snapshot(v) \/ CreateTmp(v) \/ WriteTmp(v) \/ RenameTmp(v)

QuotaNext ==
  \/ \E s \in QuotaSessions : QuotaStep(s) /\ UNCHANGED <<quotaResets, crashes, disk>>
  \/ \E v \in Savers : ResetQuota(v) \/ SaveAtShutdown(v) \/ Save(v)
  \/ Restart

QuotaSpec == QuotaInit /\ [][QuotaNext]_quotaVars

-----------------------------------------------------------------------------
Reserved == [s \in QuotaSessions |-> sess[s].reserved]

\* The counter is what was moved plus what is reserved, over every
\* interleaving of polls, frames, contention and resets, unless a reset
\* caught a reservation; so all sessions of a user together stay within the
\* quota (relay tests: "combined forwarded bytes must never exceed configured
\* quota") and within the overshoot of Middle frames.
CounterExact ==
  /\ quotaUsed <= Limit + Overshoot
  /\ ~raced => /\ quotaUsed = charged + SumOver(QuotaSessions, Reserved)
               /\ charged <= Limit + (IF Middle = {} THEN 0 ELSE Overshoot)

\* The file under its final name is complete at every moment, a crash between
\* any two steps of write_state_file included, if no two requests write in one
\* second: the temporary name carries the second.
StateFileWhole ==
  (\A u, v \in Savers : Second[u] = Second[v] => u = v) /\ path # None => inode[path] # Part

\* The quota counter is what all sessions of the user moved or reserved, within
\* the limit and the overshoot, and its file is whole at every moment.
QuotaExact == CounterExact /\ StateFileWhole
=============================================================================
