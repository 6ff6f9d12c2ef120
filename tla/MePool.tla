------------------------------- MODULE MePool -------------------------------
(***************************************************************************)
(* The pool of Middle-End writers of one DC and the registry that binds    *)
(* client connections to them (src/src/transport/middle_proxy/: pool       *)
(* writer, pool refill, health, send, and the registry tables).            *)
(*                                                                         *)
(* Four kinds of task share this state: the sender of each client          *)
(* connection, the lifecycle task of each writer (with its reader), the    *)
(* health monitor and the refill of the DC.  An action is what a task does *)
(* between two awaits: one section under the pool lock, one under the      *)
(* registry's binding mutex, or one lock-free update of the routing maps.  *)
(* Writer ids are never reused by the code; a slot of Writers is taken     *)
(* again once no task refers to the id it stood for.                       *)
(***************************************************************************)
EXTENDS Integers, FiniteSets

CONSTANTS
  Conns, Writers, Endpoints,
  Health,        \* the health monitor, an actor beside connections and writers
  None,
  EndpointOf,    \* address each writer connects to
  Required,      \* writer floor of the DC
  MaxUpsets      \* bound on faults, closes, drains, rotations and timeouts

ASSUME PoolAssumption ==
  /\ IsFiniteSet(Conns) /\ IsFiniteSet(Writers)
  /\ Conns \cap Writers = {} /\ Health \notin Conns \cup Writers
  /\ None \notin Conns \cup Writers
  /\ EndpointOf \in [Writers -> Endpoints]
  /\ Required \in Nat \ {0} /\ MaxUpsets \in Nat

Actors == Conns \cup Writers \cup {Health}
Absent == -1

VARIABLES
  routed,      \* keys of routing.map
  hot,         \* hot_binding.map
  writerFor,   \* binding.writer_for_conn, and meta with it
  members,     \* binding.conns_for_writer
  bound,       \* binding.bound_clients_by_writer, Absent without entry
  known,       \* keys of the registry's writers.map
  active,      \* active_sessions_by_target_dc of the DC
  pool,        \* ids in MePool::writers
  draining,    \* those of the pool that drain
  fallback,    \* draining writers that still accept bindings
  drainGauge,  \* draining_active_runtime
  connCount,   \* conn_count
  life,        \* where the connect or the lifecycle task of a writer stands
  job,         \* what each actor does: pc, writer and refill decision
  session,     \* the relay session that owns each connection
  closing,     \* connection the reader of a writer is unregistering
  refillEp,    \* refill_inflight
  armed,       \* refill tasks that hold their endpoint key only
  refill,      \* the task that holds the key of the DC: refill_inflight_dc
  rotates,     \* idle writer the health monitor replaces
  upsets       \* bounded events so far

registry == <<routed, hot, writerFor, members, bound, known, active>>
gauges == <<pool, draining, fallback, drainGauge, connCount>>
refills == <<refillEp, armed, refill>>
tick == <<rotates, upsets>>
vars == <<routed, hot, writerFor, members, bound, known, active, pool, draining, fallback, drainGauge,
          connCount, life, job, session, closing, refillEp, armed, refill, rotates, upsets>>

Idle == [pc |-> "idle", w |-> None, refill |-> FALSE]
At(pc, w) == [pc |-> pc, w |-> w, refill |-> FALSE]
Quiet == [pc |-> "idle", e |-> None, w |-> None]

Init ==
  /\ routed = {} /\ known = {} /\ active = 0
  /\ hot = [c \in Conns |-> None] /\ writerFor = [c \in Conns |-> None]
  /\ members = [w \in Writers |-> {}] /\ bound = [w \in Writers |-> Absent]
  /\ pool = {} /\ draining = {} /\ fallback = {}
  /\ drainGauge = 0 /\ connCount = 0 /\ upsets = 0
  /\ life = [w \in Writers |-> "free"] /\ job = [a \in Actors |-> Idle]
  /\ session = [c \in Conns |-> "new"] /\ closing = [w \in Writers |-> None]
  /\ refillEp = {} /\ armed = {} /\ refill = Quiet /\ rotates = None

\* The binding mutex is held across a step only by a bind past its checks.
LockFree == \A c \in Conns : job[c].pc # "locked"

Upset == upsets < MaxUpsets /\ upsets' = upsets + 1

\* The receiver of the writer's command channel is dropped.
Closed(w) == life[w] \in {"abandoned", "ending", "done"}

Live == pool \ draining
AcceptsBinding(w) == w \notin draining \/ w \in fallback

-----------------------------------------------------------------------------
(***************************************************************************)
(* Registry.                                                               *)
(***************************************************************************)
register(c) ==
  /\ session[c] = "new"
  /\ session' = [session EXCEPT ![c] = "open"]
  /\ routed' = routed \cup {c}
  /\ UNCHANGED <<hot, writerFor, members, bound, known, active, gauges, life, job, closing, refills, tick>>

\* First half of unregister, outside the mutex.
Detach(c) ==
  /\ routed' = routed \ {c}
  /\ hot' = [hot EXCEPT ![c] = None]

\* Mutant: unregister does not recount the clients of the writer.
SettleUncounted(c) ==
  LET w == writerFor[c] IN
  /\ writerFor' = [writerFor EXCEPT ![c] = None]
  /\ active' = IF w = None \/ active = 0 THEN active ELSE active - 1
  /\ members' = IF w = None THEN members ELSE [members EXCEPT ![w] = @ \ {c}]
  /\ UNCHANGED bound

\* Second half, under the mutex.
Settle(c) ==
  LET w == writerFor[c] IN
  /\ writerFor' = [writerFor EXCEPT ![c] = None]
  /\ active' = IF w = None \/ active = 0 THEN active ELSE active - 1
  /\ members' = IF w = None THEN members ELSE [members EXCEPT ![w] = @ \ {c}]
  /\ bound' = IF w = None THEN bound ELSE [bound EXCEPT ![w] = Cardinality(members[w] \ {c})]

writer_lost(w) ==
  LET lost == {c \in members[w] : writerFor[c] = w} IN
  /\ known' = known \ {w}
  /\ bound' = [bound EXCEPT ![w] = Absent]
  /\ members' = [members EXCEPT ![w] = {}]
  /\ writerFor' = [c \in Conns |-> IF c \in lost THEN None ELSE writerFor[c]]
  /\ hot' = [c \in Conns |-> IF c \in lost /\ hot[c] = w THEN None ELSE hot[c]]
  /\ active' = IF Cardinality(lost) > active THEN 0 ELSE active - Cardinality(lost)
  /\ UNCHANGED routed

BindPasses(c, w) == c \in routed /\ w \in known

\* bind_writer takes the mutex and checks; the connection may be detached
\* before it writes the tables.
BindCheck(c) ==
  LET w == job[c].w IN
  /\ job[c].pc = "picked" /\ LockFree /\ session[c] \in {"open", "closing"}
  /\ job' = [job EXCEPT ![c] = At(IF BindPasses(c, w) THEN "locked" ELSE "stale", w)]
  /\ UNCHANGED <<registry, gauges, life, session, closing, refills, tick>>

BindCommit(c) ==
  LET w == job[c].w
      old == writerFor[c]
      moved == IF old \in Writers \ {w} THEN [members EXCEPT ![old] = @ \ {c}, ![w] = @ \cup {c}]
               ELSE [members EXCEPT ![w] = @ \cup {c}] IN
  /\ job[c].pc = "locked"
  /\ job' = [job EXCEPT ![c] = Idle]
  /\ writerFor' = [writerFor EXCEPT ![c] = w]
  /\ members' = moved
  /\ bound' = [v \in Writers |-> IF v \in {w, old} THEN Cardinality(moved[v]) ELSE bound[v]]
  /\ active' = IF old = None THEN active + 1 ELSE active
  /\ hot' = [hot EXCEPT ![c] = w]
  /\ UNCHANGED <<routed, known, gauges, life, session, closing, refills, tick>>

-----------------------------------------------------------------------------
(***************************************************************************)
(* Sessions: a sender task per connection, and two ways to unregister.     *)
(***************************************************************************)
SenderRuns(c) == job[c].pc = "idle" /\ session[c] \in {"open", "closing"}

\* get_writer_with_meta finds a writer for the connection.
HasWriter(c) == c \in routed /\ hot[c] \in known

\* A bound connection whose writer closed its channel: the sender removes it.
SendOnClosed(c) ==
  /\ SenderRuns(c) /\ HasWriter(c) /\ Closed(hot[c])
  /\ job' = [job EXCEPT ![c] = At("remove", hot[c])]
  /\ UNCHANGED <<registry, gauges, life, session, closing, refills, tick>>

\* An unbound one picks a writer from a snapshot of the pool and reserves a
\* slot of its channel.
Pick(c, w) ==
  /\ SenderRuns(c) /\ ~HasWriter(c)
  /\ w \in pool /\ AcceptsBinding(w)
  /\ job' = [job EXCEPT ![c] = At(IF Closed(w) THEN "remove" ELSE "picked", w)]
  /\ UNCHANGED <<registry, gauges, life, session, closing, refills, tick>>

\* Without a candidate the sender asks for a refill of every endpoint of the
\* DC and waits; it fails when the wait is over.
NoCandidate(c, ends) ==
  /\ SenderRuns(c) /\ ~HasWriter(c)
  /\ ~\E w \in pool : AcceptsBinding(w)
  /\ refillEp' = Endpoints /\ armed' = armed \cup (Endpoints \ refillEp)
  /\ job' = [job EXCEPT ![c] = IF ends THEN At("dead", None) ELSE Idle]
  /\ UNCHANGED <<registry, gauges, life, session, closing, refill, tick>>

\* The session ends.  It joins the sender for a while, then aborts it.
SessionCloses(c) ==
  /\ session[c] = "open"
  /\ session' = [session EXCEPT ![c] = "closing"]
  /\ UNCHANGED <<registry, gauges, life, job, closing, refills, tick>>

\* An aborted task stops at its next await, wherever that is; a bind past its
\* checks has none.
SenderAborted(c) ==
  /\ session[c] \in {"closing", "detached"} /\ job[c].pc \notin {"dead", "locked"}
  /\ job' = [job EXCEPT ![c] = At("dead", None)]
  /\ UNCHANGED <<registry, gauges, life, session, closing, refills, tick>>

\* The final unregister of the session, once the abort is requested.
SessionDetaches(c) ==
  /\ session[c] = "closing"
  /\ session' = [session EXCEPT ![c] = "detached"]
  /\ Detach(c)
  /\ UNCHANGED <<writerFor, members, bound, known, active, gauges, life, job, closing, refills, tick>>

SessionSettles(c) ==
  /\ session[c] = "detached" /\ LockFree
  /\ session' = [session EXCEPT ![c] = "ended"]
  /\ Settle(c)
  /\ UNCHANGED <<routed, hot, known, gauges, life, job, closing, refills, tick>>

\* The reader of a writer unregisters a connection: the Middle-End closed it,
\* or its response queue failed.
ReaderDetaches(w, c) ==
  /\ life[w] = "running" /\ closing[w] = None /\ c \in routed /\ Upset
  /\ closing' = [closing EXCEPT ![w] = c]
  /\ Detach(c)
  /\ UNCHANGED <<writerFor, members, bound, known, active, gauges, life, job, session, refills, rotates>>

ReaderSettles(w) ==
  /\ closing[w] # None /\ LockFree
  /\ closing' = [closing EXCEPT ![w] = None]
  /\ Settle(closing[w])
  /\ UNCHANGED <<routed, hot, known, gauges, life, job, session, refills, tick>>

-----------------------------------------------------------------------------
(***************************************************************************)
(* remove_writer_with_mode, by any actor: the pool first, then the         *)
(* registry, then the refill.                                              *)
(***************************************************************************)
PoolRemoval(w) ==
  /\ pool' = pool \ {w}
  /\ draining' = draining \ {w}
  /\ fallback' = fallback \ {w}
  /\ drainGauge' = IF w \in draining THEN drainGauge - 1 ELSE drainGauge
  /\ connCount' = IF w \in pool THEN connCount - 1 ELSE connCount

RemoveFromPool(a) ==
  LET w == job[a].w IN
  /\ job[a].pc \in {"remove", "stale"}
  /\ job' = [job EXCEPT ![a] = [pc |-> "forget", w |-> w, refill |-> w \in Live]]
  /\ PoolRemoval(w)
  /\ UNCHANGED <<registry, life, session, closing, refills, tick>>

\* trigger_immediate_refill_for_dc: nothing when the endpoint key is held.
trigger_immediate_refill(w, wanted) ==
  LET e == EndpointOf[w] IN
  IF wanted /\ e \notin refillEp
  THEN refillEp' = refillEp \cup {e} /\ armed' = armed \cup {e} /\ UNCHANGED refill
  ELSE UNCHANGED refills

Forget(a) ==
  LET w == job[a].w IN
  /\ job[a].pc = "forget" /\ LockFree
  /\ writer_lost(w)
  /\ trigger_immediate_refill(w, job[a].refill)
  /\ job' = [job EXCEPT ![a] = Idle]
  /\ life' = IF a \in Writers THEN [life EXCEPT ![a] = "done"] ELSE life
  /\ UNCHANGED <<gauges, session, closing, tick>>

\* The lifecycle task leaves its select, because the removal from the pool
\* cancelled its token or because the peer closed or a write failed.  The
\* reader is dropped where it stands.
LifecycleExits(w) ==
  /\ life[w] = "running"
  /\ IF w \in pool THEN Upset ELSE UNCHANGED upsets
  /\ life' = [life EXCEPT ![w] = "ending"]
  /\ closing' = [closing EXCEPT ![w] = None]
  /\ job' = [job EXCEPT ![w] = At("remove", w)]
  /\ UNCHANGED <<registry, gauges, session, refills, rotates>>

-----------------------------------------------------------------------------
(***************************************************************************)
(* Connecting a writer.                                                    *)
(***************************************************************************)
Unused(w) ==
  /\ life[w] \in {"free", "done", "abandoned"} /\ w \notin pool
  /\ members[w] = {} /\ \A a \in Actors : job[a].w # w

\* A new writer enters the pool; the registry does not know it yet.
Push(w) ==
  /\ Unused(w)
  /\ pool' = pool \cup {w}
  /\ life' = [life EXCEPT ![w] = "pushed"]
  /\ known' = known \ {w} /\ bound' = [bound EXCEPT ![w] = Absent]
  /\ hot' = [c \in Conns |-> IF hot[c] = w THEN None ELSE hot[c]]
  /\ UNCHANGED <<routed, writerFor, members, active, draining, fallback, drainGauge, connCount, session, closing, tick>>

register_writer(w) ==
  /\ life[w] = "pushed" /\ LockFree
  /\ life' = [life EXCEPT ![w] = "registered"]
  /\ known' = known \cup {w}
  /\ bound' = [bound EXCEPT ![w] = IF @ = Absent THEN 0 ELSE @]
  /\ UNCHANGED <<routed, hot, writerFor, members, active, gauges, job, session, closing, refills, tick>>

\* mark_writer_idle, conn_count and the spawn of the lifecycle task.  The
\* caller goes on: refill releases its keys, health drains what it rotates.
Spawn(w) ==
  /\ life[w] = "registered" /\ LockFree
  /\ life' = [life EXCEPT ![w] = "running"]
  /\ bound' = [bound EXCEPT ![w] = Cardinality(members[w])]
  /\ connCount' = connCount + 1
  /\ IF job[Health].pc = "build" /\ job[Health].w = w
     THEN job' = [job EXCEPT ![Health] = IF rotates = None THEN Idle ELSE At("drain", rotates)]
          /\ UNCHANGED refill
     ELSE refill' = [refill EXCEPT !.pc = "releaseEp", !.w = None] /\ UNCHANGED job
  /\ UNCHANGED <<routed, hot, writerFor, members, known, active, pool, draining, fallback, drainGauge,
                 session, closing, refillEp, armed, tick>>

\* The timeout around a health connect drops it at an await after the push.
Abandon(w) ==
  /\ job[Health].pc = "build" /\ job[Health].w = w
  /\ life[w] \in {"pushed", "registered"} /\ Upset
  /\ life' = [life EXCEPT ![w] = "abandoned"]
  /\ job' = [job EXCEPT ![Health] = Idle] /\ rotates' = None
  /\ UNCHANGED <<registry, gauges, session, closing, refills>>

-----------------------------------------------------------------------------
(***************************************************************************)
(* Refill of the DC.                                                       *)
(***************************************************************************)
RefillStarts(e) ==
  /\ e \in armed
  /\ armed' = armed \ {e}
  /\ IF refill.pc = "idle"
     THEN refill' = [pc |-> "connect", e |-> e, w |-> None] /\ UNCHANGED refillEp
     ELSE refillEp' = refillEp \ {e} /\ UNCHANGED refill
  /\ UNCHANGED <<registry, gauges, life, job, session, closing, tick>>

\* refill_writer_after_loss: same endpoint first, then the others of the DC.
RefillConnects(w) ==
  /\ refill.pc = "connect"
  /\ Push(w)
  /\ refill' = [refill EXCEPT !.pc = "build", !.w = w]
  /\ UNCHANGED <<job, refillEp, armed>>

RefillFails ==
  /\ refill.pc = "connect"
  /\ refill' = [refill EXCEPT !.pc = "releaseEp"]
  /\ UNCHANGED <<registry, gauges, life, job, session, closing, refillEp, armed, tick>>

\* Mutant: the key of the DC is kept.
RefillKeepsDc ==
  /\ refill.pc = "releaseEp"
  /\ refillEp' = refillEp \ {refill.e}
  /\ refill' = [refill EXCEPT !.pc = "releaseDc"]
  /\ UNCHANGED <<registry, gauges, life, job, session, closing, armed, tick>>

\* The endpoint key is released first, then the key of the DC.
RefillReleases ==
  /\ \/ /\ refill.pc = "releaseEp"
        /\ refillEp' = refillEp \ {refill.e}
        /\ refill' = [refill EXCEPT !.pc = "releaseDc"]
     \/ /\ refill.pc = "releaseDc"
        /\ refill' = Quiet
        /\ UNCHANGED refillEp
  /\ UNCHANGED <<registry, gauges, life, job, session, closing, armed, tick>>

-----------------------------------------------------------------------------
(***************************************************************************)
(* The health monitor: prune, reap, restore the floor, rotate idle         *)
(* writers.  It runs one of these at a time.                               *)
(***************************************************************************)
\* prune_closed_writers
PruneClosed(w) ==
  /\ job[Health].pc = "idle" /\ w \in pool /\ Closed(w)
  /\ job' = [job EXCEPT ![Health] = At("remove", w)]
  /\ UNCHANGED <<registry, gauges, life, session, closing, refills, tick>>

\* reap_draining_writers: an empty one, one past its deadline or the oldest
\* over the threshold.
Reap(w) ==
  /\ job[Health].pc = "idle" /\ w \in draining
  /\ job' = [job EXCEPT ![Health] = At("remove", w)]
  /\ UNCHANGED <<registry, gauges, life, session, closing, refills, tick>>

\* check_family below the floor, unless a refill of the DC is in flight.
FloorMissing ==
  /\ job[Health].pc = "idle"
  /\ Cardinality(Live) < Required /\ refill.pc = "idle"
  /\ job' = [job EXCEPT ![Health] = At("connect", None)]
  /\ UNCHANGED <<registry, gauges, life, session, closing, refills, tick>>

\* At the floor: connect first, then drain an idle writer.
Rotate(w) ==
  /\ job[Health].pc = "idle"
  /\ Cardinality(Live) >= Required /\ w \in Live /\ bound[w] = 0 /\ Upset
  /\ job' = [job EXCEPT ![Health] = At("connect", None)]
  /\ rotates' = w
  /\ UNCHANGED <<registry, gauges, life, session, closing, refills>>

HealthConnects(w) ==
  /\ job[Health].pc = "connect"
  /\ Push(w)
  /\ job' = [job EXCEPT ![Health] = At("build", w)]
  /\ UNCHANGED refills

HealthConnectFails ==
  /\ job[Health].pc = "connect"
  /\ job' = [job EXCEPT ![Health] = Idle]
  /\ rotates' = None
  /\ UNCHANGED <<registry, gauges, life, session, closing, refills, upsets>>

\* mark_writer_draining_with_timeout
MarkDraining(w, allow) ==
  /\ draining' = IF w \in pool THEN draining \cup {w} ELSE draining
  /\ fallback' = IF w \in pool THEN (IF allow THEN fallback \cup {w} ELSE fallback \ {w}) ELSE fallback
  /\ drainGauge' = IF w \in Live THEN drainGauge + 1 ELSE drainGauge
  /\ UNCHANGED <<pool, connCount>>

HealthDrains ==
  /\ job[Health].pc = "drain"
  /\ MarkDraining(job[Health].w, FALSE)
  /\ job' = [job EXCEPT ![Health] = Idle]
  /\ rotates' = None
  /\ UNCHANGED <<registry, life, session, closing, refills, upsets>>

\* A reinit drains writers of an older generation once enough DCs are covered
\* without them, which need not include this one; only a hard swap refuses
\* them new bindings.
ReinitDrains(w, allow) ==
  /\ w \in pool /\ Upset
  /\ MarkDraining(w, allow)
  /\ UNCHANGED <<registry, life, job, session, closing, refills, rotates>>

-----------------------------------------------------------------------------
SessionNext ==
  \E c \in Conns :
    \/ register(c) \/ SendOnClosed(c) \/ BindCheck(c) \/ BindCommit(c)
    \/ SessionCloses(c) \/ SenderAborted(c) \/ SessionDetaches(c) \/ SessionSettles(c)
    \/ \E w \in Writers : Pick(c, w) \/ ReaderDetaches(w, c)
    \/ \E ends \in BOOLEAN : NoCandidate(c, ends)

WriterNext ==
  \/ \E a \in Actors : RemoveFromPool(a) \/ Forget(a)
  \/ \E w \in Writers :
       ReaderSettles(w) \/ LifecycleExits(w) \/ register_writer(w) \/ Spawn(w) \/ Abandon(w)

RefillNext ==
  \/ \E e \in Endpoints : RefillStarts(e)
  \/ \E w \in Writers : RefillConnects(w)
  \/ RefillFails \/ RefillReleases

HealthNext ==
  \/ \E w \in Writers :
       PruneClosed(w) \/ Reap(w) \/ Rotate(w) \/ HealthConnects(w) \/ \E allow \in BOOLEAN : ReinitDrains(w, allow)
  \/ FloorMissing \/ HealthConnectFails \/ HealthDrains

Next == SessionNext \/ WriterNext \/ RefillNext \/ HealthNext

Spec == Init /\ [][Next]_vars

-----------------------------------------------------------------------------
Jobs == [pc : {"idle", "picked", "locked", "stale", "remove", "forget", "dead", "connect", "build", "drain"},
         w : Writers \cup {None}, refill : BOOLEAN]
NamesWriter == {"picked", "locked", "stale", "remove", "forget"}

TypeOK ==
  /\ routed \subseteq Conns /\ known \subseteq Writers
  /\ hot \in [Conns -> Writers \cup {None}] /\ writerFor \in [Conns -> Writers \cup {None}]
  /\ members \in [Writers -> SUBSET Conns] /\ bound \in [Writers -> Nat \cup {Absent}]
  /\ pool \subseteq Writers /\ draining \subseteq pool
  /\ life \in [Writers -> {"free", "pushed", "registered", "running", "ending", "done", "abandoned"}]
  /\ job \in [Actors -> Jobs]
  /\ session \in [Conns -> {"new", "open", "closing", "detached", "ended"}]
  /\ closing \in [Writers -> Conns \cup {None}]
  /\ rotates \in Writers \cup {None}

\* The registry's tables describe one relation between connections and
\* writers: the two directions agree, the counts that selection, rotation and
\* reaping read are its sizes.  bind_writer, unregister and writer_lost each
\* update all of them under the mutex.
BindingTablesAgree ==
  /\ \A c \in Conns, w \in Writers : writerFor[c] = w <=> c \in members[w]
  /\ \A w \in Writers : bound[w] = Cardinality(members[w]) \/ (bound[w] = Absent /\ members[w] = {})
  /\ active = Cardinality({c \in Conns : writerFor[c] # None})

\* The lock-free hot table the senders read is the locked table, for every
\* connection still in the routing map.
RoutedHotExact == \A c \in routed : hot[c] = writerFor[c]

\* No connection is bound to a writer the registry forgot: such a connection
\* could never be unbound by the loss of its writer.
BoundToKnownWriter == \A c \in Conns : writerFor[c] # None => writerFor[c] \in known

\* "ROUTING IS THE SOURCE OF TRUTH" (registry/writer.rs): after a session's
\* final unregister nothing in the tables mentions its connection, although
\* its sender may have been binding it when it was aborted, and the reader of
\* a writer may have dropped an unregister half way.
EndedSessionUnbound == \A c \in Conns : session[c] = "ended" => writerFor[c] = None /\ c \notin routed

\* Once its lifecycle task finished, a writer is neither in the pool nor
\* anywhere in the registry, whoever removed it first and wherever an aborted
\* removal stopped.
FinishedWriterForgotten == \A w \in Writers : life[w] = "done" => w \notin pool \cup known /\ bound[w] = Absent

\* The drain gauge is the number of draining writers, through repeated marks
\* and racing removals.
DrainGaugeExact == drainGauge = Cardinality(draining)

\* The tables of the registry agree with each other and with the sessions and
\* writers that live, however binds, closes, evictions, drains and lost writers
\* interleave: each bound connection is a member of its writer and counted in
\* it, the hot table copies the binding, a writer that is bound to is known, an
\* ended session is bound nowhere, a finished writer is forgotten, and
\* the gauge of draining writers counts them.
RegistryConsistent ==
  /\ BindingTablesAgree /\ RoutedHotExact /\ BoundToKnownWriter
  /\ EndedSessionUnbound /\ FinishedWriterForgotten /\ DrainGaugeExact

\* What the tasks of a connection rely on: a connection is routed while its
\* session is open, a bind past its checks holds the mutex, so neither the
\* writer is forgotten nor the session ended under it, and an unregister that
\* is half done is of a connection that can not be routed again.
ConnInv(c) ==
  /\ session[c] = "new" => writerFor[c] = None /\ hot[c] = None
  /\ c \in routed => session[c] \in {"open", "closing"}
  /\ job[c].pc = "locked" => job[c].w \in known /\ session[c] \in {"open", "closing", "detached"}

\* What the task of a writer relies on: only the lifecycle task works for the
\* writer, and only on its own removal.
WriterInv(w) ==
  /\ closing[w] # None => closing[w] \notin routed /\ session[closing[w]] # "new"
  /\ job[w].pc # "idle" => job[w].pc \in {"remove", "forget"} /\ job[w].w = w /\ life[w] = "ending"
  /\ job[w].pc = "forget" => w \notin pool

\* What the registry's consistency rests on.
PoolInv ==
  /\ TypeOK /\ RegistryConsistent
  /\ \A a \in Actors :
       job[a].pc \in NamesWriter => job[a].w \in Writers
  /\ \A c \in Conns : ConnInv(c)
  /\ \A w \in Writers : WriterInv(w)

\* When the upsets stop, the floor is restored for good: a refill that loses
\* the race for the key of the DC, fails or is never triggered is made up for
\* by the health monitor, and no key stays held.
Restored == Cardinality(Live) >= Required /\ refill.pc = "idle" /\ refillEp = {}

\* "ME writer disappeared before bind commit, pruning stale writer" (send.rs):
\* a sender whose bind failed removes a writer that is gone, not one that runs
\* and is registered.
FailedBindMeansWriterGone ==
  \A c \in Conns : job[c].pc = "stale" => job[c].w \notin known \/ life[job[c].w] # "running"

=============================================================================
