---------------------------- MODULE MePool_proofs ----------------------------
(***************************************************************************)
(* Proofs about the sessions over the Middle-End.  The registry of the     *)
(* pool is consistent for any number of client connections and writers,    *)
(* and any number of losses, drains, closes and aborted senders; and the   *)
(* registry of idle sessions evicts one session per pressure event.        *)
(***************************************************************************)
EXTENDS MePool, RelayIdle, FiniteSetTheorems, TLAPS

LEMMA Parties ==
  /\ IsFiniteSet(Conns) /\ IsFiniteSet(Writers)
  /\ None \notin Conns /\ None \notin Writers
  /\ Conns \subseteq Actors /\ Writers \subseteq Actors /\ Health \in Actors
  /\ \A c \in Conns, w \in Writers : c # w
  /\ Health \notin Conns /\ Health \notin Writers
  BY PoolAssumption DEF Actors

(* Sets of connections are finite, and so are sets of writers.             *)
LEMMA Finite ==
  /\ \A S \in SUBSET Conns : IsFiniteSet(S) /\ Cardinality(S) \in Nat
  /\ \A S \in SUBSET Writers : IsFiniteSet(S) /\ Cardinality(S) \in Nat
  BY Parties, FS_Subset, FS_CardinalityType

LEMMA JobShapes ==
  /\ Idle \in Jobs /\ Idle.pc = "idle" /\ Idle.w = None
  /\ \A w \in Writers \cup {None} :
       \A pc \in {"picked", "locked", "stale", "remove", "dead", "connect", "build", "drain"} :
         At(pc, w) \in Jobs /\ At(pc, w).pc = pc /\ At(pc, w).w = w
  BY DEF Idle, At, Jobs

-----------------------------------------------------------------------------
(* The three sections under the mutex.                                     *)

BoundConns == {c \in Conns : writerFor[c] # None}

(* The second half of unregister takes the connection out of every table.  *)
LEMMA SettleTables ==
  ASSUME TypeOK, BindingTablesAgree, NEW c \in Conns, Settle(c)
  PROVE  /\ BindingTablesAgree'
         /\ writerFor' = [writerFor EXCEPT ![c] = None]
         /\ writerFor' \in [Conns -> Writers \cup {None}]
         /\ members' \in [Writers -> SUBSET Conns] /\ bound' \in [Writers -> Nat \cup {Absent}]
         /\ \A w \in Writers : w # writerFor[c] => bound'[w] = bound[w]
<1> DEFINE w == writerFor[c]
<1>1. writerFor \in [Conns -> Writers \cup {None}] /\ members \in [Writers -> SUBSET Conns]
      /\ bound \in [Writers -> Nat \cup {Absent}] /\ w \in Writers \cup {None}
  BY DEF TypeOK
<1>2. writerFor' = [writerFor EXCEPT ![c] = None] /\ writerFor' \in [Conns -> Writers \cup {None}]
  BY <1>1 DEF Settle
<1>3. active = Cardinality(BoundConns) /\ IsFiniteSet(BoundConns) /\ active \in Nat
  BY Finite DEF BindingTablesAgree, BoundConns
<1>4. CASE w = None
  <2>1. UNCHANGED <<members, bound, active>>
    BY <1>4 DEF Settle
  <2>2. writerFor' = writerFor
    BY <1>1, <1>2, <1>4
  <2> QED
    BY <1>1, <1>2, <2>1, <2>2 DEF BindingTablesAgree
<1>5. CASE w \in Writers
  <2>1. w # None
    BY <1>5, Parties
  <2>2. /\ members' = [members EXCEPT ![w] = @ \ {c}]
        /\ bound' = [bound EXCEPT ![w] = Cardinality(members[w] \ {c})]
        /\ active' = IF active = 0 THEN active ELSE active - 1
    BY <2>1 DEF Settle
  <2>3. members[w] \ {c} \in SUBSET Conns /\ Cardinality(members[w] \ {c}) \in Nat
    BY <1>1, <1>5, Finite
  <2>4. members' \in [Writers -> SUBSET Conns] /\ bound' \in [Writers -> Nat \cup {Absent}]
    BY <1>1, <1>5, <2>2, <2>3
  <2>5. \A d \in Conns, v \in Writers : writerFor'[d] = v <=> d \in members'[v]
    BY <1>1, <1>2, <1>5, <2>2, Parties DEF BindingTablesAgree
  <2>6. \A v \in Writers : bound'[v] = Cardinality(members'[v]) \/ (bound'[v] = Absent /\ members'[v] = {})
    BY <1>1, <1>5, <2>2 DEF BindingTablesAgree
  <2>7. c \in BoundConns /\ BoundConns' = BoundConns \ {c}
    BY <1>1, <1>2, <2>1 DEF BoundConns
  <2>8. Cardinality(BoundConns') = Cardinality(BoundConns) - 1
    BY <1>3, <2>7, FS_RemoveElement
  <2>9. Cardinality(BoundConns) # 0
    BY <1>3, <2>7, FS_EmptySet
  <2>10. active' = Cardinality(BoundConns')
    BY <1>3, <2>2, <2>8, <2>9
  <2>11. BindingTablesAgree'
    BY <2>5, <2>6, <2>10 DEF BindingTablesAgree, BoundConns
  <2>12. \A v \in Writers : v # w => bound'[v] = bound[v]
    BY <1>1, <1>5, <2>2
  <2> QED
    BY <1>2, <2>4, <2>11, <2>12
<1> QED
  BY <1>1, <1>4, <1>5

(* Binding takes the connection from its old writer and gives it to the    *)
(* new one (bind_writer).                                                  *)
LEMMA CommitTables ==
  ASSUME TypeOK, BindingTablesAgree, NEW c \in Conns, job[c].w \in Writers, BindCommit(c)
  PROVE  /\ BindingTablesAgree'
         /\ writerFor' = [writerFor EXCEPT ![c] = job[c].w]
         /\ writerFor' \in [Conns -> Writers \cup {None}]
         /\ members' \in [Writers -> SUBSET Conns] /\ bound' \in [Writers -> Nat \cup {Absent}]
         /\ \A v \in Writers : v \notin {job[c].w, writerFor[c]} => bound'[v] = bound[v]
<1> DEFINE w == job[c].w
           old == writerFor[c]
           moved == IF old \in Writers \ {w} THEN [members EXCEPT ![old] = @ \ {c}, ![w] = @ \cup {c}]
                    ELSE [members EXCEPT ![w] = @ \cup {c}]
<1>1. writerFor \in [Conns -> Writers \cup {None}] /\ members \in [Writers -> SUBSET Conns]
      /\ bound \in [Writers -> Nat \cup {Absent}] /\ old \in Writers \cup {None} /\ w \in Writers
  BY DEF TypeOK
<1>2. /\ writerFor' = [writerFor EXCEPT ![c] = w] /\ members' = moved
      /\ bound' = [v \in Writers |-> IF v \in {w, old} THEN Cardinality(moved[v]) ELSE bound[v]]
      /\ active' = IF old = None THEN active + 1 ELSE active
  BY DEF BindCommit
<1>3. writerFor' \in [Conns -> Writers \cup {None}]
  BY <1>1, <1>2
<1>4. moved \in [Writers -> SUBSET Conns]
  BY <1>1
<1>5. \A v \in Writers : Cardinality(moved[v]) \in Nat
  BY <1>4, Finite
<1>6. \A d \in Conns, v \in Writers : writerFor'[d] = v <=> d \in moved[v]
  <2> SUFFICES ASSUME NEW d \in Conns, NEW v \in Writers
               PROVE  writerFor'[d] = v <=> d \in moved[v]
    BY Zenon
  <2>1. writerFor[d] = v <=> d \in members[v]
    BY DEF BindingTablesAgree
  <2>2. CASE d = c
    BY <1>1, <1>2, <2>1, <2>2, Parties, Zenon
  <2>3. CASE d # c
    BY <1>1, <1>2, <2>1, <2>3
  <2> QED
    BY <2>2, <2>3
<1> HIDE DEF moved
<1>7. bound' \in [Writers -> Nat \cup {Absent}]
  BY <1>1, <1>2, <1>5
<1>8. \A v \in Writers : bound'[v] = Cardinality(moved[v]) \/ (bound'[v] = Absent /\ moved[v] = {})
  <2> SUFFICES ASSUME NEW v \in Writers, v \notin {w, old}
               PROVE  bound[v] = Cardinality(moved[v]) \/ (bound[v] = Absent /\ moved[v] = {})
    BY <1>2
  <2>1. moved[v] = members[v]
    BY <1>1 DEF moved
  <2> QED
    BY <2>1 DEF BindingTablesAgree
<1>9. active' = Cardinality(BoundConns')
  <2>1. active = Cardinality(BoundConns) /\ IsFiniteSet(BoundConns) /\ active \in Nat
    BY Finite DEF BindingTablesAgree, BoundConns
  <2>2. BoundConns' = BoundConns \cup {c} /\ (c \in BoundConns <=> old # None)
    BY <1>1, <1>2, Parties DEF BoundConns
  <2>3. Cardinality(BoundConns') = IF c \in BoundConns THEN Cardinality(BoundConns) ELSE Cardinality(BoundConns) + 1
    BY <2>1, <2>2, FS_AddElement, Zenon
  <2> QED
    BY <1>2, <2>1, <2>2, <2>3
<1>10. BindingTablesAgree'
  BY <1>2, <1>6, <1>8, <1>9 DEF BindingTablesAgree, BoundConns
<1>11. \A v \in Writers : v \notin {w, old} => bound'[v] = bound[v]
  BY <1>1, <1>2
<1> QED
  BY <1>2, <1>3, <1>4, <1>7, <1>10, <1>11

(* A lost writer leaves no trace in the tables (writer_lost).              *)
LEMMA LostTables ==
  ASSUME TypeOK, BindingTablesAgree, NEW w \in Writers, writer_lost(w)
  PROVE  /\ BindingTablesAgree'
         /\ writerFor' = [c \in Conns |-> IF writerFor[c] = w THEN None ELSE writerFor[c]]
         /\ writerFor' \in [Conns -> Writers \cup {None}]
         /\ members' \in [Writers -> SUBSET Conns]
         /\ bound' = [bound EXCEPT ![w] = Absent] /\ bound' \in [Writers -> Nat \cup {Absent}]
         /\ hot' = [c \in Conns |-> IF writerFor[c] = w /\ hot[c] = w THEN None ELSE hot[c]]
         /\ hot' \in [Conns -> Writers \cup {None}]
<1> DEFINE lost == {c \in members[w] : writerFor[c] = w}
<1>1. writerFor \in [Conns -> Writers \cup {None}] /\ members \in [Writers -> SUBSET Conns]
      /\ bound \in [Writers -> Nat \cup {Absent}] /\ hot \in [Conns -> Writers \cup {None}]
  BY DEF TypeOK
<1>2. \A c \in Conns : c \in lost <=> writerFor[c] = w
  BY <1>1 DEF BindingTablesAgree
<1>3. /\ bound' = [bound EXCEPT ![w] = Absent] /\ members' = [members EXCEPT ![w] = {}]
      /\ writerFor' = [c \in Conns |-> IF c \in lost THEN None ELSE writerFor[c]]
      /\ hot' = [c \in Conns |-> IF c \in lost /\ hot[c] = w THEN None ELSE hot[c]]
      /\ active' = IF Cardinality(lost) > active THEN 0 ELSE active - Cardinality(lost)
  BY DEF writer_lost
<1>4. lost \in SUBSET Conns
  BY <1>1
<1> HIDE DEF lost
<1>5. writerFor' = [c \in Conns |-> IF writerFor[c] = w THEN None ELSE writerFor[c]]
  BY <1>2, <1>3
<1>6. hot' = [c \in Conns |-> IF writerFor[c] = w /\ hot[c] = w THEN None ELSE hot[c]]
  BY <1>2, <1>3
<1>7. /\ writerFor' \in [Conns -> Writers \cup {None}] /\ members' \in [Writers -> SUBSET Conns]
      /\ bound' \in [Writers -> Nat \cup {Absent}] /\ hot' \in [Conns -> Writers \cup {None}]
  BY <1>1, <1>3, <1>5, <1>6
<1>8. \A c \in Conns, v \in Writers : writerFor'[c] = v <=> c \in members'[v]
  BY <1>1, <1>3, <1>5, Parties DEF BindingTablesAgree
<1>9. \A v \in Writers : bound'[v] = Cardinality(members'[v]) \/ (bound'[v] = Absent /\ members'[v] = {})
  BY <1>1, <1>3 DEF BindingTablesAgree
<1>10. active' = Cardinality(BoundConns')
  <2>1. active = Cardinality(BoundConns) /\ IsFiniteSet(BoundConns) /\ active \in Nat
    BY Finite DEF BindingTablesAgree, BoundConns
  <2>2. BoundConns' = BoundConns \ lost /\ lost \subseteq BoundConns
    BY <1>2, <1>4, <1>5, Parties DEF BoundConns
  <2>3. IsFiniteSet(lost) /\ Cardinality(lost) \in Nat /\ BoundConns \cap lost = lost
    BY <1>4, <2>2, Finite
  <2>4. Cardinality(BoundConns \ lost) = Cardinality(BoundConns) - Cardinality(BoundConns \cap lost)
    BY <2>1, FS_Difference, Zenon
  <2>5. Cardinality(lost) <= Cardinality(BoundConns)
    BY <2>1, <2>2, FS_Subset
  <2>6. ~(Cardinality(lost) > active)
    BY <2>1, <2>3, <2>5
  <2>7. active' = active - Cardinality(lost)
    BY <1>3, <2>6
  <2>8. Cardinality(BoundConns') = Cardinality(BoundConns) - Cardinality(lost)
    BY <2>2, <2>3, <2>4, Zenon
  <2> QED
    BY <2>1, <2>7, <2>8
<1>11. BindingTablesAgree'
  BY <1>8, <1>9, <1>10 DEF BindingTablesAgree, BoundConns
<1> QED
  BY <1>3, <1>5, <1>6, <1>7, <1>11

-----------------------------------------------------------------------------
(* The inductive invariant, PoolInv.                                       *)

LEMMA PoolInitially == Init => PoolInv
<1> SUFFICES ASSUME Init PROVE PoolInv
  OBVIOUS
<1>1. TypeOK
  BY Parties, JobShapes DEF Init, TypeOK, Absent, Actors
<1>2. {c \in Conns : writerFor[c] # None} = {} /\ Cardinality({}) = 0
  BY FS_EmptySet DEF Init
<1>3. BindingTablesAgree
  BY <1>2, Parties, Zenon DEF Init, BindingTablesAgree
<1>4. RegistryConsistent
  BY <1>2, <1>3 DEF Init, RegistryConsistent, RoutedHotExact, BoundToKnownWriter, EndedSessionUnbound,
                    FinishedWriterForgotten, DrainGaugeExact
<1>5. \A a \in Actors : job[a].pc = "idle"
  BY JobShapes DEF Init
<1>6. (\A c \in Conns : ConnInv(c)) /\ (\A w \in Writers : WriterInv(w))
  BY <1>5, Parties DEF Init, ConnInv, WriterInv
<1> QED
  BY <1>1, <1>4, <1>5, <1>6 DEF PoolInv, NamesWriter

(* A step that leaves the tables, the pool and the sessions alone and gives *)
(* a sender or the health monitor its next job.                            *)
LEMMA JobOnly ==
  ASSUME PoolInv, NEW a \in Conns \cup {Health}, NEW j \in Jobs,
         job' = [job EXCEPT ![a] = j],
         UNCHANGED <<registry, gauges, life, session, closing>>, rotates' \in Writers \cup {None},
         j.pc \in NamesWriter => j.w \in Writers,
         a \in Conns /\ j.pc = "locked" => j.w \in known /\ session[a] \in {"open", "closing", "detached"}
  PROVE  PoolInv'
<1>1. /\ UNCHANGED <<routed, hot, writerFor, members, bound, known, active>>
      /\ UNCHANGED <<pool, draining, fallback, drainGauge, connCount>>
  BY Zenon DEF registry, gauges
<1>2. TypeOK /\ a \in Actors /\ job \in [Actors -> Jobs]
  BY Parties DEF PoolInv, TypeOK
<1>3. job' \in [Actors -> Jobs] /\ job'[a] = j /\ \A b \in Actors : b # a => job'[b] = job[b]
  BY <1>2
<1>4. TypeOK'
  BY <1>1, <1>2, <1>3, Zenon DEF TypeOK
<1>5. RegistryConsistent'
  BY <1>1 DEF PoolInv, RegistryConsistent, BindingTablesAgree, RoutedHotExact, BoundToKnownWriter,
              EndedSessionUnbound, FinishedWriterForgotten, DrainGaugeExact
<1>6. \A b \in Actors : job'[b].pc \in NamesWriter => job'[b].w \in Writers
  BY <1>3 DEF PoolInv
<1>7. ASSUME NEW c \in Conns PROVE ConnInv(c)'
  BY <1>1, <1>3, <1>7, Parties, Zenon DEF PoolInv, ConnInv
<1>8. ASSUME NEW w \in Writers PROVE WriterInv(w)'
  <2>1. job'[w] = job[w]
    BY <1>3, Parties, Zenon
  <2> QED
    BY <1>1, <2>1 DEF PoolInv, WriterInv
<1> QED
  BY <1>4, <1>5, <1>6, <1>7, <1>8 DEF PoolInv

(* A step that changes nothing the invariant reads.                        *)
LEMMA NothingRead ==
  ASSUME PoolInv, UNCHANGED <<registry, gauges, life, job, session, closing, rotates>>
  PROVE  PoolInv'
<1>1. /\ UNCHANGED <<routed, hot, writerFor, members, bound, known, active>>
      /\ UNCHANGED <<pool, draining, fallback, drainGauge, connCount>>
  BY DEF registry, gauges
<1> QED
  BY <1>1 DEF PoolInv, TypeOK, RegistryConsistent, BindingTablesAgree, RoutedHotExact, BoundToKnownWriter,
              EndedSessionUnbound, FinishedWriterForgotten, DrainGaugeExact, ConnInv, WriterInv

(* Only the connection itself leaves the routing and the hot table.        *)
LEMMA SessionSteps ==
  ASSUME PoolInv, NEW c \in Conns, register(c) \/ SessionCloses(c) \/ SessionDetaches(c)
  PROVE  PoolInv'
<1>1. UNCHANGED <<writerFor, members, bound, known, active, pool, draining, fallback, drainGauge, connCount,
                  life, job, closing, rotates>>
  BY DEF register, SessionCloses, SessionDetaches, registry, gauges, tick
<1>2. TypeOK
  BY DEF PoolInv
<1>3. \E s \in {"open", "closing", "detached"} :
        session' = [session EXCEPT ![c] = s] /\ (s = "open" => session[c] = "new")
                   /\ (s # "open" => session[c] \in {"open", "closing"})
  BY DEF register, SessionCloses, SessionDetaches
<1>4. \/ routed' = routed \cup {c} /\ hot' = hot /\ session[c] = "new" /\ session'[c] = "open"
      \/ routed' = routed /\ hot' = hot /\ session'[c] = "closing" /\ session[c] = "open"
      \/ routed' = routed \ {c} /\ hot' = [hot EXCEPT ![c] = None] /\ session'[c] = "detached" /\ session[c] = "closing"
  BY <1>2 DEF register, SessionCloses, SessionDetaches, Detach, registry, TypeOK
<1>5. TypeOK'
  BY <1>1, <1>2, <1>3, <1>4 DEF TypeOK
<1>6. \A d \in Conns : d # c => session'[d] = session[d] /\ hot'[d] = hot[d] /\ (d \in routed' <=> d \in routed)
  BY <1>2, <1>3, <1>4, Zenon DEF TypeOK
<1>7. session[c] # "new" => session'[c] # "new"
  BY <1>4
<1>8. BindingTablesAgree' /\ BoundToKnownWriter' /\ FinishedWriterForgotten' /\ DrainGaugeExact'
  BY <1>1, Zenon DEF PoolInv, RegistryConsistent, BindingTablesAgree, BoundToKnownWriter, FinishedWriterForgotten,
              DrainGaugeExact
<1>9. RoutedHotExact' /\ EndedSessionUnbound'
  BY <1>1, <1>2, <1>4, <1>6, Zenon DEF PoolInv, RegistryConsistent, RoutedHotExact, EndedSessionUnbound, ConnInv, TypeOK
<1>10. ASSUME NEW d \in Conns PROVE ConnInv(d)'
  BY <1>1, <1>2, <1>4, <1>6, Zenon DEF PoolInv, ConnInv, TypeOK
<1>11. ASSUME NEW w \in Writers PROVE WriterInv(w)'
  BY <1>1, <1>2, <1>4, <1>6 DEF PoolInv, WriterInv, TypeOK
<1> QED
  BY <1>1, <1>5, <1>8, <1>9, <1>10, <1>11, Zenon DEF PoolInv, RegistryConsistent

LEMMA ReaderDetachesKeeps ==
  ASSUME PoolInv, NEW c \in Conns, NEW w \in Writers, ReaderDetaches(w, c)
  PROVE  PoolInv'
<1>1. /\ UNCHANGED <<writerFor, members, bound, known, active, pool, draining, fallback, drainGauge, connCount,
                     life, job, session, rotates>>
      /\ routed' = routed \ {c} /\ hot' = [hot EXCEPT ![c] = None]
      /\ closing' = [closing EXCEPT ![w] = c] /\ c \in routed
  BY DEF ReaderDetaches, Detach, gauges
<1>2. TypeOK
  BY DEF PoolInv
<1>3. TypeOK'
  BY <1>1, <1>2, Zenon DEF TypeOK
<1>4. RegistryConsistent'
  BY <1>1, <1>2 DEF PoolInv, TypeOK, RegistryConsistent, BindingTablesAgree, RoutedHotExact, BoundToKnownWriter,
              EndedSessionUnbound, FinishedWriterForgotten, DrainGaugeExact
<1>5. ASSUME NEW d \in Conns PROVE ConnInv(d)'
  BY <1>1, <1>2, Zenon DEF PoolInv, ConnInv, TypeOK
<1>6. ASSUME NEW v \in Writers PROVE WriterInv(v)'
  BY <1>1, <1>2 DEF PoolInv, WriterInv, ConnInv, TypeOK
<1> QED
  BY <1>1, <1>3, <1>4, <1>5, <1>6, Zenon DEF PoolInv

(* The second half of an unregister, by the session or by a reader, for a  *)
(* connection that is not routed: the hot table does not matter for it.    *)
LEMMA SettleKeeps ==
  ASSUME PoolInv, NEW c \in Conns, c \notin routed, Settle(c), LockFree,
         UNCHANGED <<routed, hot, known, gauges, life, job, rotates>>,
         \/ session' = [session EXCEPT ![c] = "ended"] /\ closing' = closing
         \/ session' = session /\ \E w \in Writers : closing' = [closing EXCEPT ![w] = None]
  PROVE  PoolInv'
<1>1. TypeOK /\ BindingTablesAgree
  BY Zenon DEF PoolInv, RegistryConsistent
<1>2. /\ BindingTablesAgree'
      /\ writerFor' = [writerFor EXCEPT ![c] = None] /\ writerFor' \in [Conns -> Writers \cup {None}]
      /\ members' \in [Writers -> SUBSET Conns] /\ bound' \in [Writers -> Nat \cup {Absent}]
      /\ \A w \in Writers : w # writerFor[c] => bound'[w] = bound[w]
  BY <1>1, SettleTables
<1>3. UNCHANGED <<routed, hot, known, pool, draining, fallback, drainGauge, connCount, life, job, rotates>>
  BY Zenon DEF gauges
<1>4. TypeOK'
  BY <1>1, <1>2, <1>3, Zenon DEF TypeOK
<1>5. \A d \in Conns : /\ writerFor'[d] = IF d = c THEN None ELSE writerFor[d]
                       /\ session'[d] = session[d] \/ (d = c /\ session'[d] = "ended")
  BY <1>1, <1>2 DEF TypeOK
<1>6. \A w \in Writers : closing'[w] = closing[w] \/ closing'[w] = None
  BY <1>1, Zenon DEF TypeOK
<1>7. RoutedHotExact' /\ BoundToKnownWriter' /\ DrainGaugeExact'
  BY <1>1, <1>3, <1>5, Zenon DEF PoolInv, TypeOK, RegistryConsistent, RoutedHotExact, BoundToKnownWriter, DrainGaugeExact
<1>8. EndedSessionUnbound'
  BY <1>3, <1>5 DEF PoolInv, RegistryConsistent, EndedSessionUnbound
<1>9. FinishedWriterForgotten'
  <2> SUFFICES ASSUME NEW w \in Writers, life[w] = "done"
               PROVE  w \notin pool \cup known /\ bound'[w] = Absent
    BY <1>3, Zenon DEF FinishedWriterForgotten
  <2>1. w \notin pool \cup known /\ bound[w] = Absent
    BY Zenon DEF PoolInv, RegistryConsistent, FinishedWriterForgotten
  <2>2. w # writerFor[c]
    BY <2>1, Parties, Zenon DEF PoolInv, RegistryConsistent, BoundToKnownWriter
  <2> QED
    BY <1>2, <2>1, <2>2, Zenon
<1>10. ASSUME NEW d \in Conns PROVE ConnInv(d)'
  BY <1>3, <1>5, Zenon DEF PoolInv, ConnInv, LockFree
<1>11. ASSUME NEW w \in Writers PROVE WriterInv(w)'
  BY <1>1, <1>3, <1>5, <1>6 DEF PoolInv, WriterInv, TypeOK
<1> QED
  BY <1>2, <1>3, <1>4, <1>7, <1>8, <1>9, <1>10, <1>11, Zenon DEF PoolInv, RegistryConsistent

(* The mutex kept the writer known and the session alive since the checks. *)
LEMMA CommitKeeps ==
  ASSUME PoolInv, NEW c \in Conns, BindCommit(c)
  PROVE  PoolInv'
<1> DEFINE w == job[c].w
<1>1. TypeOK /\ BindingTablesAgree /\ job[c].pc = "locked" /\ c \in Actors
  BY Parties, Zenon DEF PoolInv, RegistryConsistent, BindCommit
<1>2. w \in Writers /\ w \in known /\ session[c] \in {"open", "closing", "detached"}
  BY <1>1 DEF PoolInv, NamesWriter, ConnInv
<1>3. /\ BindingTablesAgree'
      /\ writerFor' = [writerFor EXCEPT ![c] = w] /\ writerFor' \in [Conns -> Writers \cup {None}]
      /\ members' \in [Writers -> SUBSET Conns] /\ bound' \in [Writers -> Nat \cup {Absent}]
      /\ \A v \in Writers : v \notin {w, writerFor[c]} => bound'[v] = bound[v]
  BY <1>1, <1>2, CommitTables, Zenon
<1>4. /\ UNCHANGED <<routed, known, pool, draining, fallback, drainGauge, connCount, life, session, closing, rotates>>
      /\ hot' = [hot EXCEPT ![c] = w] /\ job' = [job EXCEPT ![c] = Idle]
  BY Zenon DEF BindCommit, gauges, tick
<1>5. job' \in [Actors -> Jobs] /\ \A a \in Actors : job'[a] = IF a = c THEN Idle ELSE job[a]
  BY <1>1, <1>4, JobShapes DEF TypeOK
<1>6. TypeOK'
  BY <1>1, <1>2, <1>3, <1>4, <1>5, Zenon DEF TypeOK
<1>7. \A d \in Conns : /\ writerFor'[d] = IF d = c THEN w ELSE writerFor[d]
                       /\ hot'[d] = IF d = c THEN w ELSE hot[d]
  BY <1>1, <1>3, <1>4, Zenon DEF TypeOK
<1>8. RoutedHotExact' /\ BoundToKnownWriter' /\ DrainGaugeExact' /\ EndedSessionUnbound'
  BY <1>1, <1>2, <1>4, <1>7, Zenon DEF PoolInv, TypeOK, RegistryConsistent, RoutedHotExact, BoundToKnownWriter,
                               DrainGaugeExact, EndedSessionUnbound
<1>9. FinishedWriterForgotten'
  <2> SUFFICES ASSUME NEW v \in Writers, life[v] = "done"
               PROVE  v \notin pool \cup known /\ bound'[v] = Absent
    BY <1>4 DEF FinishedWriterForgotten
  <2>1. v \notin pool \cup known /\ bound[v] = Absent
    BY Zenon DEF PoolInv, RegistryConsistent, FinishedWriterForgotten
  <2>2. v # writerFor[c] /\ v # w
    BY <1>2, <2>1, Parties, Zenon DEF PoolInv, RegistryConsistent, BoundToKnownWriter
  <2> QED
    BY <1>3, <2>1, <2>2
<1>10. \A a \in Actors : job'[a].pc \in NamesWriter => job'[a].w \in Writers
  <2>1. Idle.pc \notin NamesWriter
    BY JobShapes DEF NamesWriter
  <2>2. \A a \in Actors : job[a].pc \in NamesWriter => job[a].w \in Writers
    BY Zenon DEF PoolInv
  <2> QED
    BY <1>5, <2>1, <2>2, Zenon
<1>11. ASSUME NEW d \in Conns PROVE ConnInv(d)'
  <2>1. d \in Actors /\ Idle.pc # "locked"
    BY JobShapes, Parties
  <2>2. job'[d].pc = "locked" => job[d].pc = "locked" /\ job'[d].w = job[d].w
    BY <1>5, <2>1, Zenon
  <2> QED
    BY <1>2, <1>4, <1>7, <2>1, <2>2 DEF PoolInv, ConnInv
<1>12. ASSUME NEW v \in Writers PROVE WriterInv(v)'
  <2>1. job'[v] = job[v]
    BY <1>5, Parties, Zenon
  <2> QED
    BY <1>4, <2>1 DEF PoolInv, WriterInv
<1> QED
  BY <1>3, <1>6, <1>8, <1>9, <1>10, <1>11, <1>12, Zenon DEF PoolInv, RegistryConsistent

(* Removal from the pool: the first actor that finds the writer takes it   *)
(* out and settles the drain gauge; the others find nothing.               *)
LEMMA RemoveKeeps ==
  ASSUME PoolInv, NEW a \in Actors, RemoveFromPool(a)
  PROVE  PoolInv'
<1> DEFINE w == job[a].w
           j == [pc |-> "forget", w |-> w, refill |-> w \in Live]
<1>1. TypeOK /\ job[a].pc \in {"remove", "stale"} /\ w \in Writers
  BY Zenon DEF PoolInv, RemoveFromPool, NamesWriter
<1>2. /\ UNCHANGED <<routed, hot, writerFor, members, bound, known, active, life, session, closing, rotates>>
      /\ job' = [job EXCEPT ![a] = j]
      /\ pool' = pool \ {w} /\ draining' = draining \ {w}
      /\ drainGauge' = IF w \in draining THEN drainGauge - 1 ELSE drainGauge
  BY Zenon DEF RemoveFromPool, PoolRemoval, registry, tick
<1>3. j \in Jobs /\ j.pc = "forget" /\ j.w = w
  BY <1>1 DEF Jobs
<1> HIDE DEF j
<1>4. job' \in [Actors -> Jobs] /\ \A b \in Actors : job'[b] = IF b = a THEN j ELSE job[b]
  BY <1>1, <1>2, <1>3, Zenon DEF TypeOK
<1>5. TypeOK'
  BY <1>1, <1>2, <1>4 DEF TypeOK
<1>6. DrainGaugeExact'
  <2>1. draining \in SUBSET Writers /\ IsFiniteSet(draining) /\ drainGauge = Cardinality(draining)
    BY <1>1, Finite, Zenon DEF PoolInv, RegistryConsistent, DrainGaugeExact, TypeOK
  <2>2. Cardinality(draining \ {w}) = IF w \in draining THEN Cardinality(draining) - 1 ELSE Cardinality(draining)
    BY <2>1, FS_RemoveElement, Zenon
  <2> QED
    BY <1>2, <2>1, <2>2, Zenon DEF DrainGaugeExact
<1>7. RegistryConsistent'
  BY <1>2, <1>6, Zenon DEF PoolInv, RegistryConsistent, BindingTablesAgree, RoutedHotExact, BoundToKnownWriter,
                    EndedSessionUnbound, FinishedWriterForgotten
<1>8. \A b \in Actors : job'[b].pc \in NamesWriter => job'[b].w \in Writers
  <2>1. \A b \in Actors : job[b].pc \in NamesWriter => job[b].w \in Writers
    BY Zenon DEF PoolInv
  <2> QED
    BY <1>1, <1>3, <1>4, <2>1
<1>9. ASSUME NEW d \in Conns PROVE ConnInv(d)'
  <2>1. d \in Actors /\ (job'[d].pc = "locked" => job[d].pc = "locked" /\ job'[d].w = job[d].w)
    BY <1>3, <1>4, Parties
  <2> QED
    BY <1>2, <2>1 DEF PoolInv, ConnInv
<1>10. ASSUME NEW v \in Writers PROVE WriterInv(v)'
  <2>1. WriterInv(v) /\ v \in Actors
    BY Parties, Zenon DEF PoolInv
  <2>2. CASE a = v
    BY <1>1, <1>2, <1>3, <1>4, <2>1, <2>2, Zenon DEF WriterInv
  <2>3. CASE a # v
    BY <1>2, <1>4, <2>1, <2>3, Zenon DEF WriterInv
  <2> QED
    BY <2>2, <2>3
<1> QED
  BY <1>5, <1>7, <1>8, <1>9, <1>10, Zenon DEF PoolInv

(* The registry forgets the writer under the mutex, so no bind to it is    *)
(* past its checks; a lifecycle task that ends here removed its own writer. *)
LEMMA ForgetKeeps ==
  ASSUME PoolInv, NEW a \in Actors, Forget(a)
  PROVE  PoolInv'
<1> DEFINE w == job[a].w
<1>1. TypeOK /\ BindingTablesAgree /\ job[a].pc = "forget" /\ w \in Writers /\ LockFree /\ writer_lost(w)
  BY Zenon DEF PoolInv, Forget, NamesWriter, RegistryConsistent
<1>2. /\ BindingTablesAgree'
      /\ writerFor' = [c \in Conns |-> IF writerFor[c] = w THEN None ELSE writerFor[c]]
      /\ writerFor' \in [Conns -> Writers \cup {None}]
      /\ members' \in [Writers -> SUBSET Conns]
      /\ bound' = [bound EXCEPT ![w] = Absent] /\ bound' \in [Writers -> Nat \cup {Absent}]
      /\ hot' = [c \in Conns |-> IF writerFor[c] = w /\ hot[c] = w THEN None ELSE hot[c]]
      /\ hot' \in [Conns -> Writers \cup {None}]
  BY <1>1, LostTables, Zenon
<1>3. /\ UNCHANGED <<routed, pool, draining, drainGauge, session, closing, rotates>>
      /\ known' = known \ {w} /\ job' = [job EXCEPT ![a] = Idle]
      /\ life' = IF a \in Writers THEN [life EXCEPT ![a] = "done"] ELSE life
  BY Zenon DEF Forget, writer_lost, gauges, tick
<1>4. job' \in [Actors -> Jobs] /\ \A b \in Actors : job'[b] = IF b = a THEN Idle ELSE job[b]
  BY <1>1, <1>3, JobShapes DEF TypeOK
<1>5. a \in Writers => a = w /\ w \notin pool
  BY <1>1, Zenon DEF PoolInv, WriterInv
<1>6. \A v \in Writers : life'[v] = IF v = a THEN "done" ELSE life[v]
  BY <1>1, <1>3, Zenon DEF TypeOK
<1>7. life' \in [Writers -> {"free", "pushed", "registered", "running", "ending", "done", "abandoned"}]
  BY <1>1, <1>3, Zenon DEF TypeOK
<1>8. TypeOK'
  BY <1>1, <1>2, <1>3, <1>4, <1>7, Zenon DEF TypeOK
<1>9. RoutedHotExact' /\ BoundToKnownWriter' /\ DrainGaugeExact' /\ EndedSessionUnbound'
  BY <1>1, <1>2, <1>3, Parties, Zenon DEF PoolInv, TypeOK, RegistryConsistent, RoutedHotExact, BoundToKnownWriter,
                                   DrainGaugeExact, EndedSessionUnbound
<1>10. FinishedWriterForgotten'
  <2> SUFFICES ASSUME NEW v \in Writers, life'[v] = "done"
               PROVE  v \notin pool' \cup known' /\ bound'[v] = Absent
    BY Zenon DEF FinishedWriterForgotten
  <2>1. bound \in [Writers -> Nat \cup {Absent}]
    BY <1>1, Zenon DEF TypeOK
  <2>2. CASE v = a
    BY <1>1, <1>2, <1>3, <1>5, <2>1, <2>2, Zenon
  <2>3. CASE v # a
    <3>1. v \notin pool \cup known /\ bound[v] = Absent
      BY <1>6, <2>3, Zenon DEF PoolInv, RegistryConsistent, FinishedWriterForgotten
    <3> QED
      BY <1>1, <1>2, <1>3, <2>1, <3>1, Zenon
  <2> QED
    BY <2>2, <2>3
<1>11. \A b \in Actors : job'[b].pc \in NamesWriter => job'[b].w \in Writers
  BY <1>4, JobShapes DEF PoolInv, NamesWriter
<1>12. ASSUME NEW d \in Conns PROVE ConnInv(d)'
  <2>1. d \in Actors /\ job'[d].pc # "locked"
    BY <1>1, <1>4, JobShapes, Parties DEF LockFree
  <2>2. session[d] = "new" => writerFor'[d] = None /\ hot'[d] = None
    BY <1>1, <1>2, Zenon DEF PoolInv, ConnInv, TypeOK
  <2> QED
    BY <1>3, <2>1, <2>2, Zenon DEF PoolInv, ConnInv
<1>13. ASSUME NEW v \in Writers PROVE WriterInv(v)'
  <2>1. WriterInv(v) /\ v \in Actors
    BY Parties, Zenon DEF PoolInv
  <2>2. job'[v].pc # "idle" => job'[v] = job[v] /\ life'[v] = life[v]
    BY <1>4, <1>6, <2>1, JobShapes
  <2> QED
    BY <1>3, <2>1, <2>2, Zenon DEF WriterInv
<1> QED
  BY <1>2, <1>8, <1>9, <1>10, <1>11, <1>12, <1>13, Zenon DEF PoolInv, RegistryConsistent

(* A step of one writer's own life, short of its end.                      *)
LEMMA LifeKeeps ==
  ASSUME PoolInv, NEW w \in Writers,
         NEW l \in {"registered", "running", "ending", "abandoned"},
         life[w] \in {"pushed", "registered", "running"}, life' = [life EXCEPT ![w] = l],
         NEW n \in Nat \cup {Absent},
         n = bound[w] \/ n = Cardinality(members[w]), bound' = [bound EXCEPT ![w] = n],
         known' = known \/ known' = known \cup {w},
         closing' = closing \/ closing' = [closing EXCEPT ![w] = None],
         UNCHANGED <<routed, hot, writerFor, members, active, pool, draining, drainGauge, session>>,
         rotates' \in Writers \cup {None},
         job' \in [Actors -> Jobs],
         \A a \in Actors \ {w, Health} : job'[a] = job[a],
         job'[Health].pc \in NamesWriter => job'[Health].w \in Writers,
         job'[w] = IF l = "ending" THEN At("remove", w) ELSE job[w]
  PROVE  PoolInv'
<1>1. TypeOK
  BY Zenon DEF PoolInv
<1>2. TypeOK'
  BY <1>1, Zenon DEF TypeOK
<1>3. \A v \in Writers : /\ life'[v] = IF v = w THEN l ELSE life[v]
                         /\ bound'[v] = IF v = w THEN n ELSE bound[v]
                         /\ closing'[v] = closing[v] \/ closing'[v] = None
                         /\ v # w => (v \in known' <=> v \in known)
  BY <1>1, Zenon DEF TypeOK
<1>4. BindingTablesAgree'
  <2>1. BindingTablesAgree
    BY Zenon DEF PoolInv, RegistryConsistent
  <2>2. \A v \in Writers : bound'[v] = Cardinality(members[v]) \/ (bound'[v] = Absent /\ members[v] = {})
    <3> SUFFICES ASSUME NEW v \in Writers
                 PROVE  bound'[v] = Cardinality(members[v]) \/ (bound'[v] = Absent /\ members[v] = {})
      OBVIOUS
    <3>1. bound[v] = Cardinality(members[v]) \/ (bound[v] = Absent /\ members[v] = {})
      BY <2>1, Zenon DEF BindingTablesAgree
    <3>2. bound'[v] = bound[v] \/ bound'[v] = Cardinality(members[v])
      BY <1>3, Zenon
    <3> QED
      BY <3>1, <3>2, Zenon
  <2> QED
    BY <2>1, <2>2, Zenon DEF BindingTablesAgree
<1>5. RoutedHotExact' /\ BoundToKnownWriter' /\ DrainGaugeExact' /\ EndedSessionUnbound'
  BY Zenon DEF PoolInv, RegistryConsistent, RoutedHotExact, BoundToKnownWriter, DrainGaugeExact, EndedSessionUnbound
<1>6. FinishedWriterForgotten'
  <2> SUFFICES ASSUME NEW v \in Writers, life'[v] = "done"
               PROVE  v \notin pool \cup known' /\ bound'[v] = Absent
    BY Zenon DEF FinishedWriterForgotten
  <2>1. l # "done"
    OBVIOUS
  <2>2. v # w /\ life[v] = "done"
    BY <1>3, <2>1, Zenon
  <2>3. v \notin pool \cup known /\ bound[v] = Absent
    BY <2>2, Zenon DEF PoolInv, RegistryConsistent, FinishedWriterForgotten
  <2> QED
    BY <1>3, <2>2, <2>3, Zenon
<1>7. At("remove", w).pc = "remove" /\ At("remove", w).w = w
  BY Zenon DEF At
<1>8. \A b \in Actors : job'[b].pc \in NamesWriter => job'[b].w \in Writers
  BY <1>7, Zenon DEF PoolInv
<1>9. ASSUME NEW d \in Conns PROVE ConnInv(d)'
  <2>1. d \in Actors /\ job'[d] = job[d]
    BY Parties, Zenon
  <2> QED
    BY <2>1, Zenon DEF PoolInv, ConnInv
<1>10. ASSUME NEW v \in Writers PROVE WriterInv(v)'
  <2>1. WriterInv(v) /\ v \in Actors /\ v # Health
    BY Parties, Zenon DEF PoolInv
  <2>2. CASE v = w
    BY <1>3, <1>7, <2>1, <2>2, Zenon DEF WriterInv
  <2>3. CASE v # w
    BY <1>3, <2>1, <2>3, Zenon DEF WriterInv
  <2> QED
    BY <2>2, <2>3, Zenon
<1> QED
  BY <1>2, <1>4, <1>5, <1>6, <1>8, <1>9, <1>10, Zenon DEF PoolInv, RegistryConsistent

(* A slot taken for a new writer id is one no task and no table refers to. *)
LEMMA PushKeeps ==
  ASSUME PoolInv, NEW w \in Writers, Push(w), job' \in [Actors -> Jobs],
         \A a \in Actors \ {Health} : job'[a] = job[a],
         job'[Health].pc \in NamesWriter => job'[Health].w \in Writers
  PROVE  PoolInv'
<1>1. TypeOK /\ members[w] = {} /\ w \notin pool /\ \A a \in Actors : job[a].w # w
  BY Zenon DEF PoolInv, Push, Unused
<1>2. /\ UNCHANGED <<routed, writerFor, members, active, draining, drainGauge, session, closing, rotates>>
      /\ pool' = pool \cup {w} /\ life' = [life EXCEPT ![w] = "pushed"]
      /\ known' = known \ {w} /\ bound' = [bound EXCEPT ![w] = Absent]
      /\ hot' = [c \in Conns |-> IF hot[c] = w THEN None ELSE hot[c]]
  BY Zenon DEF Push, tick
<1>3. TypeOK'
  BY <1>1, <1>2, Zenon DEF TypeOK
<1>4. \A v \in Writers : /\ life'[v] = IF v = w THEN "pushed" ELSE life[v]
                         /\ bound'[v] = IF v = w THEN Absent ELSE bound[v]
  BY <1>1, <1>2, Zenon DEF TypeOK
<1>5. \A c \in Conns : writerFor[c] # w
  BY <1>1, Zenon DEF PoolInv, RegistryConsistent, BindingTablesAgree
<1>6. BindingTablesAgree'
  <2>1. BindingTablesAgree
    BY Zenon DEF PoolInv, RegistryConsistent
  <2>2. \A v \in Writers : bound'[v] = Cardinality(members[v]) \/ (bound'[v] = Absent /\ members[v] = {})
    BY <1>1, <1>4, <2>1, Zenon DEF BindingTablesAgree
  <2> QED
    BY <1>2, <2>1, <2>2, Zenon DEF BindingTablesAgree
<1>7. RoutedHotExact' /\ BoundToKnownWriter' /\ DrainGaugeExact' /\ EndedSessionUnbound'
  <2>1. RoutedHotExact /\ BoundToKnownWriter /\ DrainGaugeExact /\ EndedSessionUnbound /\ routed \subseteq Conns
    BY <1>1, Zenon DEF PoolInv, RegistryConsistent, TypeOK
  <2>2. RoutedHotExact'
    BY <1>2, <1>5, <2>1, Zenon DEF RoutedHotExact
  <2>3. BoundToKnownWriter'
    BY <1>2, <1>5, <2>1, Zenon DEF BoundToKnownWriter
  <2>4. DrainGaugeExact' /\ EndedSessionUnbound'
    BY <1>2, <2>1 DEF DrainGaugeExact, EndedSessionUnbound
  <2> QED
    BY <2>2, <2>3, <2>4, Zenon
<1>8. FinishedWriterForgotten'
  <2> SUFFICES ASSUME NEW v \in Writers, life'[v] = "done"
               PROVE  v \notin pool' \cup known' /\ bound'[v] = Absent
    BY Zenon DEF FinishedWriterForgotten
  <2>1. v # w /\ life[v] = "done" /\ bound'[v] = bound[v]
    BY <1>4
  <2>2. v \notin pool \cup known /\ bound[v] = Absent
    BY <2>1, Zenon DEF PoolInv, RegistryConsistent, FinishedWriterForgotten
  <2> QED
    BY <1>2, <2>1, <2>2, Zenon
<1>9. \A b \in Actors : job'[b].pc \in NamesWriter => job'[b].w \in Writers
  BY Zenon DEF PoolInv
<1>10. ASSUME NEW d \in Conns PROVE ConnInv(d)'
  <2>1. d \in Actors /\ job'[d] = job[d] /\ job[d].w # w
    BY <1>1, Parties
  <2> QED
    BY <1>2, <2>1, Zenon DEF PoolInv, ConnInv
<1>11. ASSUME NEW v \in Writers PROVE WriterInv(v)'
  <2>1. WriterInv(v) /\ v \in Actors /\ v # Health /\ job'[v] = job[v] /\ job[v].w # w
    BY <1>1, Parties, Zenon DEF PoolInv
  <2> QED
    BY <1>2, <1>4, <2>1, Zenon DEF WriterInv
<1> QED
  BY <1>3, <1>6, <1>7, <1>8, <1>9, <1>10, <1>11, Zenon DEF PoolInv, RegistryConsistent

(* A mark counts only a writer of the pool that does not drain yet.        *)
LEMMA DrainKeeps ==
  ASSUME PoolInv, NEW w \in Writers \cup {None}, NEW allow \in BOOLEAN, MarkDraining(w, allow),
         UNCHANGED <<registry, life, session, closing>>, rotates' \in Writers \cup {None},
         job' = job \/ job' = [job EXCEPT ![Health] = Idle]
  PROVE  PoolInv'
<1>1. TypeOK /\ Health \in Actors
  BY Parties, Zenon DEF PoolInv
<1>2. UNCHANGED <<routed, hot, writerFor, members, bound, known, active, pool>>
  BY Zenon DEF registry, MarkDraining
<1>3. job' \in [Actors -> Jobs] /\ \A a \in Actors : job'[a] = job[a] \/ (a = Health /\ job'[a] = Idle)
  BY <1>1, JobShapes DEF TypeOK
<1>4. draining' = (IF w \in pool THEN draining \cup {w} ELSE draining)
      /\ drainGauge' = IF w \in pool \ draining THEN drainGauge + 1 ELSE drainGauge
  BY Zenon DEF MarkDraining, Live
<1>5. TypeOK'
  BY <1>1, <1>2, <1>3, <1>4, Zenon DEF TypeOK
<1>6. DrainGaugeExact'
  <2>1. draining \in SUBSET Writers /\ IsFiniteSet(draining) /\ drainGauge = Cardinality(draining)
    BY <1>1, Finite, Zenon DEF PoolInv, RegistryConsistent, DrainGaugeExact, TypeOK
  <2>2. Cardinality(draining \cup {w}) = IF w \in draining THEN Cardinality(draining) ELSE Cardinality(draining) + 1
    BY <2>1, FS_AddElement, Zenon
  <2> QED
    BY <1>4, <2>1, <2>2, Zenon DEF DrainGaugeExact
<1>7. RegistryConsistent'
  BY <1>2, <1>6, Zenon DEF PoolInv, RegistryConsistent, BindingTablesAgree, RoutedHotExact, BoundToKnownWriter,
                    EndedSessionUnbound, FinishedWriterForgotten
<1>8. \A b \in Actors : job'[b].pc \in NamesWriter => job'[b].w \in Writers
  BY <1>3, JobShapes DEF PoolInv, NamesWriter
<1>9. ASSUME NEW d \in Conns PROVE ConnInv(d)'
  BY <1>2, <1>3, Parties, Zenon DEF PoolInv, ConnInv
<1>10. ASSUME NEW v \in Writers PROVE WriterInv(v)'
  BY <1>2, <1>3, Parties, Zenon DEF PoolInv, WriterInv
<1> QED
  BY <1>5, <1>7, <1>8, <1>9, <1>10, Zenon DEF PoolInv

-----------------------------------------------------------------------------
(* One step of each kind of task.                                          *)

LEMMA SessionStep ==
  ASSUME PoolInv, SessionNext
  PROVE  PoolInv'
<1>1. TypeOK
  BY DEF PoolInv
<1>2. PICK c \in Conns :
        \/ register(c) \/ SendOnClosed(c) \/ BindCheck(c) \/ BindCommit(c)
        \/ SessionCloses(c) \/ SenderAborted(c) \/ SessionDetaches(c) \/ SessionSettles(c)
        \/ \E w \in Writers : Pick(c, w) \/ ReaderDetaches(w, c)
        \/ \E ends \in BOOLEAN : NoCandidate(c, ends)
  BY DEF SessionNext
<1>3. CASE register(c) \/ SessionCloses(c) \/ SessionDetaches(c)
  BY <1>3, SessionSteps, Zenon
<1>4. CASE SendOnClosed(c)
  <2>1. hot[c] \in Writers
    BY <1>1, <1>4 DEF SendOnClosed, HasWriter, TypeOK
  <2>2. UNCHANGED <<registry, gauges, life, session, closing>> /\ rotates' = rotates
        /\ job' = [job EXCEPT ![c] = At("remove", hot[c])]
    BY <1>4, Zenon DEF SendOnClosed, tick
  <2>3. LET j == At("remove", hot[c]) IN j \in Jobs /\ j.pc = "remove" /\ j.w = hot[c]
    BY <2>1, JobShapes
  <2> QED
    BY <1>1, <2>1, <2>2, <2>3, JobOnly, Zenon DEF TypeOK
<1>5. CASE BindCheck(c)
  <2> DEFINE j == At(IF BindPasses(c, job[c].w) THEN "locked" ELSE "stale", job[c].w)
  <2>1. job[c].pc = "picked" /\ job[c].w \in Writers
    BY <1>5, Parties, Zenon DEF BindCheck, PoolInv, NamesWriter
  <2>2. UNCHANGED <<registry, gauges, life, session, closing>> /\ rotates' = rotates
        /\ job' = [job EXCEPT ![c] = j] /\ session[c] \in {"open", "closing"}
    BY <1>5, Zenon DEF BindCheck, tick
  <2>3. j \in Jobs /\ j.w = job[c].w /\ (j.pc = "locked" => job[c].w \in known)
    BY <2>1, JobShapes DEF BindPasses
  <2> HIDE DEF j
  <2> QED
    BY <1>1, <2>1, <2>2, <2>3, JobOnly, Zenon DEF TypeOK
<1>6. CASE BindCommit(c)
  BY <1>6, CommitKeeps, Zenon
<1>7. CASE SenderAborted(c)
  <2>1. UNCHANGED <<registry, gauges, life, session, closing>> /\ rotates' = rotates
        /\ job' = [job EXCEPT ![c] = At("dead", None)]
    BY <1>7 DEF SenderAborted, tick
  <2> QED
    BY <1>1, <2>1, JobOnly, JobShapes, Zenon DEF TypeOK, NamesWriter
<1>8. CASE SessionSettles(c)
  <2>1. c \notin routed
    BY <1>8 DEF SessionSettles, PoolInv, ConnInv
  <2> QED
    BY <1>8, <2>1, SettleKeeps, Zenon DEF SessionSettles, tick
<1>9. ASSUME NEW w \in Writers, Pick(c, w) PROVE PoolInv'
  <2> DEFINE j == At(IF Closed(w) THEN "remove" ELSE "picked", w)
  <2>1. UNCHANGED <<registry, gauges, life, session, closing>> /\ rotates' = rotates
        /\ job' = [job EXCEPT ![c] = j]
    BY <1>9 DEF Pick, tick
  <2>2. j \in Jobs /\ j.w = w /\ j.pc # "locked"
    BY JobShapes
  <2> HIDE DEF j
  <2> QED
    BY <1>1, <2>1, <2>2, JobOnly, Zenon DEF TypeOK
<1>10. ASSUME NEW ends \in BOOLEAN, NoCandidate(c, ends) PROVE PoolInv'
  <2> DEFINE j == IF ends THEN At("dead", None) ELSE Idle
  <2>1. UNCHANGED <<registry, gauges, life, session, closing>> /\ rotates' = rotates
        /\ job' = [job EXCEPT ![c] = j]
    BY <1>10 DEF NoCandidate, tick
  <2>2. j \in Jobs /\ j.pc \in {"dead", "idle"}
    BY JobShapes
  <2> HIDE DEF j
  <2> QED
    BY <1>1, <2>1, <2>2, JobOnly, Zenon DEF TypeOK, NamesWriter
<1> QED
  BY <1>2, <1>3, <1>4, <1>5, <1>6, <1>7, <1>8, <1>9, <1>10, ReaderDetachesKeeps, Zenon

LEMMA WriterStep ==
  ASSUME PoolInv, WriterNext
  PROVE  PoolInv'
<1>1. TypeOK
  BY DEF PoolInv
<1>2. CASE \E a \in Actors : RemoveFromPool(a) \/ Forget(a)
  BY <1>2, RemoveKeeps, ForgetKeeps, Zenon
<1>3. ASSUME NEW w \in Writers, ReaderSettles(w) PROVE PoolInv'
  <2>1. closing[w] \in Conns /\ closing[w] \notin routed
    BY <1>1, <1>3 DEF ReaderSettles, TypeOK, PoolInv, WriterInv
  <2> QED
    BY <1>3, <2>1, SettleKeeps, Zenon DEF ReaderSettles, tick
<1>4. ASSUME NEW w \in Writers, LifecycleExits(w) PROVE PoolInv'
  <2>1. /\ UNCHANGED <<routed, hot, writerFor, members, bound, known, active, pool, draining, drainGauge, session, rotates>>
        /\ life[w] = "running" /\ life' = [life EXCEPT ![w] = "ending"]
        /\ closing' = [closing EXCEPT ![w] = None] /\ job' = [job EXCEPT ![w] = At("remove", w)]
    BY <1>4 DEF LifecycleExits, registry, gauges
  <2>2. At("remove", w) \in Jobs /\ w \in Actors /\ Health \in Actors /\ w # Health
    BY JobShapes, Parties, Zenon
  <2>3. job' \in [Actors -> Jobs] /\ job'[w] = At("remove", w) /\ \A a \in Actors \ {w} : job'[a] = job[a]
    BY <1>1, <2>1, <2>2, Zenon DEF TypeOK
  <2>4. bound' = [bound EXCEPT ![w] = bound[w]] /\ bound[w] \in Nat \cup {Absent} /\ rotates' \in Writers \cup {None}
    BY <1>1, <2>1, Zenon DEF TypeOK
  <2>5. job'[Health].pc \in NamesWriter => job'[Health].w \in Writers
    BY <2>2, <2>3, Zenon DEF PoolInv
  <2> QED
    BY <2>1, <2>2, <2>3, <2>4, <2>5, LifeKeeps, Zenon
<1>5. ASSUME NEW w \in Writers, register_writer(w) PROVE PoolInv'
  <2> DEFINE n == IF bound[w] = Absent THEN 0 ELSE bound[w]
  <2>1. /\ UNCHANGED <<routed, hot, writerFor, members, active, pool, draining, drainGauge, session, rotates, closing, job>>
        /\ life[w] = "pushed" /\ life' = [life EXCEPT ![w] = "registered"]
        /\ known' = known \cup {w} /\ bound' = [bound EXCEPT ![w] = n]
    BY <1>1, <1>5, Zenon DEF register_writer, registry, gauges, tick, TypeOK
  <2>2. n \in Nat \cup {Absent} /\ (n = bound[w] \/ n = Cardinality(members[w]))
    <3>1. bound[w] = Cardinality(members[w]) \/ (bound[w] = Absent /\ members[w] = {})
      BY DEF PoolInv, RegistryConsistent, BindingTablesAgree
    <3>2. Cardinality({}) = 0 /\ bound[w] \in Nat \cup {Absent}
      BY <1>1, FS_EmptySet, Zenon DEF TypeOK
    <3>3. CASE bound[w] = Absent
      <4>1. members[w] = {}
        <5>1. members[w] \in SUBSET Conns
          BY <1>1, Zenon DEF TypeOK
        <5>2. Cardinality(members[w]) \in Nat
          BY <5>1, Finite
        <5> QED
          BY <3>1, <3>3, <5>2 DEF Absent
      <4>2. n = 0 /\ Cardinality(members[w]) = 0
        BY <3>2, <3>3, <4>1, Zenon
      <4> QED
        BY <4>2
    <3>4. CASE bound[w] # Absent
      BY <3>2, <3>4, Zenon
    <3> QED
      BY <3>3, <3>4, Zenon
  <2>3. job \in [Actors -> Jobs] /\ rotates \in Writers \cup {None} /\ Health \in Actors
    BY <1>1, Parties, Zenon DEF TypeOK
  <2> HIDE DEF n
  <2>4. job'[Health].pc \in NamesWriter => job'[Health].w \in Writers
    BY <2>1, <2>3, Zenon DEF PoolInv
  <2> QED
    BY <2>1, <2>2, <2>3, <2>4, LifeKeeps, Zenon
<1>6. ASSUME NEW w \in Writers, Spawn(w) PROVE PoolInv'
  <2>1. /\ UNCHANGED <<routed, hot, writerFor, members, active, known, pool, draining, drainGauge, session, rotates, closing>>
        /\ life[w] = "registered" /\ life' = [life EXCEPT ![w] = "running"]
        /\ bound' = [bound EXCEPT ![w] = Cardinality(members[w])]
        /\ job' = job \/ job' = [job EXCEPT ![Health] = Idle]
           \/ (rotates # None /\ job' = [job EXCEPT ![Health] = At("drain", rotates)])
    BY <1>6 DEF Spawn, tick
  <2>2. Cardinality(members[w]) \in Nat
    BY <1>1, Finite, Zenon DEF TypeOK
  <2>3. job \in [Actors -> Jobs] /\ rotates \in Writers \cup {None} /\ Health \in Actors /\ w # Health /\ w \in Actors
    BY <1>1, Parties DEF TypeOK
  <2>4. At("drain", rotates) \in Jobs /\ At("drain", rotates).pc = "drain" /\ Idle \in Jobs /\ Idle.pc = "idle"
    BY <2>3, JobShapes, Zenon
  <2>5. job' \in [Actors -> Jobs] /\ (\A a \in Actors \ {w, Health} : job'[a] = job[a]) /\ job'[w] = job[w]
    BY <2>1, <2>3, <2>4
  <2>6. job'[Health].pc \in NamesWriter => job'[Health].w \in Writers
    BY <2>1, <2>3, <2>4, Zenon DEF PoolInv, NamesWriter
  <2> QED
    BY <2>1, <2>2, <2>3, <2>5, <2>6, LifeKeeps, Zenon
<1>7. ASSUME NEW w \in Writers, Abandon(w) PROVE PoolInv'
  <2>1. /\ UNCHANGED <<routed, hot, writerFor, members, bound, known, active, pool, draining, drainGauge, session, closing>>
        /\ life[w] \in {"pushed", "registered"} /\ life' = [life EXCEPT ![w] = "abandoned"]
        /\ rotates' = None /\ job' = [job EXCEPT ![Health] = Idle]
    BY <1>7, Zenon DEF Abandon, registry, gauges
  <2>2. job \in [Actors -> Jobs] /\ Health \in Actors /\ w # Health /\ w \in Actors
    BY <1>1, Parties, Zenon DEF TypeOK
  <2>3. job' \in [Actors -> Jobs] /\ (\A a \in Actors \ {Health} : job'[a] = job[a]) /\ job'[Health].pc = "idle"
    BY <2>1, <2>2, JobShapes
  <2>4. bound' = [bound EXCEPT ![w] = bound[w]] /\ bound[w] \in Nat \cup {Absent}
    BY <1>1, <2>1 DEF TypeOK
  <2> QED
    BY <2>1, <2>2, <2>3, <2>4, LifeKeeps, Zenon DEF NamesWriter
<1> QED
  BY <1>2, <1>3, <1>4, <1>5, <1>6, <1>7 DEF WriterNext

LEMMA RefillStep ==
  ASSUME PoolInv, RefillNext
  PROVE  PoolInv'
<1>1. ASSUME NEW e \in Endpoints, RefillStarts(e) PROVE PoolInv'
  BY <1>1, NothingRead DEF RefillStarts, tick
<1>2. CASE RefillFails \/ RefillReleases
  BY <1>2, NothingRead, Zenon DEF RefillFails, RefillReleases, tick
<1>3. ASSUME NEW w \in Writers, RefillConnects(w) PROVE PoolInv'
  <2>1. Push(w) /\ job' = job /\ job \in [Actors -> Jobs] /\ Health \in Actors
    BY <1>3, Parties, Zenon DEF RefillConnects, PoolInv, TypeOK
  <2> QED
    BY <2>1, PushKeeps DEF PoolInv
<1> QED
  BY <1>1, <1>2, <1>3, Zenon DEF RefillNext

LEMMA HealthStep ==
  ASSUME PoolInv, HealthNext
  PROVE  PoolInv'
<1>1. TypeOK /\ Health \in Actors /\ rotates \in Writers \cup {None}
  BY Parties, Zenon DEF PoolInv, TypeOK
<1>2. ASSUME NEW w \in Writers, PruneClosed(w) \/ Reap(w) PROVE PoolInv'
  <2>1. UNCHANGED <<registry, gauges, life, session, closing>> /\ rotates' = rotates
        /\ job' = [job EXCEPT ![Health] = At("remove", w)]
    BY <1>2 DEF PruneClosed, Reap, tick
  <2>2. LET j == At("remove", w) IN j \in Jobs /\ j.pc = "remove" /\ j.w = w
    BY JobShapes
  <2> QED
    BY <1>1, <2>1, <2>2, JobOnly, Zenon
<1>3. ASSUME NEW w \in Writers, Rotate(w) PROVE PoolInv'
  <2>1. UNCHANGED <<registry, gauges, life, session, closing>> /\ rotates' = w
        /\ job' = [job EXCEPT ![Health] = At("connect", None)]
    BY <1>3 DEF Rotate
  <2>2. LET j == At("connect", None) IN j \in Jobs /\ j.pc = "connect"
    BY JobShapes
  <2> QED
    BY <2>1, <2>2, JobOnly, Zenon DEF NamesWriter
<1>4. ASSUME NEW w \in Writers, HealthConnects(w) PROVE PoolInv'
  <2>1. Push(w) /\ job' = [job EXCEPT ![Health] = At("build", w)] /\ job \in [Actors -> Jobs]
    BY <1>1, <1>4, Zenon DEF HealthConnects, TypeOK
  <2>2. LET j == At("build", w) IN j \in Jobs /\ j.pc = "build"
    BY JobShapes
  <2>3. job' \in [Actors -> Jobs] /\ (\A a \in Actors \ {Health} : job'[a] = job[a]) /\ job'[Health].pc = "build"
    BY <1>1, <2>1, <2>2, Zenon
  <2> QED
    BY <2>1, <2>3, PushKeeps DEF NamesWriter
<1>5. ASSUME NEW w \in Writers, NEW allow \in BOOLEAN, ReinitDrains(w, allow) PROVE PoolInv'
  BY <1>1, <1>5, DrainKeeps, Zenon DEF ReinitDrains
<1>6. CASE FloorMissing
  <2>1. UNCHANGED <<registry, gauges, life, session, closing>> /\ rotates' = rotates
        /\ job' = [job EXCEPT ![Health] = At("connect", None)]
    BY <1>6 DEF FloorMissing, tick
  <2>2. LET j == At("connect", None) IN j \in Jobs /\ j.pc = "connect"
    BY JobShapes
  <2> QED
    BY <1>1, <2>1, <2>2, JobOnly, Zenon DEF NamesWriter
<1>7. CASE HealthConnectFails
  <2>1. UNCHANGED <<registry, gauges, life, session, closing>> /\ rotates' = None
        /\ job' = [job EXCEPT ![Health] = Idle]
    BY <1>7 DEF HealthConnectFails
  <2> QED
    BY <2>1, JobShapes, JobOnly, Parties, Zenon DEF NamesWriter
<1>8. CASE HealthDrains
  <2>1. job[Health].w \in Writers \cup {None}
    BY <1>1 DEF TypeOK, Jobs
  <2> QED
    BY <1>8, <2>1, DrainKeeps, Zenon DEF HealthDrains
<1> QED
  BY <1>2, <1>3, <1>4, <1>5, <1>6, <1>7, <1>8, Zenon DEF HealthNext

LEMMA PoolStep == PoolInv /\ [Next]_vars => PoolInv'
<1> SUFFICES ASSUME PoolInv, [Next]_vars PROVE PoolInv'
  BY Zenon
<1>1. CASE UNCHANGED vars
  BY <1>1, NothingRead DEF vars, registry, gauges
<1> QED
  BY <1>1, SessionStep, WriterStep, RefillStep, HealthStep DEF Next

-----------------------------------------------------------------------------
(* The tables of the registry agree with each other, with the hot table,   *)
(* with the sessions and with the writers' lives, for any number of        *)
(* connections and writers and however the senders, the readers, the       *)
(* lifecycle tasks, the health monitor and the refill interleave.          *)
THEOREM RegistryStaysConsistent == Spec => []RegistryConsistent
<1>1. PoolInv => RegistryConsistent
  BY DEF PoolInv
<1> QED
  BY <1>1, PoolInitially, PoolStep, PTL DEF Spec

-----------------------------------------------------------------------------
(***************************************************************************)
(* The property holds for any number of sessions, marks and events.  What  *)
(* makes it inductive: a session that looked at an event read a claimed    *)
(* counter below it, and a place in the order belongs to the session's     *)
(* present mark or is the one the session is about to remove.              *)
(***************************************************************************)
IdleTypes ==
  /\ idlePc \in [Sessions -> {"top", "read", "oldest", "claim", "unmark", "gone"}]
  /\ latest \in [Sessions -> Nat] /\ spent \in [Sessions -> Nat] /\ idleSeen \in [Sessions -> Nat]
  /\ place \in [Sessions -> Nat] /\ after \in [Sessions -> {"top", "gone"}]
  /\ byConn \in [Sessions -> [order : Nat, pressure : Nat]]
  /\ ordered \subseteq (Nat \ {0}) \X Sessions
  /\ markSeq \in Nat /\ pressure \in Nat /\ consumed \in Nat /\ evicted \in Nat

CountersInv ==
  /\ evicted <= consumed /\ consumed <= pressure
  /\ \A s \in Sessions : idlePc[s] \in {"oldest", "claim"} => spent[s] < latest[s] /\ latest[s] <= pressure

MarksInv ==
  /\ \A s \in Sessions : /\ byConn[s] = NoMark \/ byConn[s].order > 0
                         /\ idlePc[s] \in {"unmark", "gone"} => byConn[s] = NoMark
  /\ \A e \in ordered : \/ byConn[e[2]].order = e[1]
                        \/ idlePc[e[2]] = "unmark" /\ place[e[2]] = e[1]

IdleInv == IdleTypes /\ CountersInv /\ MarksInv

LEMMA MarkGone == NoMark.order = 0 /\ NoMark \in [order : Nat, pressure : Nat]
  BY Zenon DEF NoMark

(* The start: nobody is marked and there was no event.                     *)
LEMMA IdleStart == IdleInit => IdleInv
  BY MarkGone DEF IdleInit, IdleInv, IdleTypes, CountersInv, MarksInv

(* RemoveEntry leaves the place of a removed mark to the next step.        *)
LEMMA EntryRemoved ==
  ASSUME IdleTypes, MarksInv, NEW s \in Sessions, NEW next \in {"top", "gone"},
         idlePc[s] \in {"read", "claim"}, RemoveEntry(s, next), ordered' = ordered
  PROVE  /\ idlePc' \in [Sessions -> {"top", "read", "oldest", "claim", "unmark", "gone"}]
         /\ place' \in [Sessions -> Nat] /\ after' \in [Sessions -> {"top", "gone"}]
         /\ byConn' \in [Sessions -> [order : Nat, pressure : Nat]]
         /\ idlePc'[s] \notin {"oldest", "claim"} /\ \A r \in Sessions \ {s} : idlePc'[r] = idlePc[r]
         /\ MarksInv'
<1>1. /\ byConn' = [byConn EXCEPT ![s] = NoMark]
      /\ place' = [place EXCEPT ![s] = byConn[s].order]
      /\ after' = [after EXCEPT ![s] = next]
      /\ idlePc' = [idlePc EXCEPT ![s] = IF byConn[s] = NoMark THEN next ELSE "unmark"]
  BY Zenon DEF RemoveEntry, Go
<1>2. /\ idlePc' \in [Sessions -> {"top", "read", "oldest", "claim", "unmark", "gone"}]
      /\ place' \in [Sessions -> Nat] /\ after' \in [Sessions -> {"top", "gone"}]
      /\ byConn' \in [Sessions -> [order : Nat, pressure : Nat]]
  BY <1>1, MarkGone, Zenon DEF IdleTypes
<1>3. \A r \in Sessions \ {s} : /\ byConn'[r] = byConn[r] /\ place'[r] = place[r]
                                /\ idlePc'[r] = idlePc[r]
  BY <1>1, Zenon DEF IdleTypes
<1>4. /\ byConn'[s] = NoMark /\ place'[s] = byConn[s].order
      /\ idlePc'[s] = IF byConn[s] = NoMark THEN next ELSE "unmark"
  BY <1>1, Zenon DEF IdleTypes
<1>5. \A e \in ordered' : \/ byConn'[e[2]].order = e[1]
                          \/ idlePc'[e[2]] = "unmark" /\ place'[e[2]] = e[1]
  <2> SUFFICES ASSUME NEW e \in ordered
               PROVE  \/ byConn'[e[2]].order = e[1]
                      \/ idlePc'[e[2]] = "unmark" /\ place'[e[2]] = e[1]
    BY Zenon
  <2>1. e[2] \in Sessions /\ e[1] \in Nat \ {0}
    BY Zenon DEF IdleTypes
  <2>2. byConn[e[2]].order = e[1] \/ (idlePc[e[2]] = "unmark" /\ place[e[2]] = e[1])
    BY Zenon DEF MarksInv
  <2>3. CASE e[2] # s
    BY <1>3, <2>1, <2>2, <2>3, Zenon
  <2>4. CASE e[2] = s
    BY <1>4, <2>1, <2>2, <2>4, MarkGone, Zenon
  <2> QED
    BY <2>3, <2>4, Zenon
<1>6. \A r \in Sessions : /\ byConn'[r] = NoMark \/ byConn'[r].order > 0
                          /\ idlePc'[r] \in {"unmark", "gone"} => byConn'[r] = NoMark
  BY <1>3, <1>4, Zenon DEF MarksInv
<1> QED
  BY <1>2, <1>3, <1>4, <1>5, <1>6, Zenon DEF MarksInv

(* A step that leaves marks, places and the order alone, or only takes     *)
(* places out of the order, keeps what is known of them.                   *)
LEMMA MarksKept ==
  ASSUME IdleTypes, MarksInv, NEW s \in Sessions, NEW step \in {"top", "read", "oldest", "claim"},
         idlePc[s] \in {"top", "read", "oldest", "claim"}, Go(s, step),
         byConn' = byConn, place' = place, ordered' \subseteq ordered
  PROVE  /\ idlePc' \in [Sessions -> {"top", "read", "oldest", "claim", "unmark", "gone"}]
         /\ MarksInv'
<1>1. /\ idlePc' \in [Sessions -> {"top", "read", "oldest", "claim", "unmark", "gone"}]
      /\ idlePc'[s] = step /\ \A r \in Sessions \ {s} : idlePc'[r] = idlePc[r]
  BY DEF Go, IdleTypes
<1>2. \A r \in Sessions : idlePc'[r] \in {"unmark", "gone"} => idlePc[r] \in {"unmark", "gone"}
  BY <1>1, Zenon
<1>3. \A e \in ordered : e[2] \in Sessions
  BY Zenon DEF IdleTypes
<1>4. \A e \in ordered : idlePc[e[2]] = "unmark" => idlePc'[e[2]] = "unmark"
  BY <1>1, <1>3, Zenon
<1> QED
  BY <1>1, <1>2, <1>4, Zenon DEF MarksInv

(* One step of the registry, of a session or of the pressure keeps the     *)
(* invariant.                                                              *)
LEMMA IdleStep == IdleInv /\ [IdleNext]_idleVars => IdleInv'
<1> SUFFICES ASSUME IdleInv, [IdleNext]_idleVars PROVE IdleInv'
  OBVIOUS
<1> USE DEF IdleInv
<1>1. CASE note_relay_pressure_event_in
  BY <1>1 DEF note_relay_pressure_event_in, idleLocals, IdleTypes, CountersInv, MarksInv
<1>2. ASSUME NEW s \in Sessions, mark_relay_idle_candidate_in(s) PROVE IdleInv'
  <2> DEFINE m == [order |-> markSeq + 1, pressure |-> pressure]
  <2>1. /\ idlePc[s] = "read" /\ byConn[s] = NoMark /\ markSeq' = markSeq + 1
        /\ byConn' = [byConn EXCEPT ![s] = m]
        /\ ordered' = ordered \union {<<markSeq + 1, s>>}
        /\ UNCHANGED <<idlePc, idleLocals, pressure, consumed, evicted>>
    BY <1>2, Zenon DEF mark_relay_idle_candidate_in
  <2>2. m \in [order : Nat, pressure : Nat] /\ m.order = markSeq + 1 /\ m.order > 0
    BY DEF IdleTypes
  <2> HIDE DEF m
  <2>3. byConn'[s] = m /\ \A r \in Sessions \ {s} : byConn'[r] = byConn[r]
    BY <2>1, Zenon DEF IdleTypes
  <2>4. IdleTypes'
    BY <2>1, <2>2 DEF IdleTypes, idleLocals
  <2>5. CountersInv'
    BY <2>1, Zenon DEF CountersInv, idleLocals
  <2>6. \A e \in ordered : e[2] # s
    BY <2>1, MarkGone DEF MarksInv, IdleTypes
  <2>7. \A e \in ordered : e[2] \in Sessions
    BY Zenon DEF IdleTypes
  <2>8. \A e \in ordered' : \/ byConn'[e[2]].order = e[1]
                            \/ idlePc'[e[2]] = "unmark" /\ place'[e[2]] = e[1]
    <3> SUFFICES ASSUME NEW e \in ordered'
                 PROVE  \/ byConn'[e[2]].order = e[1]
                        \/ idlePc'[e[2]] = "unmark" /\ place'[e[2]] = e[1]
      BY Zenon
    <3>1. CASE e = <<markSeq + 1, s>>
      BY <2>2, <2>3, <3>1, Zenon
    <3>2. CASE e \in ordered
      BY <2>1, <2>3, <2>6, <2>7, <3>2, Zenon DEF MarksInv, idleLocals
    <3> QED
      BY <2>1, <3>1, <3>2, Zenon
  <2>9. \A r \in Sessions : /\ byConn'[r] = NoMark \/ byConn'[r].order > 0
                            /\ idlePc'[r] \in {"unmark", "gone"} => byConn'[r] = NoMark
    BY <2>1, <2>2, <2>3, Zenon DEF MarksInv
  <2> QED
    BY <2>4, <2>5, <2>8, <2>9, Zenon DEF MarksInv
<1>3. ASSUME NEW s \in Sessions, NEW next \in {"top", "gone"}, clear_relay_idle_candidate_in(s, next)
      PROVE  IdleInv'
  <2>1. /\ idlePc[s] = "read" /\ RemoveEntry(s, next)
        /\ UNCHANGED <<idleSeen, latest, spent, ordered, markSeq, pressure, consumed, evicted>>
    BY <1>3, Zenon DEF clear_relay_idle_candidate_in
  <2>2. /\ idlePc' \in [Sessions -> {"top", "read", "oldest", "claim", "unmark", "gone"}]
        /\ place' \in [Sessions -> Nat] /\ after' \in [Sessions -> {"top", "gone"}]
        /\ byConn' \in [Sessions -> [order : Nat, pressure : Nat]]
        /\ idlePc'[s] \notin {"oldest", "claim"} /\ \A r \in Sessions \ {s} : idlePc'[r] = idlePc[r]
        /\ MarksInv'
    BY <2>1, EntryRemoved, Zenon
  <2> QED
    BY <2>1, <2>2, Zenon DEF IdleTypes, CountersInv
<1>4. ASSUME NEW s \in Sessions, RemovePlace(s) PROVE IdleInv'
  <2>1. /\ idlePc[s] = "unmark" /\ ordered' = ordered \ {<<place[s], s>>}
        /\ place' = [place EXCEPT ![s] = 0] /\ after' = [after EXCEPT ![s] = "top"]
        /\ idlePc' = [idlePc EXCEPT ![s] = after[s]]
        /\ UNCHANGED <<idleSeen, latest, spent, byConn, markSeq, pressure, consumed, evicted>>
    BY <1>4, Zenon DEF RemovePlace, Go
  <2>2. IdleTypes'
    BY <2>1, Zenon DEF IdleTypes
  <2>3. idlePc'[s] \in {"top", "gone"} /\ \A r \in Sessions \ {s} : idlePc'[r] = idlePc[r] /\ place'[r] = place[r]
    BY <2>1, Zenon DEF IdleTypes
  <2>4. CountersInv'
    BY <2>1, <2>3, Zenon DEF CountersInv
  <2>5. \A r \in Sessions : idlePc'[r] \in {"unmark", "gone"} => byConn'[r] = NoMark
    BY <2>1, <2>3, Zenon DEF MarksInv
  <2>6. \A e \in ordered' : \/ byConn'[e[2]].order = e[1]
                            \/ idlePc'[e[2]] = "unmark" /\ place'[e[2]] = e[1]
    <3> SUFFICES ASSUME NEW e \in ordered'
                 PROVE  \/ byConn'[e[2]].order = e[1]
                        \/ idlePc'[e[2]] = "unmark" /\ place'[e[2]] = e[1]
      BY Zenon
    <3>1. e \in ordered /\ e[2] \in Sessions /\ e[1] \in Nat \ {0} /\ e = <<e[1], e[2]>>
      BY <2>1 DEF IdleTypes
    <3>2. CASE e[2] # s
      BY <2>1, <2>3, <3>1, <3>2, Zenon DEF MarksInv
    <3>3. CASE e[2] = s
      BY <2>1, <3>1, <3>3, Zenon DEF MarksInv
    <3> QED
      BY <3>2, <3>3, Zenon
  <2> QED
    BY <2>1, <2>2, <2>4, <2>5, <2>6, Zenon DEF MarksInv
<1>5. ASSUME NEW s \in Sessions, WakeUp(s) PROVE IdleInv'
  <2>1. idlePc[s] = "read" /\ Go(s, "top") /\ UNCHANGED <<idleLocals, byConn, ordered, markSeq, pressure, consumed, evicted>>
    BY <1>5, Zenon DEF WakeUp
  <2>2. idlePc' \in [Sessions -> {"top", "read", "oldest", "claim", "unmark", "gone"}] /\ MarksInv'
    BY <2>1, MarksKept, Zenon DEF idleLocals
  <2>3. idlePc'[s] = "top" /\ \A r \in Sessions \ {s} : idlePc'[r] = idlePc[r]
    BY <2>1, Zenon DEF Go, IdleTypes
  <2> QED
    BY <2>1, <2>2, <2>3, Zenon DEF IdleTypes, CountersInv, idleLocals
<1>6. ASSUME NEW s \in Sessions, LookAtPressure(s) PROVE IdleInv'
  <2>1. /\ idlePc[s] = "top" /\ idleSeen' = [idleSeen EXCEPT ![s] = pressure]
        /\ UNCHANGED <<place, after, byConn, ordered, markSeq, pressure, consumed, evicted>>
    BY <1>6, Zenon DEF LookAtPressure
  <2>2. CASE pressure = idleSeen[s] \/ pressure = consumed
    <3>1. Go(s, "read") /\ UNCHANGED <<latest, spent>>
      BY <1>6, <2>2, Zenon DEF LookAtPressure
    <3>2. idlePc' \in [Sessions -> {"top", "read", "oldest", "claim", "unmark", "gone"}] /\ MarksInv'
      BY <2>1, <3>1, MarksKept, Zenon
    <3>3. idlePc'[s] = "read" /\ \A r \in Sessions \ {s} : idlePc'[r] = idlePc[r]
      BY <3>1, Zenon DEF Go, IdleTypes
    <3> QED
      BY <2>1, <3>1, <3>2, <3>3, Zenon DEF IdleTypes, CountersInv
  <2>3. CASE ~(pressure = idleSeen[s] \/ pressure = consumed)
    <3>1. /\ Go(s, "oldest") /\ latest' = [latest EXCEPT ![s] = pressure]
          /\ spent' = [spent EXCEPT ![s] = consumed]
      BY <1>6, <2>3, Zenon DEF LookAtPressure
    <3>2. idlePc' \in [Sessions -> {"top", "read", "oldest", "claim", "unmark", "gone"}] /\ MarksInv'
      BY <2>1, <3>1, MarksKept
    <3>3. /\ latest'[s] = pressure /\ spent'[s] = consumed
          /\ \A r \in Sessions \ {s} : idlePc'[r] = idlePc[r] /\ latest'[r] = latest[r] /\ spent'[r] = spent[r]
      BY <3>1, Zenon DEF Go, IdleTypes
    <3>4. consumed < pressure
      BY <2>3 DEF IdleTypes, CountersInv
    <3>5. CountersInv'
      BY <2>1, <3>3, <3>4 DEF CountersInv, IdleTypes
    <3> QED
      BY <2>1, <3>1, <3>2, <3>5, Zenon DEF IdleTypes
  <2> QED
    BY <2>2, <2>3, Zenon
<1>7. ASSUME NEW s \in Sessions, FindOldest(s) PROVE IdleInv'
  <2>1. /\ idlePc[s] = "oldest" /\ ordered' \subseteq ordered
        /\ UNCHANGED <<idleSeen, place, after, byConn, markSeq, pressure, evicted>>
        /\ consumed' = consumed \/ (consumed = spent[s] /\ consumed' = latest[s])
        /\ (Go(s, "claim") /\ UNCHANGED <<latest, spent>>) \/ (Go(s, "read") /\ ForgetPressure(s))
    BY <1>7, Zenon DEF FindOldest
  <2>2. idlePc' \in [Sessions -> {"top", "read", "oldest", "claim", "unmark", "gone"}] /\ MarksInv'
    BY <2>1, MarksKept, Zenon
  <2>3. consumed' \in Nat /\ consumed <= consumed' /\ consumed' <= pressure
    BY <2>1 DEF IdleTypes, CountersInv
  <2>4. CASE Go(s, "claim") /\ UNCHANGED <<latest, spent>>
    <3>1. \A r \in Sessions : idlePc'[r] \in {"oldest", "claim"} => idlePc[r] \in {"oldest", "claim"}
      BY <2>1, <2>4, Zenon DEF Go, IdleTypes
    <3> QED
      BY <2>1, <2>2, <2>3, <2>4, <3>1 DEF IdleTypes, CountersInv
  <2>5. CASE Go(s, "read") /\ ForgetPressure(s)
    <3>1. /\ latest' \in [Sessions -> Nat] /\ spent' \in [Sessions -> Nat] /\ idlePc'[s] = "read"
          /\ \A r \in Sessions \ {s} : idlePc'[r] = idlePc[r] /\ latest'[r] = latest[r] /\ spent'[r] = spent[r]
      BY <2>5, Zenon DEF Go, ForgetPressure, IdleTypes
    <3> QED
      BY <2>1, <2>2, <2>3, <3>1 DEF IdleTypes, CountersInv
  <2> QED
    BY <2>1, <2>4, <2>5, Zenon
<1>8. ASSUME NEW s \in Sessions, Claim(s) PROVE IdleInv'
  <2>1. idlePc[s] = "claim" /\ ForgetPressure(s) /\ UNCHANGED <<idleSeen, ordered, markSeq, pressure>>
    BY <1>8, Zenon DEF Claim
  <2>2. /\ latest' \in [Sessions -> Nat] /\ spent' \in [Sessions -> Nat]
        /\ \A r \in Sessions \ {s} : latest'[r] = latest[r] /\ spent'[r] = spent[r]
    BY <2>1, Zenon DEF ForgetPressure, IdleTypes
  <2>3. CASE consumed = spent[s]
    <3>1. consumed' = latest[s] /\ evicted' = evicted + 1 /\ RemoveEntry(s, "gone")
      BY <1>8, <2>3, Zenon DEF Claim, ClaimsEvent
    <3>2. /\ idlePc' \in [Sessions -> {"top", "read", "oldest", "claim", "unmark", "gone"}]
          /\ place' \in [Sessions -> Nat] /\ after' \in [Sessions -> {"top", "gone"}]
          /\ byConn' \in [Sessions -> [order : Nat, pressure : Nat]]
          /\ idlePc'[s] \notin {"oldest", "claim"} /\ \A r \in Sessions \ {s} : idlePc'[r] = idlePc[r]
          /\ MarksInv'
      BY <2>1, <3>1, EntryRemoved, Zenon
    <3>3. consumed' \in Nat /\ evicted' \in Nat /\ evicted' <= consumed' /\ consumed' <= pressure
      BY <2>1, <2>3, <3>1 DEF IdleTypes, CountersInv
    <3> QED
      BY <2>1, <2>2, <3>2, <3>3, Zenon DEF IdleTypes, CountersInv
  <2>4. CASE consumed # spent[s]
    <3>1. Go(s, "read") /\ UNCHANGED <<consumed, evicted, byConn, place, after>>
      BY <1>8, <2>4, Zenon DEF Claim, ClaimsEvent
    <3>2. idlePc' \in [Sessions -> {"top", "read", "oldest", "claim", "unmark", "gone"}] /\ MarksInv'
      BY <2>1, <3>1, MarksKept, Zenon
    <3>3. idlePc'[s] = "read" /\ \A r \in Sessions \ {s} : idlePc'[r] = idlePc[r]
      BY <3>1, Zenon DEF Go, IdleTypes
    <3> QED
      BY <2>1, <2>2, <3>1, <3>2, <3>3, Zenon DEF IdleTypes, CountersInv
  <2> QED
    BY <2>3, <2>4, Zenon
<1>9. CASE UNCHANGED idleVars
  BY <1>9, Zenon DEF idleVars, IdleTypes, CountersInv, MarksInv
<1> QED
  BY <1>1, <1>2, <1>3, <1>4, <1>5, <1>6, <1>7, <1>8, <1>9, Zenon DEF IdleNext

LEMMA IdleProperty == IdleInv => OneEvictionPerPressure
<1> SUFFICES ASSUME IdleInv, NEW s \in Sessions, idlePc[s] = "gone", NEW e \in ordered
             PROVE  byConn[s] = NoMark /\ e[2] # s
  BY Zenon DEF IdleInv, CountersInv, MarksInv, OneEvictionPerPressure
<1>1. byConn[s] = NoMark
  BY DEF IdleInv, MarksInv
<1>2. e[1] # 0
  BY DEF IdleInv, IdleTypes
<1> QED
  BY <1>1, <1>2, MarkGone, Zenon DEF IdleInv, MarksInv

(* For any number of sessions and events: note_relay_pressure_event_in     *)
(* evicts at most one session each, and a session that is gone has no mark *)
(* and no place in the order.                                              *)
THEOREM EvictionsFollowPressure == IdleSpec => []OneEvictionPerPressure
  BY IdleStart, IdleStep, IdleProperty, PTL DEF IdleSpec
=============================================================================
