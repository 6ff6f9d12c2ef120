------------------------------- MODULE MeHealth -------------------------------
(* The Middle-End health monitor (transport/middle_proxy/health.rs) and the  *)
(* writer caps it works under (pool.rs): one tick prunes and reaps, then, for *)
(* each address family in turn, snapshots the pool, plans a floor per DC,     *)
(* restores what is missing with one task per DC, rotates what is idle, and   *)
(* at the end moves the state of each family.  Losses, outages, binds and the *)
(* refill that a loss arms interleave with every await of the tick.           *)
(*                                                                            *)
(* Deadlines (reconnect backoff, outage backoff, idle refresh, shadow         *)
(* rotation, suppression, quarantine) carry jitter in the code, so a deadline *)
(* is here a flag that is set and passes at any later time.                   *)
EXTENDS Integers, FiniteSets, FiniteSetsExt, Sequences, SequencesExt, Functions

CONSTANTS
    Families,        \* the enabled families, in the order of the tick
    Map,             \* [Range(Families) -> [Dcs -> SUBSET Endpoints]]
    Dcs,             \* a set of integers
    Adaptive,        \* me_floor_mode is Adaptive
    Floor,           \* the least writers of a DC (3 in the code)
    Shadow,          \* me_single_endpoint_shadow_writers
    MinWriters,      \* me_adaptive_floor_min_writers_{single,multi}_endpoint
    Cap,             \* the configured cap of active writers
    Budget,          \* reconnect permits of a tick
    OutageMode,      \* me_single_endpoint_outage_mode_enabled
    Bypass,          \* me_single_endpoint_outage_disable_quarantine
    ShadowRotate,    \* me_single_endpoint_shadow_rotate_every_secs > 0
    FailThreshold,   \* FAMILY_SUPPRESS_FAIL_STREAK_THRESHOLD
    RecoverTarget,   \* FAMILY_RECOVER_SUCCESS_STREAK_TARGET
    Slots,           \* bound: writers in the pool at once
    MaxFaults,       \* bound: losses and outages
    MaxBinds,        \* bound: sessions bound
    MaxAges          \* bound: writers that become old enough to refresh

VARIABLES
    writers,   \* [Slots -> Vacant or a writer]
    up,        \* endpoints that accept a connection
    quarantine,\* endpoints in quarantine
    refill,    \* [Keys -> refill of the DC: none, armed, or its cap test]
    fam,       \* [Range(Families) -> FamilyHealthSnapshot]
    tick,      \* the monitor: phase, family, DCs to check, what it snapshot
    job,       \* [Dcs -> reconnect task of this DC or NoJob]
    deadline,  \* set of <<kind, dc, family>> whose deadline has not passed
    outage,    \* single_endpoint_outage
    faults, binds, ages

vars == <<writers, up, quarantine, refill, fam, tick, job, deadline, outage,
          faults, binds, ages>>
FamilySet == Range(Families)
Keys == Dcs \X FamilySet
MapEndpoints == UNION {Map[f][d] : f \in FamilySet, d \in Dcs}
Vacant == [st |-> "none", dc |-> 0, ep |-> "", bound |-> FALSE, old |-> FALSE]
NoJob == [pc |-> "none", left |-> 0, restored |-> 0, open |-> FALSE, ep |-> "", victim |-> 0]
NoInline == [kind |-> "none", dc |-> 0, open |-> FALSE, ep |-> "", victim |-> 0]
Healthy == [state |-> "Healthy", held |-> FALSE, fails |-> 0, oks |-> 0]
Idle == [phase |-> "sleep", fam |-> 1, todo |-> {}, target |-> [d \in Dcs |-> 0],
         cap |-> 0, alive |-> [d \in Dcs |-> 0], idle |-> {},
         old |-> {}, degraded |-> {}, inline |-> NoInline]

Gone == -1
F == Families[tick.fam]
Key(d) == <<d, F>>
Active == {w \in Slots : writers[w].st = "active"}
ActiveAt(d, es) == {w \in Active : writers[w].dc = d /\ writers[w].ep \in es}
Free == {w \in Slots : writers[w].st = "none"}
Max2(a, b) == IF a >= b THEN a ELSE b
Min2(a, b) == IF a <= b THEN a ELSE b
------------------------------------------------------------------------------
(* Floors and caps.                                                          *)

required_writers_for_dc(n) ==
    IF n = 0 THEN 0 ELSE IF n = 1 THEN Max2(1 + Shadow, Floor) ELSE Max2(n, Floor)

\* The class maximum adds to the base floor, where the target already starts,
\* so it never cuts a target.
adaptive_floor_class_min(n) ==
    Min2(Max2(MinWriters, 1), Max2(required_writers_for_dc(n), 1))

\* family_enabled_for_drain_coverage
Covering == {f \in FamilySet : ~fam[f].held}


\* active_coverage_required_total
CoverageRequired ==
    MapThenSumSet(LAMBDA d : required_writers_for_dc(
                      Cardinality(UNION {Map[f][d] : f \in Covering})), Dcs)

\* The coverage override, which only the initial fill of the pool passes,
\* lets a DC reach its floor when the cap is already used up.
can_open_writer_for_contour(override, d) ==
    \/ Cardinality(Active) < Cap
    \/ /\ override
       /\ LET n == MapThenSumSet(LAMBDA f : Cardinality(Map[f][d]), Covering) IN
          \/ n > 0 /\ Cardinality(ActiveAt(d, MapEndpoints)) < required_writers_for_dc(n)
          \/ Cardinality(Active) < CoverageRequired

\* The endpoints a round robin tries: those out of quarantine; all of them
\* when none is, after the wait for the first expiry.
connectable_endpoints(es) ==
    IF (Cardinality(es) = 1 /\ Bypass) \/ es \subseteq quarantine
    THEN es ELSE es \ quarantine

\* One connect attempt over es, whose cap test gave open when it began: the
\* endpoint it lands on, "" when it fails.  Each further candidate of a round
\* robin is tested against the cap again.
ConnectOutcomes(d, es, open) ==
    IF ~open \/ Free = {} \/ es \cap up = {} THEN {""}
    ELSE (es \cap up) \cup
         IF es \subseteq up \/ can_open_writer_for_contour(FALSE, d) THEN {} ELSE {""}

Landed(w, d, e) == [writers EXCEPT ![w] =
    [st |-> "active", dc |-> d, ep |-> e, bound |-> FALSE, old |-> FALSE]]
NextSlot == CHOOSE w \in Free : \A v \in Free : w <= v
Joined(d, e) == IF e = "" THEN writers ELSE Landed(NextSlot, d, e)
------------------------------------------------------------------------------
(* The floor plan of a family.                                               *)

\* The order in which DCs give up a writer: idle ones first, then the ones
\* with the most to give, the most alive, and the smallest number.
GivesUpBefore(p, a, b) ==
    LET k(d) == <<IF p.busy[d] THEN 1 ELSE 0,
                  p.min[d] - p.base[d], 0 - p.alive[d], d>>
    IN  \E i \in 1..4 : k(a)[i] < k(b)[i] /\ \A j \in 1..(i - 1) : k(a)[j] = k(b)[j]

\* Rounds over the DCs in that order, one writer from each that is above its
\* minimum, until the targets fit.  After(k) is what k turns leave.
Compressed(p, ds, cap) ==
    LET n == Cardinality(ds)
        before == [d \in ds |-> Cardinality({e \in ds : GivesUpBefore(p, e, d)})]
        turns(d, k) == (k + n - 1 - before[d]) \div n
        After(k) == [d \in Dcs |-> IF d \in ds /\ p.base[d] > p.min[d]
                                   THEN Max2(p.base[d] - turns(d, k), p.min[d])
                                   ELSE p.base[d]]
        last == n * Max({p.base[d] : d \in ds})
    IN  After(Min({k \in 0..last : k = last \/ SumFunctionOnSet(After(k), ds) <= cap}))

\* What the plan of a family is made from: per DC its floor, its minimum, its
\* active writers and whether one of them has a session.
FloorInputs(f) ==
    LET n(d) == Cardinality(Map[f][d]) IN
    [base  |-> [d \in Dcs |-> required_writers_for_dc(n(d))],
     min   |-> [d \in Dcs |-> IF Adaptive THEN adaptive_floor_class_min(n(d))
                              ELSE required_writers_for_dc(n(d))],
     alive |-> [d \in Dcs |-> Cardinality(ActiveAt(d, Map[f][d]))],
     busy  |-> [d \in Dcs |-> \E w \in ActiveAt(d, Map[f][d]) : writers[w].bound]]

build_family_floor_plan(f, p) ==
    LET ds == {d \in Dcs : Map[f][d] # {}}
        other == Cardinality(Active) - SumFunctionOnSet(p.alive, ds)
        minSum == SumFunctionOnSet(p.min, ds)
        famCap == Max2(Cap - other, minSum)
    IN  IF ds = {} THEN [target |-> p.base, cap |-> Cap, alive |-> p.alive]
        ELSE IF ~Adaptive
        THEN [target |-> p.base, alive |-> p.alive,
              cap |-> Max2(Cap, SumFunctionOnSet(p.base, ds))]
        ELSE [target |-> Compressed(p, ds, famCap), alive |-> p.alive,
              cap |-> Max2(Cap, other + minSum)]
------------------------------------------------------------------------------
Init ==
    /\ writers = [w \in Slots |-> Vacant]
    /\ up = MapEndpoints
    /\ quarantine = {} /\ refill = [k \in Keys |-> "none"] /\ deadline = {} /\ outage = {}
    /\ fam = [f \in FamilySet |-> Healthy]
    /\ tick = [Idle EXCEPT !.phase = "boot"]
    /\ job = [d \in Dcs |-> NoJob]
    /\ faults = 0 /\ binds = 0 /\ ages = 0

\* Stage 1 of MePool::init: the whole floor of a single-endpoint DC, one
\* writer of the others, past the cap, family after family (multipath).
\* Stage 2 saturates the rest without the override, as the monitor does.
Primary(n) == IF n = 1 THEN required_writers_for_dc(n) ELSE 1
Unfilled ==
    {k \in (DOMAIN Families) \X Dcs :
        LET es == Map[Families[k[1]]][k[2]] IN
        /\ es \cap up # {}
        /\ Cardinality(ActiveAt(k[2], es)) < Primary(Cardinality(es))
        /\ can_open_writer_for_contour(TRUE, k[2])}

Boot ==
    /\ tick.phase = "boot"
    /\ IF Unfilled = {} THEN tick' = Idle /\ UNCHANGED writers
       ELSE LET i == Min({k[1] : k \in Unfilled})
                d == Min({k[2] : k \in {x \in Unfilled : x[1] = i}}) IN
            /\ \E e \in ConnectOutcomes(d, Map[Families[i]][d], TRUE) : writers' = Joined(d, e)
            /\ UNCHANGED tick
    /\ UNCHANGED <<up, quarantine, refill, fam, job, deadline, outage, faults, binds, ages>>

\* Wake up, sweep the quarantine of what is no longer configured, reap the
\* draining writers without sessions, and start with the first family.
TickStarts ==
    /\ tick.phase = "sleep"
    /\ writers' = [w \in Slots |-> IF writers[w].st = "draining" /\ ~writers[w].bound
                                   THEN Vacant ELSE writers[w]]
    /\ tick' = [Idle EXCEPT !.phase = "plan"]
    /\ UNCHANGED <<up, quarantine, refill, fam, job, deadline, outage, faults, binds, ages>>

\* The head of check_family: everything it later decides with is read here.
Plan ==
    /\ tick.phase = "plan"
    /\ \E inputs \in {FloorInputs(F)} : \E p \in {build_family_floor_plan(F, inputs)} :
       LET live == UNION {ActiveAt(d, Map[F][d]) : d \in Dcs}
           idle == {w \in live : ~writers[w].bound}
       IN  tick' = [tick EXCEPT !.phase = "dcs", !.todo = {d \in Dcs : Map[F][d] # {}},
                        !.target = p.target, !.cap = p.cap, !.alive = p.alive,
                        !.idle = idle,
                        !.old = {w \in idle : writers[w].old}]
    /\ UNCHANGED <<writers, up, quarantine, refill, fam, job, deadline, outage,
                   faults, binds, ages>>

SnapIdle(d) == {w \in tick.idle : writers[w].dc = d /\ writers[w].ep \in Map[F][d]}
Held == Cardinality({d \in Dcs : job[d].pc = "connect"})
Permits == Budget - Held
Next_(d) == [tick EXCEPT !.todo = @ \ {d}]
Waits(kind, d) == deadline' = deadline \cup {<<kind, d, F>>}
Waiting(kind, d) == <<kind, d, F>> \in deadline
Only(d) == CHOOSE e \in Map[F][d] : TRUE
Attempt(kind, d, e, w) == [kind |-> kind, dc |-> d, ep |-> e, victim |-> w,
                           open |-> can_open_writer_for_contour(FALSE, d)]

\* A single-endpoint DC without a writer: one attempt in line, past the
\* quarantine when that is configured.
recover_single_endpoint_outage(d) ==
    IF Waiting("outage", d) THEN tick' = [Next_(d) EXCEPT !.degraded = @ \cup {F}]
                                 /\ UNCHANGED deadline
    ELSE IF Permits = 0
    THEN /\ tick' = [Next_(d) EXCEPT !.degraded = @ \cup {F}]
         /\ Waits("outage", d)
    ELSE /\ tick' = [Next_(d) EXCEPT !.degraded = @ \cup {F},
                                      !.inline = Attempt("outage", d, Only(d), 0)]
         /\ UNCHANGED deadline

InOutage(d) == Cardinality(Map[F][d]) = 1 /\ OutageMode /\ tick.alive[d] = 0

\* A DC at its floor: the idle writer that is due is replaced first; the
\* shadow rotation of a single endpoint follows in the same pass.
maybe_refresh_idle_writer_for_dc(d) ==
    LET due == SnapIdle(d) \cap tick.old IN
    /\ ~Waiting("idle", d) /\ due # {}
    /\ \E w \in due : tick' = [tick EXCEPT !.old = @ \ SnapIdle(d), 
                                         !.inline = Attempt("idle", d, writers[w].ep, w)]
    /\ UNCHANGED deadline
NoRefresh(d) == Waiting("idle", d) \/ SnapIdle(d) \cap tick.old = {}

maybe_rotate_single_endpoint_shadow(d) ==
    IF Cardinality(Map[F][d]) # 1 \/ ~ShadowRotate \/ Waiting("shadow", d)
    THEN tick' = Next_(d) /\ UNCHANGED deadline
    ELSE IF Only(d) \in quarantine \/ SnapIdle(d) = {}
    THEN tick' = Next_(d) /\ Waits("shadow", d)
    ELSE /\ \E w \in SnapIdle(d) :
               tick' = [Next_(d) EXCEPT !.inline = Attempt("shadow", d, Only(d), w)]
         /\ UNCHANGED deadline

\* A DC below its floor: a task for what is missing, unless the permits are
\* gone, the backoff runs, or a refill of this DC is in flight.
SpawnReconnect(d) ==
    LET t == [Next_(d) EXCEPT !.degraded = @ \cup {F}] IN
    /\ tick' = t
    /\ IF Permits = 0 THEN Waits("retry", d) /\ UNCHANGED job
       ELSE /\ UNCHANGED deadline
            /\ IF Waiting("retry", d) \/ refill[Key(d)] # "none" THEN UNCHANGED job
               ELSE job' = [job EXCEPT ![d] = [NoJob EXCEPT !.pc = "next",
                                !.left = tick.target[d] - tick.alive[d]]]

LeftOutage(d) == {x \in deadline : x[2] = d /\ x[3] = F /\ x[1] \in {"outage", "shadow", "idle"}}

CheckDc(d) ==
    /\ tick.phase = "dcs" /\ tick.inline = NoInline /\ d \in tick.todo
    /\ IF InOutage(d)
       THEN /\ recover_single_endpoint_outage(d)
            /\ outage' = outage \cup {Key(d)}
            /\ UNCHANGED job
       ELSE IF Key(d) \in outage
       THEN \* the outage is over: its deadlines go, then the DC is checked
            /\ outage' = outage \ {Key(d)}
            /\ deadline' = deadline \ LeftOutage(d)
            /\ UNCHANGED <<tick, job>>
       ELSE /\ UNCHANGED outage
            /\ IF tick.alive[d] < tick.target[d] THEN SpawnReconnect(d)
               ELSE /\ UNCHANGED job
                    /\ \/ maybe_refresh_idle_writer_for_dc(d)
                       \/ NoRefresh(d) /\ maybe_rotate_single_endpoint_shadow(d)
    /\ UNCHANGED <<writers, up, quarantine, refill, fam, faults, binds, ages>>

\* The end of an attempt in line.  The old writer drains only after the new
\* one has joined; a failure sets the deadline of the next attempt, and so
\* does a success.
Drained(ws, w) == IF w \in {0, Gone} \/ ws[w].st # "active" THEN ws
                  ELSE [ws EXCEPT ![w].st = "draining"]

InlineEnds ==
    /\ tick.inline # NoInline
    /\ LET x == tick.inline
           es == IF x.kind = "outage" /\ ~Bypass THEN connectable_endpoints({x.ep})
                 ELSE {x.ep}
       IN \E e \in ConnectOutcomes(x.dc, es, x.open) :
          /\ writers' = IF e = "" THEN writers
                        ELSE Drained(Joined(x.dc, e), x.victim)
          /\ Waits(x.kind, x.dc)
    /\ tick' = [tick EXCEPT !.inline = NoInline]
    /\ UNCHANGED <<up, quarantine, refill, fam, job, outage, faults, binds, ages>>
------------------------------------------------------------------------------
(* The reconnect task of a DC.                                               *)

JobDone(d) == job' = [job EXCEPT ![d] = [NoJob EXCEPT !.pc = "done"]]
Trying(j, d, w) == [j EXCEPT !.pc = "connect", !.victim = w,
                        !.ep = IF w = 0 THEN "" ELSE writers[w].ep,
                        !.open = can_open_writer_for_contour(FALSE, d)]
AtBase(d) == tick.alive[d] + job[d].restored >=
                 required_writers_for_dc(Cardinality(Map[F][d]))

\* maybe_swap_idle_writer_for_cap: at the cap, an idle writer of the DC is
\* replaced by one on the same endpoint instead of adding a writer.
maybe_swap_idle_writer_for_cap(d) ==
    \E w \in SnapIdle(d) : job' = [job EXCEPT ![d] = Trying(@, d, w)]

\* One turn of the task takes a permit; at the cap it swaps, gives up when
\* the DC has its base floor, and otherwise tries as below the cap.
JobNext(d) ==
    /\ job[d].pc = "next"
    /\ LET full == Cardinality(Active) >= tick.cap IN
       IF job[d].left = 0 \/ Permits = 0 THEN JobDone(d)
       ELSE IF full /\ SnapIdle(d) # {} THEN maybe_swap_idle_writer_for_cap(d)
       ELSE IF full /\ AtBase(d) THEN JobDone(d)
       ELSE job' = [job EXCEPT ![d] = Trying(@, d, 0)]
    /\ UNCHANGED <<writers, up, quarantine, refill, fam, tick, deadline, outage,
                   faults, binds, ages>>

\* The attempt ends.  A failed swap goes on to the cap test of this turn; a
\* plain attempt uses the turn up either way.
JobConnects(d) ==
    /\ job[d].pc = "connect"
    /\ LET j == job[d]
           es == IF j.victim # 0 THEN {j.ep} ELSE connectable_endpoints(Map[F][d])
           turn(n) == [NoJob EXCEPT !.pc = "next", !.left = j.left - 1,
                                    !.restored = j.restored + n]
       IN \E e \in ConnectOutcomes(d, es, j.open) :
          /\ writers' = IF e = "" THEN writers ELSE Drained(Joined(d, e), j.victim)
          /\ job' = [job EXCEPT ![d] =
                IF e # "" THEN turn(1)
                ELSE IF j.victim = 0 THEN turn(0)
                ELSE IF AtBase(d) THEN [NoJob EXCEPT !.pc = "done"]
                ELSE Trying(j, d, 0)]
    /\ UNCHANGED <<up, quarantine, refill, fam, tick, deadline, outage, faults, binds, ages>>

\* join_next: the backoff of the DC restarts or doubles; either way the next
\* attempt has a deadline.
Join(d) ==
    /\ tick.phase = "dcs" /\ tick.todo = {} /\ tick.inline = NoInline
    /\ job[d].pc = "done"
    /\ job' = [job EXCEPT ![d] = NoJob]
    /\ Waits("retry", d)
    /\ UNCHANGED <<writers, up, quarantine, refill, fam, tick, outage, faults, binds, ages>>

FamilyChecked ==
    /\ tick.phase = "dcs" /\ tick.todo = {} /\ tick.inline = NoInline
    /\ \A d \in Dcs : job[d] = NoJob
    /\ tick' = IF tick.fam < Len(Families)
               THEN [Idle EXCEPT !.phase = "plan", !.fam = tick.fam + 1,
                                 !.degraded = tick.degraded]
               ELSE [Idle EXCEPT !.phase = "update", !.degraded = tick.degraded]
    /\ UNCHANGED <<writers, up, quarantine, refill, fam, job, deadline, outage,
                   faults, binds, ages>>
------------------------------------------------------------------------------
(* The state of a family.                                                    *)

\* Mutant: a family that recovers starts counting again on every tick.
ForgetsStreak(h, degraded) ==
    IF h.held THEN [state |-> "Suppressed", held |-> TRUE, oks |-> 0,
                    fails |-> Min2(FailThreshold, h.fails + (IF degraded THEN 1 ELSE 0))]
    ELSE IF degraded
    THEN IF h.fails + 1 >= FailThreshold
         THEN [state |-> "Suppressed", held |-> TRUE, fails |-> FailThreshold, oks |-> 0]
         ELSE [state |-> "Degraded", held |-> FALSE, fails |-> h.fails + 1, oks |-> 0]
    ELSE IF h.state = "Healthy" THEN Healthy
    ELSE [state |-> "Recovering", held |-> FALSE, fails |-> 0, oks |-> 1]

\* fails saturates at the threshold: only its comparison with it is read.
update_family_runtime_state(h, degraded) ==
    IF h.held THEN [state |-> "Suppressed", held |-> TRUE, oks |-> 0,
                    fails |-> Min2(FailThreshold, h.fails + (IF degraded THEN 1 ELSE 0))]
    ELSE IF degraded
    THEN IF h.fails + 1 >= FailThreshold
         THEN [state |-> "Suppressed", held |-> TRUE, fails |-> FailThreshold, oks |-> 0]
         ELSE [state |-> "Degraded", held |-> FALSE, fails |-> h.fails + 1, oks |-> 0]
    ELSE IF h.state = "Healthy" \/ h.oks + 1 >= RecoverTarget THEN Healthy
    ELSE [state |-> "Recovering", held |-> FALSE, fails |-> 0, oks |-> h.oks + 1]

Update ==
    /\ tick.phase = "update"
    /\ fam' = [f \in FamilySet |-> update_family_runtime_state(fam[f], f \in tick.degraded)]
    /\ tick' = Idle
    /\ UNCHANGED <<writers, up, quarantine, refill, job, deadline, outage, faults, binds, ages>>

Monitor == \/ Boot \/ TickStarts \/ Plan \/ InlineEnds \/ FamilyChecked \/ Update
           \/ \E d \in Dcs : CheckDc(d) \/ JobNext(d) \/ JobConnects(d) \/ Join(d)
------------------------------------------------------------------------------
(* What happens around the monitor.                                          *)

\* The id of a lost writer stays in the snapshots and finds nothing.
DcFamily(w) == <<writers[w].dc, CHOOSE f \in FamilySet : writers[w].ep \in Map[f][writers[w].dc]>>
Forget(gone) ==
    /\ tick' = [tick EXCEPT !.idle = @ \ gone, !.old = @ \ gone,
                    !.inline = IF @.victim \in gone THEN [@ EXCEPT !.victim = Gone] ELSE @]
    /\ job' = [d \in Dcs |-> IF job[d].victim \in gone
                           THEN [job[d] EXCEPT !.victim = Gone] ELSE job[d]]

\* Writers on an endpoint are lost: each leaves the pool, the endpoint may
\* count as flapping, and the first loss of a DC arms its refill.
Lose(ws, flapping) ==
    /\ writers' = [w \in Slots |-> IF w \in ws THEN Vacant ELSE writers[w]]
    /\ refill' = [k \in Keys |->
           IF refill[k] = "none" /\ \E w \in ws \cap Active : DcFamily(w) = k
           THEN "armed" ELSE refill[k]]
    /\ quarantine' = IF flapping THEN quarantine \cup {writers[w].ep : w \in ws \cap Active}
                     ELSE quarantine
    /\ Forget(ws)

WriterLost ==
    /\ faults < MaxFaults /\ tick.phase # "boot"
    /\ \E w \in Active, flapping \in BOOLEAN : Lose({w}, flapping)
    /\ faults' = faults + 1
    /\ UNCHANGED <<up, fam, deadline, outage, binds, ages>>

EndpointDown ==
    /\ faults < MaxFaults /\ tick.phase # "boot"
    /\ \E e \in up : /\ up' = up \ {e}
                     /\ Lose({w \in Slots : writers[w].ep = e}, FALSE)
    /\ faults' = faults + 1
    /\ UNCHANGED <<fam, deadline, outage, binds, ages>>

EndpointUp ==
    /\ up # MapEndpoints
    /\ up' = MapEndpoints
    /\ UNCHANGED <<writers, quarantine, refill, fam, tick, job, deadline, outage,
                   faults, binds, ages>>

\* refill_writer_after_loss: the same endpoint unless it is in quarantine,
\* then the other endpoints of the DC whose family is not suppressed.
RefillTries(k) ==
    /\ refill[k] = "armed"
    /\ refill' = [refill EXCEPT ![k] =
           IF can_open_writer_for_contour(FALSE, k[1]) THEN "open" ELSE "shut"]
    /\ UNCHANGED <<writers, up, quarantine, fam, tick, job, deadline, outage,
                   faults, binds, ages>>

RefillEnds(k) ==
    /\ refill[k] \in {"open", "shut"}
    /\ LET es == UNION {Map[f][k[1]] : f \in Covering} IN
       \E e \in ConnectOutcomes(k[1], connectable_endpoints(es), refill[k] = "open") :
          writers' = Joined(k[1], e)
    /\ refill' = [refill EXCEPT ![k] = "none"]
    /\ UNCHANGED <<up, quarantine, fam, tick, job, deadline, outage, faults, binds, ages>>

Bind ==
    /\ binds < MaxBinds
    /\ \E w \in Active : /\ ~writers[w].bound
                         /\ writers' = [writers EXCEPT ![w].bound = TRUE, ![w].old = FALSE]
    /\ binds' = binds + 1
    /\ UNCHANGED <<up, quarantine, refill, fam, tick, job, deadline, outage, faults, ages>>

\* A session ends, or the deadline of a draining writer closes it.
Unbind ==
    /\ \E w \in Slots : /\ writers[w].bound
                        /\ writers' = [writers EXCEPT ![w].bound = FALSE]
    /\ UNCHANGED <<up, quarantine, refill, fam, tick, job, deadline, outage,
                   faults, binds, ages>>

GrowsOld ==
    /\ ages < MaxAges
    /\ \E w \in Active : /\ ~writers[w].bound /\ ~writers[w].old
                         /\ writers' = [writers EXCEPT ![w].old = TRUE]
    /\ ages' = ages + 1
    /\ UNCHANGED <<up, quarantine, refill, fam, tick, job, deadline, outage, faults, binds>>

DeadlinePasses(x) ==
    /\ x \in deadline
    /\ deadline' = deadline \ {x}
    /\ UNCHANGED <<writers, up, quarantine, refill, fam, tick, job, outage,
                   faults, binds, ages>>

SuppressionPasses ==
    /\ \E f \in FamilySet : fam[f].held /\ fam' = [fam EXCEPT ![f].held = FALSE]
    /\ UNCHANGED <<writers, up, quarantine, refill, tick, job, deadline, outage,
                   faults, binds, ages>>

QuarantinePasses ==
    /\ quarantine # {}
    /\ quarantine' = {}
    /\ UNCHANGED <<writers, up, refill, fam, tick, job, deadline, outage, faults, binds, ages>>

Deadlines == {"retry", "outage", "idle", "shadow"} \X Dcs \X FamilySet
Next ==
    \/ Monitor
    \/ WriterLost \/ EndpointDown \/ EndpointUp \/ Bind \/ Unbind \/ GrowsOld
    \/ SuppressionPasses \/ QuarantinePasses
    \/ \E k \in Keys : RefillTries(k) \/ RefillEnds(k)
    \/ \E x \in Deadlines : DeadlinePasses(x)

\* The monitor is one task with timers; connects end by a timeout; outages
\* end; sessions end.
Fairness ==
    /\ WF_vars(Monitor)
    /\ WF_vars(EndpointUp) /\ WF_vars(Unbind) /\ WF_vars(SuppressionPasses)
    /\ WF_vars(QuarantinePasses)
    /\ \A k \in Keys : WF_vars(RefillTries(k) \/ RefillEnds(k))
    /\ \A x \in Deadlines : WF_vars(DeadlinePasses(x))

Spec == Init /\ [][Next]_vars /\ Fairness
------------------------------------------------------------------------------
(* Properties.                                                               *)

AtFloor(f, d) == Cardinality(ActiveAt(d, Map[f][d])) >=
                     required_writers_for_dc(Cardinality(Map[f][d]))

\* When losses and outages stop, every DC comes back to its floor in every
\* family and stays there through the monitor's own rotations, and every
\* family ends up Healthy (check_family, update_family_runtime_state).
Recovered ==
    \A f \in FamilySet : /\ fam[f] = Healthy
                         /\ \A d \in Dcs : Map[f][d] # {} => AtFloor(f, d)
PoolRecovers == <>[]Recovered

=============================================================================
