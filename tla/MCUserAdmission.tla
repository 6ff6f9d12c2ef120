--------------------------- MODULE MCUserAdmission ---------------------------
(* An instance of UserAdmission for TLC.  The regime of a behaviour says    *)
(* who connects and which control operations happen meanwhile: two tasks of *)
(* a user limited to one connection, two tasks of a user from two addresses,*)
(* undisturbed or while the limits are reloaded, or two tasks of one        *)
(* address while the control API disables users and changes the mode and    *)
(* the telemetry, or deletes users.                                         *)
EXTENDS UserAdmission

CONSTANTS a1, a2

VARIABLE regime

MCConnLimit == [u \in Users |-> IF u = "alice" THEN 1 ELSE 2]

RegimeOps ==
  [limited |-> {}, roaming |-> {}, disable |-> {"disable", "mode", "telemetry"},
   delete |-> {"delete"}, reload |-> {"reload"}]
Clients == CASE regime = "limited" -> {<<"alice", a1>>}
             [] regime \in {"roaming", "reload"} -> {<<"bob", a1>>, <<"bob", a2>>}
             [] OTHER -> {<<"bob", a1>>}

regimeVars == <<vars, regime>>

RegimeInit == Init /\ regime \in DOMAIN RegimeOps /\ ops = RegimeOps[regime]

RegimeNext ==
  /\ Next
  /\ \A s \in Sessions : entry'[s] \in {NoEntry} \cup Clients
  /\ \A u \in Users : pending'[u] \in {"none", "insert"} \/ \E e \in Clients : e[1] = u
  /\ UNCHANGED regime

\* The steps under fairness bring no new client, so they are RegimeNext steps.
RegimeSpec ==
  /\ RegimeInit /\ [][RegimeNext]_regimeVars
  /\ \A s \in Sessions : /\ WF_regimeVars(TaskStep(s) /\ UNCHANGED regime)
                         /\ WF_regimeVars(s \in cancelled /\ Finish(s) /\ UNCHANGED regime)
  /\ \A t \in Drainers : /\ WF_regimeVars(TakeBatch(t) /\ UNCHANGED regime)
                         /\ WF_regimeVars(ApplyTaken(t) /\ UNCHANGED regime)
  /\ \A u \in Users : WF_regimeVars(CancelUserSessions(u) /\ UNCHANGED regime)
=============================================================================
