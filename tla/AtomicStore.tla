----------------------------- MODULE AtomicStore -----------------------------
(***************************************************************************)
(* What the control API promises about the configuration: every mutation   *)
(* that changes it is one whole request, applied to the configuration as   *)
(* it stands at that moment.  Outcome(cfg, op) is the decision about a     *)
(* request: a code, and the configuration it leaves.                       *)
(***************************************************************************)
CONSTANTS Tables, validate(_), Ops, Outcome(_, _)

VARIABLE table

Init == table \in Tables /\ validate(table)

Apply(op) ==
    /\ op.kind # "reload"
    /\ Outcome(table, op).code = "ok"
    /\ table' = Outcome(table, op).cfg

Next == \E op \in Ops : Apply(op)
=============================================================================
