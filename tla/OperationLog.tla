---------------------------- MODULE OperationLog ----------------------------
(***************************************************************************)
(* What the operation records promise to whoever reads them later: each    *)
(* guarded operation is recorded when it is planned, once more before its  *)
(* single request, and a last time with the verdict.  The guarded engine   *)
(* and the files that hold the records both implement this.                *)
(***************************************************************************)
CONSTANT Runs

VARIABLES
    log,    \* the result field of each record, as a reader finds it
    sent    \* whether the request of the operation has left the machine

vars == <<log, sent>>

Refusals == {"REFUSED_AUTHORIZATION", "REFUSED_IDENTITY_RECHECK_FAILED",
             "REFUSED_IDENTITY_MISMATCH", "REFUSED_FRESHNESS_RECHECK_FAILED",
             "REFUSED_STALE_APPROVAL", "REFUSED_RUNTIME_SAFETY_CHECK"}
Verdicts == {"APPLIED", "NOT_APPLIED", "AMBIGUOUS_REQUIRES_REVIEW"}

Init ==
    /\ log = [r \in Runs |-> "NO_RECORD"]
    /\ sent = [r \in Runs |-> FALSE]

Becomes(r, result) ==
    /\ log' = [log EXCEPT ![r] = result]
    /\ UNCHANGED sent

Record(r) == log[r] = "NO_RECORD" /\ Becomes(r, "PLANNED_NO_WRITE")

Refuse(r) ==
    /\ log[r] = "PLANNED_NO_WRITE"
    /\ \E result \in Refusals : Becomes(r, result)

Attempt(r) == log[r] = "PLANNED_NO_WRITE" /\ Becomes(r, "WRITE_ATTEMPTED")

Send(r) ==
    /\ log[r] = "WRITE_ATTEMPTED" /\ ~sent[r]
    /\ sent' = [sent EXCEPT ![r] = TRUE]
    /\ UNCHANGED log

Conclude(r) ==
    /\ log[r] = "WRITE_ATTEMPTED" /\ sent[r]
    /\ \E result \in Verdicts : Becomes(r, result)

Next ==
    \E r \in Runs : Record(r) \/ Refuse(r) \/ Attempt(r) \/ Send(r) \/ Conclude(r)

Spec == Init /\ [][Next]_vars
=============================================================================
