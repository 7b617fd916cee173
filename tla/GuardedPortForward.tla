------------------------- MODULE GuardedPortForward -------------------------
(***************************************************************************)
(* The guarded engine with the callbacks of the port-forward operations    *)
(* (its constant operators are given those of PortForward): what a delete  *)
(* and a restore owe the table of forwards and what is derived from it.    *)
(***************************************************************************)
EXTENDS GuardedMutator, PortForward

\* A run reports APPLIED and nobody else changed anything since its refetch
\* began.
AppliedAlone(r) ==
    /\ journal[r] = "WRITE_ATTEMPTED" /\ journal'[r] = "APPLIED"
    /\ "freshness" \notin touched[r]

\* APPLIED, said of a delete by a run that was alone, is true: its request has
\* taken effect, no forward has that id or that meaning, and the controller
\* has taken back what it had derived from it (verify).
DeletedMeansGone ==
    [][\A r \in Runs : (AppliedAlone(r) /\ Op(r).kind = "delete") =>
         LET sense == mem[r].seen["rest/portforward/id"].sense
         IN  /\ wire[r] = "applied"
             /\ ctl.forwards[Op(r).id] = Absent /\ Alike(ctl.forwards, sense) = {}
             /\ Related(ctl.policies, Op(r).id, sense) = {}
             /\ Related(ctl.status, Op(r).id, sense) = {}]_vars

\* When the run read it again, nothing was left of what the controller had
\* derived from the forward when it was still there, or from another like it.
\* (What planning read is no measure of it: the forwarding status is not in
\* the precondition and may have come back in between.)
NothingLeftBehind(r) ==
    LET sense == mem[r].seen["original"]
    IN  /\ Related(mem[r].fresh["firewall/policies"], Op(r).id, sense) = {}
        /\ Related(mem[r].fresh["stat/portforward"], Op(r).id, sense) = {}

\* APPLIED, said of a restore by a run that was alone and whose refetch found
\* the controller cleared, is true: the restored forward is the only one of
\* its meaning, and it is in force.
RestoredMeansOnce ==
    [][\A r \in Runs :
         (AppliedAlone(r) /\ Op(r).kind = "restore" /\ NothingLeftBehind(r)) =>
         LET sense == mem[r].seen["original"]
         IN  /\ wire[r] = "applied"
             /\ Alike(ctl.forwards, sense) = {r}
             /\ Related(ctl.policies, r, sense) # {}
             /\ Related(ctl.status, r, sense) # {}]_vars

\* A restore puts no second forward of the same meaning next to one that was
\* there, unless somebody changed something after its refetch began
\* (validate_restore_runtime).
RestoreAddsNoDuplicate ==
    [][\A r \in Runs :
         (/\ wire[r] = "accepted" /\ wire'[r] = "applied"
          /\ Op(r).kind = "restore" /\ "freshness" \notin touched[r]) =>
           Alike(ctl'.forwards, body[r]) = {r}]_vars

\* The token in the command line was printed for the restoration of this.
RestoreApproved(r, object) ==
    /\ cmd[r].approval.material.operation = "restore"
    /\ cmd[r].approval.material.after = object

\* The object on its way to the controller is the one the token was printed
\* for, whatever happens to the snapshot file between plan and request.
SendsTheApprovedObject ==
    \A r \in Runs : (wire[r] # "idle" /\ Op(r).kind = "restore") =>
        RestoreApproved(r, body[r])
=============================================================================
