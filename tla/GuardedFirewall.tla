--------------------------- MODULE GuardedFirewall ---------------------------
(***************************************************************************)
(* The guarded engine with the callbacks of the firewall operations (its   *)
(* constant operators are given those of FirewallPolicy): what create,     *)
(* update and delete owe the policy table.                                 *)
(***************************************************************************)
EXTENDS GuardedMutator, FirewallPolicy

\* At first no run has created anything, people have made what policies they
\* own, and the system has its block policy and the return policies of these.
ASSUME StartAssumption ==
    \A c \in InitStates :
        /\ c.policies[SystemBlock] = BlockPolicy
        /\ Requests \cap Present(c.policies) = {}
        /\ \A i \in Owned : c.policies[i] \in Policies \cup {Absent}
        /\ Settled(c) = c

\* A run reports APPLIED and nobody else changed the configuration since its
\* refetch began.
AppliedUndisturbed(r) ==
    /\ journal[r] = "WRITE_ATTEMPTED"
    /\ journal'[r] = "APPLIED"
    /\ "freshness" \notin touched[r]

\* The policy has what the operation asks for.
Carries(policy, op) ==
    /\ op.meaning \in {AsIs, policy.meaning}
    /\ op.name \in {AsIs, policy.name}
    /\ op.schedule \in {AsIs, policy.schedule}
    /\ policy.origin = "USER_DEFINED"

\* What the operation was approved to bring about holds in the table.
Done(r, table) ==
    LET op == Op(r)
    IN  CASE op.kind = "create" ->
               /\ Matching(table, op.meaning) = {r}
               /\ Carries(table[r], op)
               /\ table[r].index < BlockPolicy.index
          [] op.kind = "update" -> Carries(table[op.id], op)
          [] op.kind = "delete" -> table[op.id] = Absent

\* The operation changes something that the verification compares: an update
\* of nothing but name, description, schedule or IPsec filter does not.
Visible(r) ==
    Op(r).kind = "update" =>
      Op(r).meaning \notin {AsIs, mem[r].seen["firewall/policies/id"].meaning}

\* APPLIED, said by a run that was alone and had a change to make that shows
\* in the meaning of a policy, is true: its own request has taken effect, the
\* table holds what was asked for with its name and schedule, and a created
\* policy comes before the system block (verify).
AppliedMeansDone ==
    [][\A r \in Runs : AppliedUndisturbed(r) /\ Visible(r) =>
         wire[r] = "applied" /\ Done(r, ctl.policies)]_vars

\* The same of every change, as the words of references/mutation-safety.md
\* have it: an uncertain result that was not verified is not called APPLIED.
\* It is not so for an update that verify (1417) cannot tell from the table of
\* before.
AppliedMeansWritten ==
    [][\A r \in Runs : AppliedUndisturbed(r) => wire[r] = "applied"]_vars

\* No command, whatever it names, touches the block policy of the system, and
\* no request ever aims at a policy that is derived, predefined or not
\* configurable (validate_policy, in the engine and not in the command line).
ProtectedPolicyUntouched ==
    /\ ctl.policies[SystemBlock] = BlockPolicy
    /\ \A r \in Runs :
         (wire[r] # "idle" /\ Op(r).kind # "create") =>
           LET target == ctl.policies[Op(r).id]
           IN  target # Absent => Changeable(target)

\* A create that is sent was shown before: some run has printed a plan with
\* everything it asks for (references/mutation-safety.md).  Its token leaves
\* schedule and IPsec filter out (create_approval_after, 1366):
\* OtherSchedule.cfg refutes this.
CreatesWhatWasPlanned ==
    \A r \in Runs : (wire[r] # "idle" /\ Op(r).kind = "create") =>
        \E s \in Runs : report[s] = "PLAN" /\ Op(s) = Op(r)

\* Two creates of the same policy are both in the table, with no help from an
\* administrator, only if one of the two never came to a verdict or to an
\* ambiguous one: not both of them have said APPLIED, and none NOT_APPLIED.
DuplicatesFollowUnresolvedWrites ==
    \A r, s \in Runs :
        (r # s /\ edits = 0 /\ {r, s} \subseteq Present(ctl.policies)) =>
            \E t \in {r, s} :
                journal[t] \in {"WRITE_ATTEMPTED", "AMBIGUOUS_REQUIRES_REVIEW"}

\* The last verification of a create found one policy of its meaning, before
\* the system block.
OneMatchFound(r) ==
    LET table == mem[r].found["firewall/policies"]
    IN  /\ Op(r).kind = "create"
        /\ \E i \in Ids : /\ Matching(table, Op(r).meaning) = {i}
                          /\ table[i].index < BlockPolicy.index

\* A create that nobody disturbed and that finds exactly one policy of its
\* meaning, in its place, is APPLIED (references/mutation-safety.md).  It is
\* not so next to an earlier policy that returns towards the same addresses,
\* whose return policy verify (1423) takes for one of its own:
\* OneMatchApplied.cfg refutes it there.
OneMatchIsApplied ==
    [][\A r \in Runs :
         (/\ Judge(r) /\ OneMatchFound(r)
          /\ touched[r] = {} /\ wire[r] = "applied") => mem'[r].verified]_vars

\* A verification of a create that finds several policies of its meaning never
\* counts (references/mutation-safety.md).  It does if the answer to the
\* request names one of them (verify, 1411 and 1417): SeveralMatches.cfg
\* refutes this.
SeveralMatchesAreNotVerified ==
    [][\A r \in Runs :
         (/\ Judge(r) /\ Op(r).kind = "create"
          /\ Cardinality(Matching(mem[r].found["firewall/policies"], Op(r).meaning)) > 1)
         => ~mem'[r].verified]_vars
=============================================================================
