--------------------------- MODULE FirewallPolicy ---------------------------
(***************************************************************************)
(* The callbacks of firewall-policy create, update and delete              *)
(* (GuardedMutator._firewall_policy) and the controller's side of them.    *)
(*                                                                         *)
(* A configuration is the policy table and the zones.  A policy is its     *)
(* meaning (the semantic projection: action, zones, addresses, ports...),  *)
(* what the projection leaves out (its name and description, its schedule  *)
(* and IPsec filter), its index, its origin and whether its metadata calls *)
(* it configurable; next to a policy that allows return traffic the table  *)
(* has the one the controller derives from it.  The zones are either the   *)
(* ones the operations refer to or a table in which one of these is        *)
(* missing.  An operation is [kind, id, meaning, name, schedule]: what to  *)
(* do, to which policy, and what it should be afterwards.                  *)
(*                                                                         *)
(* Left out: that a command may ask for an index (the place of a policy is *)
(* excluded from what is verified as its name is).                         *)
(***************************************************************************)
EXTENDS Naturals, FiniteSets

CONSTANTS
    Requests,      \* the runs; a created policy has its run as its id
    UserPolicies,  \* the ids of the USER_DEFINED policies there at first
    SystemBlock,   \* the id of the SYSTEM_DEFINED block of the zone pair
    ByHand,        \* the id of a policy an administrator may add
    Meanings,      \* semantic projections a USER_DEFINED policy can have,
                   \* of one pair of zones
    Returning,     \* those of them that allow return traffic
    Limited,       \* those that are limited to some source networks or
                   \* addresses, to which their return traffic goes
    Towards,       \* the protocol, IP version and destination of a meaning
    Names,         \* names (and descriptions) of policies
    Prefixes,      \* <<a, b>>: the name a begins with the name b
    Schedules,     \* schedules (and IPsec filters) of policies
    AsIs,          \* what an update does not ask for
    LastIndex,     \* bound: indexes are 1 .. LastIndex
    Absent         \* no policy under this id; what a GET of one gives

\* The policies people make, and the return policies derived from them.
Owned == Requests \cup UserPolicies \cup {ByHand}
ReturnOf(i) == <<"return", i>>
Returns == {ReturnOf(i) : i \in Owned}
Ids == Owned \cup {SystemBlock} \cup Returns
Indexes == 1 .. LastIndex

ASSUME IndexAssumption == LastIndex \in Nat /\ LastIndex >= 2
ASSUME IdAssumption ==
    /\ SystemBlock \notin Owned \cup Returns
    /\ Owned \cap Returns = {}
    /\ ByHand \notin Requests
    /\ Absent \notin Ids
ASSUME MeaningAssumption ==
    /\ Returning \subseteq Meanings /\ Limited \subseteq Meanings
    /\ DOMAIN Towards = Meanings
    /\ AsIs \notin Meanings \cup Names \cup Schedules
ASSUME PrefixAssumption == \A n \in Names : <<n, n>> \in Prefixes

Policies ==
    [meaning : Meanings, name : Names, schedule : Schedules,
     index : Indexes, origin : {"USER_DEFINED"}, configurable : BOOLEAN]

\* The return policies are behind all others.
DerivedPolicies ==
    [meaning : Returning, name : Names, schedule : Schedules,
     index : {LastIndex + 1}, origin : {"DERIVED"}, configurable : {FALSE}]

ASSUME AbsentAssumption == Absent \notin Policies \cup DerivedPolicies

BlockPolicy ==
    [meaning |-> "block everything", name |-> "block", schedule |-> "always",
     index |-> LastIndex - 1, origin |-> "SYSTEM_DEFINED", configurable |-> FALSE]

\* A return policy has the name of its policy, and something after it.
Derived(policy) ==
    IF policy # Absent /\ policy.meaning \in Returning
    THEN [policy EXCEPT !.index = LastIndex + 1, !.origin = "DERIVED",
                        !.configurable = FALSE]
    ELSE Absent

Tables == [Ids -> Policies \cup DerivedPolicies \cup {BlockPolicy, Absent}]
FwStates == [policies : Tables, zones : {"complete", "reduced"}]

Present(table) == {i \in Ids : table[i] # Absent}
Free(table) == Indexes \ {table[i].index : i \in Present(table)}

-----------------------------------------------------------------------------
(* What is read, checked and approved. *)

FwDatasets == {"firewall/policies", "firewall/policies/id", "firewall/zones"}

\* firewall/zones stands for zones and networks, which are read and compared
\* alike; a create has no item to GET.
FwReadState(op) ==
    IF op.kind = "create"
    THEN <<"firewall/policies", "firewall/zones">>
    ELSE <<"firewall/policies", "firewall/policies/id", "firewall/zones">>

FwVerifyReads(op) == <<"firewall/policies">>

FwView(op, dataset, c, sofar) ==
    CASE dataset = "firewall/policies" -> c.policies
      [] dataset = "firewall/policies/id" ->
           IF op.kind = "create" THEN Absent ELSE c.policies[op.id]
      [] dataset = "firewall/zones" -> c.zones

\* _policy_semantic_matches against what the operation asks for: the
\* projection includes the origin, and neither name nor schedule.
Means(policy, meaning) ==
    policy.meaning = meaning /\ policy.origin = "USER_DEFINED"

Matching(table, meaning) == {i \in Present(table) : Means(table[i], meaning)}

\* Mutation of FwValidated: the origin is left to the command line.
FwValidatedAnyOrigin(op, seen) ==
    /\ seen["firewall/zones"] = "complete"
    /\ op.kind = "create" =>
         Matching(seen["firewall/policies"], op.meaning) = {}

\* What validate_policy lets an operation change.
Changeable(policy) == policy.origin = "USER_DEFINED" /\ policy.configurable

\* validate_policy of the target and of the proposed policy, and for a create
\* the search for a semantic duplicate.
FwValidated(op, seen) ==
    /\ seen["firewall/zones"] = "complete"
    /\ op.kind = "create" =>
         Matching(seen["firewall/policies"], op.meaning) = {}
    /\ op.kind # "create" =>
         Changeable(seen["firewall/policies/id"])

\* _deep_merge of one field.
Merged(old, new) == IF new = AsIs THEN old ELSE new

\* What is to be there afterwards: the payload of a create, the current object
\* with the changes of an update.
Proposed(op, seen) ==
    CASE op.kind = "create" ->
           [meaning |-> op.meaning, name |-> op.name, schedule |-> op.schedule]
      [] op.kind = "update" ->
           [seen["firewall/policies/id"] EXCEPT
              !.meaning = Merged(@, op.meaning),
              !.name = Merged(@, op.name),
              !.schedule = Merged(@, op.schedule)]
      [] op.kind = "delete" -> Absent

\* The diff is one of complete objects.
FwHasDiff(op, seen) == Proposed(op, seen) # seen["firewall/policies/id"]

\* Mutation of FwPrecondition: only the object the request names.
FwPreconditionTarget(op, seen) == seen["firewall/policies/id"]

FwPrecondition(op, seen) == seen

\* What is shown of the proposed object: all of it, but of a create its text
\* and its meaning only (create_approval_after).
Approvable(op, seen) ==
    IF op.kind = "create" THEN [meaning |-> op.meaning, name |-> op.name]
    ELSE Proposed(op, seen)

\* The safety context is the whole precondition, so that the token of a
\* firewall operation covers the complete table and the zones.
FwApprovalMaterial(op, seen) ==
    [operation |-> op.kind,
     target |-> op.id,
     after |-> Approvable(op, seen),
     safety_context |-> FwPrecondition(op, seen)]

\* The policies next to the place of a policy in the order of the table.
Neighbours(table, i, place) ==
    LET others == Present(table) \ {i}
        lower == {j \in others : table[j].index <= place}
        upper == others \ lower
    IN  {table[j] : j \in {j \in lower : \A k \in lower : table[k].index <= table[j].index}}
          \cup
        {table[j] : j \in {j \in upper : \A k \in upper : table[j].index <= table[k].index}}

\* _policy_snapshot: the target (of a create what it proposes, which has no
\* place in the order yet), its neighbours, the complete order and the zones.
FwSnapshotValue(op, seen) ==
    LET table == seen["firewall/policies"]
        current == seen["firewall/policies/id"]
    IN  [target |-> IF op.kind = "create" THEN Proposed(op, seen) ELSE current,
         neighbours |-> IF op.kind = "create" THEN {}
                        ELSE Neighbours(table, op.id, current.index),
         order |-> [i \in Present(table) |-> table[i].index],
         zones |-> seen["firewall/zones"]]

FwRuntimeSafe(op, seen, fresh) == TRUE

\* The body is made of what planning read, not of what the refetch read.
FwRequest(op, seen, fresh) == Proposed(op, seen)

-----------------------------------------------------------------------------
(* What the controller does with the request. *)

\* The controller keeps the return policies in step with their policies.
Settled(c) ==
    [c EXCEPT !.policies =
       [i \in Ids |-> IF i \in Returns THEN Derived(c.policies[i[2]])
                      ELSE c.policies[i]]]

\* A create gets a free index from the controller, a PUT replaces the object.
Carried(r, op, body, c) ==
    CASE op.kind = "create" ->
           {[c EXCEPT !.policies[r] =
               [meaning |-> body.meaning, name |-> body.name,
                schedule |-> body.schedule, index |-> place,
                origin |-> "USER_DEFINED", configurable |-> TRUE]] :
              place \in Free(c.policies)}
      [] op.kind = "update" ->
           IF c.policies[op.id] = Absent THEN {}
           ELSE {[c EXCEPT !.policies[op.id] = body]}
      [] op.kind = "delete" -> {[c EXCEPT !.policies[op.id] = Absent]}

FwLanding(r, op, body, c) == {Settled(d) : d \in Carried(r, op, body, c)}

\* Administrators rewrite, rename, reschedule, move, remove and add policies
\* and take a zone away.
Handiwork(c) ==
    LET mine == {i \in Present(c.policies) : Changeable(c.policies[i])}
    IN  {[c EXCEPT !.policies[i].meaning = m] : i \in mine, m \in Meanings}
          \cup {[c EXCEPT !.policies[i].name = n] : i \in mine, n \in Names}
          \cup {[c EXCEPT !.policies[i].schedule = s] : i \in mine, s \in Schedules}
          \cup {[c EXCEPT !.policies[i].index = place] :
                  i \in mine, place \in Free(c.policies)}
          \cup {[c EXCEPT !.policies[i] = Absent] : i \in mine}
          \cup (IF c.policies[ByHand] # Absent THEN {}
                ELSE {[c EXCEPT !.policies[ByHand] = p] :
                        p \in {q \in Policies : /\ q.index \in Free(c.policies)
                                                /\ q.configurable}})
          \cup {[c EXCEPT !.zones = "reduced"]}

FwEdits(c) == {Settled(d) : d \in Handiwork(c)}

FwTicks(c) == {}

-----------------------------------------------------------------------------
(* Verification. *)

\* _policy_order_signature: ids and indexes, the excluded ids left out.
OrderSignature(table, excluded) ==
    [i \in Present(table) \ excluded |-> table[i].index]

\* _derived_return_matches: which return policies are put down to a create.
\* Protocol, IP version and addresses must be those of the proposed policy in
\* reverse, and its name the beginning of theirs, or else they must be limited
\* to some networks or addresses.
DerivedReturns(table, op) ==
    {i \in Present(table) :
       /\ table[i].origin = "DERIVED"
       /\ Towards[table[i].meaning] = Towards[op.meaning]
       /\ \/ <<table[i].name, op.name>> \in Prefixes
          \/ table[i].meaning \in Limited}

\* Mutation of Matches: the result is recognised by its id alone.
MatchesById(op, seen, found, answered) ==
    LET table == found["firewall/policies"]
        named == IF op.kind = "update" THEN op.id ELSE answered
    IN  {named} \cap Present(table)

\* The policies taken for the result: the one with the answered id if the
\* table holds it, else for a create whatever means the same as the proposed.
Matches(op, seen, found, answered) ==
    LET table == found["firewall/policies"]
        meaning == Proposed(op, seen).meaning
        named == IF op.kind = "update" THEN op.id ELSE answered
    IN  IF named \in Present(table)
        THEN {i \in {named} : Means(table[i], meaning)}
        ELSE IF op.kind = "create" THEN Matching(table, meaning) ELSE {}

FwSeveralMatches(op, seen, found, answered) ==
    op.kind = "create" /\ Cardinality(Matches(op, seen, found, answered)) > 1

\* Mutation of FwVerified: the place of the new policy is not looked at.
FwVerifiedAnyPlace(op, seen, fresh, found, answered) ==
    \E i \in Ids :
        /\ Matches(op, seen, found, answered) = {i}
        /\ OrderSignature(found["firewall/policies"],
                          {i} \cup DerivedReturns(found["firewall/policies"], op)) =
             OrderSignature(seen["firewall/policies"], {})

\* Mutation of FwVerified: return policies are not told from the others.
FwVerifiedReturnsCount(op, seen, fresh, found, answered) ==
    LET table == found["firewall/policies"]
    IN  \E i \in Ids :
        /\ Matches(op, seen, found, answered) = {i}
        /\ OrderSignature(table, {i}) =
             OrderSignature(seen["firewall/policies"], {})
        /\ table[i].index < BlockPolicy.index

FwVerified(op, seen, fresh, found, answered) ==
    LET before == seen["firewall/policies"]
        table == found["firewall/policies"]
    IN  IF op.kind = "delete"
        THEN /\ table[op.id] = Absent
             /\ OrderSignature(table, {}) = OrderSignature(before, {op.id})
        ELSE \E i \in Ids :
             /\ Matches(op, seen, found, answered) = {i}
             /\ IF op.kind = "create"
                THEN OrderSignature(table, {i} \cup DerivedReturns(table, op)) =
                       OrderSignature(before, {})
                ELSE OrderSignature(table, {i}) = OrderSignature(before, {op.id})
             /\ table[i].index < BlockPolicy.index

FwAttempts(op) == IF op.kind = "create" THEN 4 ELSE 1
=============================================================================
