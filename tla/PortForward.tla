---------------------------- MODULE PortForward ----------------------------
(***************************************************************************)
(* The callbacks of port-forward delete and restore (GuardedMutator.       *)
(* port_forward_delete, port_forward_restore) and the controller's side of *)
(* them.                                                                   *)
(*                                                                         *)
(* A configuration is the table of port forwards, each with its meaning    *)
(* (its record without id and volatile fields) and a volatile field; the   *)
(* firewall policies and the forwarding status that the controller derives *)
(* from the forwards, in its own time; and the snapshot file a restore is  *)
(* given, with what it holds.  Zones are compared like the policies and    *)
(* have no model of their own.  An operation is [kind, id, expected]: the  *)
(* forward to delete and what --expect says of it, or the forward whose    *)
(* snapshot is restored.                                                   *)
(***************************************************************************)
EXTENDS Naturals, FiniteSets, FiniteSetsExt

CONSTANTS
    Restores,     \* the runs; a restored forward has its run as its id
    Forwards,     \* the ids of the forwards there may be at first
    AddedByHand,  \* the id of a forward an administrator may add
    Senses,       \* what a forward can mean: ports, target, name
    Replacements, \* bound: what the snapshot file may be replaced with
    MaxStamp,     \* bound: moves of volatile fields
    Anything,     \* no --expect
    Absent,       \* no such forward, nothing derived
    NotRead       \* a GET answered by 404, a snapshot that does not load

PfIds == Restores \cup Forwards \cup {AddedByHand}
Rules == [sense : Senses, stamp : 0 .. MaxStamp]

ASSUME AbsentAssumption ==
    Absent \notin Senses /\ Absent \notin [sense : Senses, stamp : Nat]
ASSUME StampAssumption == MaxStamp \in Nat

PfStates ==
    [forwards : [PfIds -> Rules \cup {Absent}],
     policies : [PfIds -> Senses \cup {Absent}],
     status : [PfIds -> Senses \cup {Absent}],
     file : Senses \cup {NotRead}]

Existing(table) == {i \in PfIds : table[i] # Absent}

-----------------------------------------------------------------------------
(* What is read, checked and approved. *)

PfDatasets == {"rest/portforward", "rest/portforward/id", "firewall/policies",
               "stat/portforward", "original", "snapshot"}

\* A restore loads its snapshot twice: once for the object to restore, and
\* once in read_state for the fingerprints of it (a refetch does so only the
\* second time; what it would find the first time is not used).
PfReadState(op) ==
    IF op.kind = "delete"
    THEN <<"rest/portforward", "rest/portforward/id", "firewall/policies",
           "stat/portforward">>
    ELSE <<"original", "snapshot", "rest/portforward", "firewall/policies",
           "stat/portforward">>

PfVerifyReads(op) ==
    <<"rest/portforward", "firewall/policies", "stat/portforward">>

PfView(op, dataset, c, sofar) ==
    CASE dataset = "rest/portforward" -> c.forwards
      [] dataset = "rest/portforward/id" ->
           IF c.forwards[op.id] = Absent THEN NotRead ELSE c.forwards[op.id]
      [] dataset = "firewall/policies" -> c.policies
      [] dataset = "stat/portforward" -> c.status
      [] dataset \in {"original", "snapshot"} -> c.file

\* _semantics, _port_forward_signature
Alike(table, sense) == {i \in Existing(table) : table[i].sense = sense}

\* _related: what mentions the id of a forward, or enough of its fields.
Related(derived, id, sense) ==
    {i \in Existing(derived) : i = id \/ derived[i] = sense}

\* _strip_keys(..., VOLATILE_KEYS), _stable_collection
StableRule(rule) == IF rule = Absent THEN Absent ELSE rule.sense
StableRules(table) == [i \in PfIds |-> StableRule(table[i])]

\* Mutation of WouldDuplicate: only the old id is looked for.
WouldDuplicateById(op, seen, now) == now["rest/portforward"][op.id] # Absent

\* A restore would duplicate a forward that has the old id or means the same.
WouldDuplicate(op, seen, now) ==
    \/ now["rest/portforward"][op.id] # Absent
    \/ Alike(now["rest/portforward"], seen["original"]) # {}

PfValidated(op, seen) ==
    IF op.kind = "delete"
    THEN /\ seen["rest/portforward"][op.id] # Absent
         /\ op.expected \in {Anything, seen["rest/portforward/id"].sense}
    ELSE ~WouldDuplicate(op, seen, seen)

PfHasDiff(op, seen) == TRUE

\* What is compared after the refetch; not the forwarding status.
PfPrecondition(op, seen) ==
    [forwards |-> StableRules(seen["rest/portforward"]),
     policies |-> seen["firewall/policies"],
     target |-> IF op.kind = "delete"
                THEN StableRule(seen["rest/portforward/id"])
                ELSE seen["snapshot"]]

PfApprovalMaterial(op, seen) ==
    IF op.kind = "delete"
    THEN [operation |-> "delete", target |-> op.id,
          before |-> StableRule(seen["rest/portforward/id"])]
    ELSE [operation |-> "restore", target |-> <<op.id, seen["snapshot"]>>,
          after |-> seen["original"]]

PfSnapshotValue(op, seen) ==
    IF op.kind = "delete" THEN seen["rest/portforward/id"]
    ELSE seen["rest/portforward"]

PfRuntimeSafe(op, seen, fresh) ==
    op.kind = "restore" => ~WouldDuplicate(op, seen, fresh)

\* DELETE names the item; POST carries what planning loaded.
PfRequest(op, seen, fresh) ==
    IF op.kind = "delete" THEN op.id ELSE seen["original"]

-----------------------------------------------------------------------------
(* What the controller does. *)

PfLanding(r, op, body, c) ==
    IF op.kind = "delete"
    THEN {[c EXCEPT !.forwards[op.id] = Absent]}
    ELSE {[c EXCEPT !.forwards[r] = [sense |-> body, stamp |-> 0]]}

\* Administrators add, rewrite and remove forwards; the snapshot file is
\* replaced or damaged.
PfEdits(c) ==
    {[c EXCEPT !.forwards[i].sense = s] : i \in Existing(c.forwards), s \in Senses}
      \cup {[c EXCEPT !.forwards[i] = Absent] : i \in Existing(c.forwards)}
      \cup (IF c.forwards[AddedByHand] # Absent THEN {}
            ELSE {[c EXCEPT !.forwards[AddedByHand] = [sense |-> s, stamp |-> 0]] :
                    s \in Senses})
      \cup {[c EXCEPT !.file = s] : s \in Replacements}

\* The controller catches up with the forwards, one derived object at a time,
\* and moves volatile fields.
PfTicks(c) ==
    {[c EXCEPT !.policies[i] = StableRule(c.forwards[i])] : i \in PfIds}
      \cup {[c EXCEPT !.status[i] = StableRule(c.forwards[i])] : i \in PfIds}
      \cup {[c EXCEPT !.forwards[i].stamp = @ + 1] :
              i \in {j \in Existing(c.forwards) :
                      MapThenSumSet(LAMBDA k : c.forwards[k].stamp,
                                    Existing(c.forwards)) < MaxStamp}}

-----------------------------------------------------------------------------
(* Verification. *)

Without(table, ids) == [i \in Existing(table) \ ids |-> table[i]]

\* The forward, its like, its policies and its status are gone; every other
\* forward, volatile fields included, and every other policy is unchanged.
DeletionVerified(op, seen, found) ==
    LET before == seen["rest/portforward"]
        after == found["rest/portforward"]
        sense == seen["rest/portforward/id"].sense
        own == Related(seen["firewall/policies"], op.id, sense)
    IN  /\ after[op.id] = Absent
        /\ Alike(after, sense) = {}
        /\ Without(after, {op.id}) = Without(before, {op.id})
        /\ Related(found["firewall/policies"], op.id, sense) = {}
        /\ Without(found["firewall/policies"], own) =
             Without(seen["firewall/policies"], own)
        /\ Related(found["stat/portforward"], op.id, sense) = {}

\* A forward is taken for the restored one by the id in the answer, or else by
\* its meaning; it is the only one of its meaning, its policy and its status
\* are there again, and everything else is unchanged.  That the forward taken
\* contains the saved meaning (_contains) is no condition of its own: one forward
\* has exactly that meaning, all but the one taken were there when the restore
\* was planned, and planning refuses a table with such a forward.
RestorationVerified(op, seen, found, answered) ==
    LET after == found["rest/portforward"]
        sense == seen["original"]
        policies == found["firewall/policies"]
        status == found["stat/portforward"]
        added == Existing(policies) \ Existing(seen["firewall/policies"])
    IN  \E id \in Alike(after, sense) :
          /\ answered \in Existing(after) => id = answered
          /\ Alike(after, sense) = {id}
          /\ Without(after, {id}) = Without(seen["rest/portforward"], {})
          /\ Related(policies, id, sense) # {}
          /\ Cardinality(Existing(policies)) >=
               Cardinality(Existing(seen["firewall/policies"]))
          /\ Related(status, id, sense) # {}
          /\ Cardinality(Existing(status)) >=
               Cardinality(Existing(seen["stat/portforward"]))
          /\ added \subseteq Related(policies, id, sense)
          /\ Without(policies, added) = Without(seen["firewall/policies"], {})

\* Mutation of PfVerified: only the table of forwards is looked at.
PfVerifiedTable(op, seen, fresh, found, answered) ==
    IF op.kind = "delete" THEN found["rest/portforward"][op.id] = Absent
    ELSE Alike(found["rest/portforward"], seen["original"]) # {}

PfVerified(op, seen, fresh, found, answered) ==
    IF op.kind = "delete" THEN DeletionVerified(op, seen, found)
    ELSE RestorationVerified(op, seen, found, answered)

PfSeveralMatches(op, seen, found, answered) == FALSE
PfAttempts(op) == 1
=============================================================================
