------------------------ MODULE GuardedFirewallProofs ------------------------
(***************************************************************************)
(* What the firewall operations owe the policy table, for every number of  *)
(* runs, every table and every set of commands.  FirewallFamily says that  *)
(* the engine has been given the callbacks of FirewallPolicy, as the       *)
(* configurations of MCFirewall do.                                        *)
(***************************************************************************)
EXTENDS GuardedFirewall, GuardedMutatorProofs

FirewallFamily ==
    /\ Runs = Requests /\ NoRun \notin Ids /\ Datasets = FwDatasets /\ States = FwStates
    /\ NoView = Absent
    /\ \A op \in Operations :
         /\ op.kind \in {"create", "update", "delete"}
         /\ op.kind # "create" => op.id \in Ids
         /\ op.kind = "create" =>
              op.meaning \in Meanings /\ op.name \in Names /\ op.schedule \in Schedules
         /\ op.kind = "update" =>
              /\ op.meaning \in Meanings \cup {AsIs} /\ op.name \in Names \cup {AsIs}
              /\ op.schedule \in Schedules \cup {AsIs}
    /\ \A op \in Operations : ReadState(op) = FwReadState(op)
    /\ \A op \in Operations : VerifyReads(op) = FwVerifyReads(op)
    /\ \A op, d, c, s : View(op, d, c, s) = FwView(op, d, c, s)
    /\ \A op, s : Validated(op, s) = FwValidated(op, s)
    /\ \A op, s : HasDiff(op, s) = FwHasDiff(op, s)
    /\ \A op, s : ApprovalMaterial(op, s) = FwApprovalMaterial(op, s)
    /\ \A op, s : SnapshotValue(op, s) = FwSnapshotValue(op, s)
    /\ \A op, s : Precondition(op, s) = FwPrecondition(op, s)
    /\ \A op, s, t : Request(op, s, t) = FwRequest(op, s, t)
    /\ \A r, op, b, c : Landing(r, op, b, c) = FwLanding(r, op, b, c)
    /\ \A op, s, t, f, i : Verified(op, s, t, f, i) = FwVerified(op, s, t, f, i)
    /\ \A c : Edits(c) = FwEdits(c)
    /\ \A c : Ticks(c) = FwTicks(c)

-----------------------------------------------------------------------------
(* The token of a firewall operation covers the whole table and the zones,  *)
(* and so does its precondition.                                            *)

LEMMA FirewallCovering == FirewallFamily => Covering
<1> SUFFICES ASSUME FirewallFamily
             PROVE  Covering
  OBVIOUS
<1>1. ASSUME NEW op \in Operations, NEW d \in Datasets, NEW c, NEW s
      PROVE  View(op, d, c, s) = View(op, d, c, Unread)
  BY DEF FirewallFamily, FwView
<1>2. ASSUME NEW op \in Operations, NEW s, NEW t,
             Precondition(op, s) = Precondition(op, t)
      PROVE  s = t
  BY <1>2 DEF FirewallFamily, FwPrecondition
<1>3. ASSUME NEW c
      PROVE  Ticks(c) = {}
  BY DEF FirewallFamily, FwTicks
<1>4. QED
  BY <1>1, <1>2, <1>3 DEF Covering

\* A firewall request that nobody disturbs changes the very table and zones
\* its token was printed for, in another process and at another time.
THEOREM ApprovedTable ==
  ASSUME FirewallFamily
  PROVE  Spec => []WritesWhatWasApproved
<1>1. Spec => [](WritesWhatWasApproved /\ SnapshotIsWhatIsReplaced)
  BY FirewallCovering, CoveredCourse
<1>2. QED
  BY <1>1, PTL

\* And the order and the policy its snapshot holds are the ones it replaces.
THEOREM SavedTable ==
  ASSUME FirewallFamily
  PROVE  Spec => []SnapshotIsWhatIsReplaced
<1>1. Spec => [](WritesWhatWasApproved /\ SnapshotIsWhatIsReplaced)
  BY FirewallCovering, CoveredCourse
<1>2. QED
  BY <1>1, PTL

-----------------------------------------------------------------------------
(* The table is tidy at every moment: what people and runs own is          *)
(* USER_DEFINED, the block is the system's, and the controller has derived  *)
(* the rest.                                                                *)

Tidy(table) ==
    /\ \A i \in Owned : table[i] \in Policies \cup {Absent}
    /\ \A i \in Returns : table[i] = Derived(table[i[2]])
    /\ table[SystemBlock] = BlockPolicy

LEMMA IdsApart ==
    /\ \A i \in Returns : i \in Ids /\ i[2] \in Owned
    /\ Owned \subseteq Ids \ Returns /\ SystemBlock \in Ids \ Returns
    /\ Requests \subseteq Owned /\ ByHand \in Owned \ Requests
    /\ SystemBlock \notin Owned
    /\ Ids = Owned \cup {SystemBlock} \cup Returns
<1>1. \A i \in Returns : i[2] \in Owned
  BY DEF Returns, ReturnOf
<1>2. QED
  BY <1>1, IdAssumption DEF Ids, Owned

LEMMA Origins ==
    /\ \A p \in Policies : p.origin = "USER_DEFINED" /\ p # Absent
    /\ BlockPolicy.origin = "SYSTEM_DEFINED"
    /\ \A p \in Policies \cup {Absent} : Derived(p) # Absent =>
         /\ p \in Policies /\ p.meaning \in Returning
         /\ Derived(p) \in DerivedPolicies /\ Derived(p).origin = "DERIVED"
         /\ Derived(p).meaning = p.meaning /\ Derived(p).name = p.name
<1>1. \A p \in Policies : p.origin = "USER_DEFINED" /\ p # Absent
  BY AbsentAssumption DEF Policies
<1>2. ASSUME NEW p \in Policies \cup {Absent}, Derived(p) # Absent
      PROVE  /\ p \in Policies /\ p.meaning \in Returning
             /\ Derived(p) = [p EXCEPT !.index = LastIndex + 1, !.origin = "DERIVED",
                                       !.configurable = FALSE]
  BY <1>2 DEF Derived
<1>3. ASSUME NEW p \in Policies, p.meaning \in Returning, NEW q,
             q = [p EXCEPT !.index = LastIndex + 1, !.origin = "DERIVED",
                           !.configurable = FALSE]
      PROVE  /\ q \in DerivedPolicies /\ q.origin = "DERIVED"
             /\ q.meaning = p.meaning /\ q.name = p.name
  BY <1>3 DEF Policies, DerivedPolicies
<1>4. BlockPolicy.origin = "SYSTEM_DEFINED"
  BY DEF BlockPolicy
<1>5. QED
  BY <1>1, <1>2, <1>3, <1>4

\* A policy of the table that is USER_DEFINED is one of those people own.
LEMMA UserDefined ==
  ASSUME NEW table, Tidy(table), NEW i \in Ids, table[i] # Absent,
         table[i].origin = "USER_DEFINED"
  PROVE  i \in Owned /\ table[i] \in Policies
<1>1. CASE i \in Owned
  BY <1>1 DEF Tidy
<1>2. i # SystemBlock
  BY Origins DEF Tidy
<1>3. ASSUME i \in Returns
      PROVE  FALSE
  <2>1. table[i] = Derived(table[i[2]]) /\ table[i[2]] \in Policies \cup {Absent}
    BY <1>3, IdsApart DEF Tidy
  <2>2. QED
    BY <2>1, Origins
<1>4. QED
  BY <1>1, <1>2, <1>3, IdsApart

\* The return policies are the controller's.
LEMMA ReturnsAreDerived ==
  ASSUME NEW table, Tidy(table), NEW i \in Returns, table[i] # Absent
  PROVE  table[i].origin = "DERIVED"
<1>1. table[i] = Derived(table[i[2]]) /\ table[i[2]] \in Policies \cup {Absent}
  BY IdsApart DEF Tidy
<1>2. QED
  BY <1>1, Origins

LEMMA StateShape ==
  ASSUME FirewallFamily, TypeOK
  PROVE  /\ DOMAIN ctl = {"policies", "zones"} /\ DOMAIN ctl.policies = Ids
         /\ ctl = [policies |-> ctl.policies, zones |-> ctl.zones]
  BY DEF FirewallFamily, TypeOK, FwStates, Tables

LEMMA SettledOwned ==
  ASSUME NEW c, "policies" \in DOMAIN c, NEW i \in Ids \ Returns
  PROVE  Settled(c).policies[i] = c.policies[i]
  BY DEF Settled

LEMMA SettledTidy ==
  ASSUME NEW d, "policies" \in DOMAIN d,
         \A i \in Owned : d.policies[i] \in Policies \cup {Absent},
         d.policies[SystemBlock] = BlockPolicy
  PROVE  Tidy(Settled(d).policies)
<1>1. \A i \in Ids \ Returns : Settled(d).policies[i] = d.policies[i]
  BY SettledOwned
<1>2. \A i \in Returns : Settled(d).policies[i] = Derived(d.policies[i[2]])
  BY IdsApart DEF Settled
<1>3. QED
  BY <1>1, <1>2, IdsApart DEF Tidy

LEMMA TidyStart ==
  ASSUME NEW c, "policies" \in DOMAIN c, c = Settled(c),
         \A i \in Owned : c.policies[i] \in Policies \cup {Absent},
         c.policies[SystemBlock] = BlockPolicy
  PROVE  Tidy(c.policies)
<1>1. Tidy(Settled(c).policies)
  BY SettledTidy
<1>2. QED
  BY <1>1

\* What a change of the table leaves behind if what it changes is one policy
\* that people own.
LEMMA OneChange ==
  ASSUME FirewallFamily, TypeOK, TypeOK', Tidy(ctl.policies),
         NEW i \in Owned, NEW new, NEW d, "policies" \in DOMAIN d,
         d.policies = [ctl.policies EXCEPT ![i] = new],
         new \in Policies \cup {Absent}, ctl' = Settled(d)
  PROVE  /\ Tidy(ctl'.policies) /\ ctl'.policies[i] = new
         /\ \A j \in Ids \ (Returns \cup {i}) : ctl'.policies[j] = ctl.policies[j]
<1>1. DOMAIN ctl.policies = Ids
  BY StateShape
<1>2. \A j \in Ids \ Returns : ctl'.policies[j] = d.policies[j]
  BY SettledOwned
<1>3. /\ \A j \in Owned : d.policies[j] \in Policies \cup {Absent}
      /\ d.policies[SystemBlock] = BlockPolicy
  BY <1>1, IdsApart DEF Tidy
<1>4. Tidy(ctl'.policies)
  BY <1>3, SettledTidy
<1>5. QED
  BY <1>1, <1>2, <1>4, IdsApart

-----------------------------------------------------------------------------
(* The policies no command may change.  A run looks at the policy it is to *)
(* change, and goes on only if that one is Changeable; what may be changed  *)
(* under this id stays so, whoever changes it, until the request arrives.   *)

Editable(table, i) == i \in Owned /\ (table[i] # Absent => table[i].configurable)

\* The run has read the policy it is to change.
Looking(r) ==
    \/ pc[r] = "reading" /\ mem[r].got >= 2
    \/ pc[r] \in Working \ {"locking", "reading"}

Looked(r) ==
    LET target == mem[r].seen["firewall/policies/id"]
    IN  (Looking(r) /\ Op(r).kind # "create" /\ Changeable(target)) =>
          target \in Policies /\ Editable(ctl.policies, Op(r).id)

Sound(r) ==
    (wire[r] # "idle" /\ Op(r).kind # "create") =>
      /\ Editable(ctl.policies, Op(r).id)
      /\ Op(r).kind = "update" => body[r] \in Policies /\ body[r].configurable

\* The id of a run is new to the table until its request takes effect.
NewId(r) == ctl.policies[r] # Absent => wire[r] = "applied"

PInv ==
    /\ LInv /\ Tidy(ctl.policies)
    /\ \A r \in Runs : Looked(r) /\ Sound(r) /\ NewId(r)

LEMMA InitTidy == FirewallFamily /\ Init => PInv
<1> SUFFICES ASSUME FirewallFamily, Init
             PROVE  PInv
  OBVIOUS
<1>1. ctl \in InitStates /\ "policies" \in DOMAIN ctl
  BY StateAssumption DEF Init, FirewallFamily, FwStates
<1>2. Tidy(ctl.policies)
  BY <1>1, StartAssumption, TidyStart
<1>3. \A r \in Runs : Looked(r) /\ Sound(r)
  BY DEF Init, Looked, Looking, Sound, Working
<1>4. \A r \in Runs : NewId(r)
  BY <1>1, StartAssumption, IdsApart DEF FirewallFamily, NewId, Present
<1>5. QED
  BY <1>2, <1>3, <1>4, InitChecks DEF PInv

\* What a run is to change it has read as it is in the table.
LEMMA LookedStep ==
  ASSUME FirewallFamily, PInv, NEW r \in Runs, Step(r) \/ Receive(r) \/ Crash(r)
  PROVE  Looked(r)'
<1> USE DEF Looking, Working, Ended
<1>0. /\ TypeOK /\ IInv /\ Memory(r) /\ Looked(r) /\ Tidy(ctl.policies)
      /\ Op(r) \in Operations
  BY DEF PInv, LInv, IInv, TypeOK, Op
<1>1. ctl' = ctl
  BY <1>0, OthersKeep DEF controller
<1>2. CASE Elsewhere(r) \/ BeginsReading(r)
  BY <1>2 DEF Elsewhere, BeginsReading, Looked
<1>3. CASE ReadsOn(r)
  <2> DEFINE n == mem[r].got
             d == ReadState(Op(r))[n + 1]
             id == "firewall/policies/id"
  <2>1. CASE Op(r).kind # "create"
    <3>1. ReadState(Op(r)) =
            <<"firewall/policies", "firewall/policies/id", "firewall/zones">>
      BY <1>0, <2>1 DEF FirewallFamily, FwReadState
    <3>2. /\ pc[r] = "reading" /\ n \in 0 .. 2 /\ DOMAIN mem[r].seen = Datasets
          /\ mem'[r].seen = [mem[r].seen EXCEPT ![d] = View(Op(r), d, ctl, mem[r].seen)]
          /\ View(Op(r), d, ctl, mem[r].seen) # NoView
          /\ Op(r)' = Op(r)
          /\ n < 2 => pc'[r] = "reading" /\ mem'[r].got = n + 1
      BY <1>3, <3>1 DEF ReadsOn, Op
    <3>3. CASE n = 0
      BY <3>2, <3>3 DEF Looked
    <3>4. CASE n = 1
      <4>1. View(Op(r), id, ctl, mem[r].seen) = ctl.policies[Op(r).id]
        BY <2>1 DEF FirewallFamily, FwView
      <4>2. d = id /\ id \in DOMAIN mem[r].seen
        BY <3>1, <3>2, <3>4 DEF FirewallFamily, FwDatasets
      <4>3. mem'[r].seen[id] = ctl.policies[Op(r).id] /\ ctl.policies[Op(r).id] # Absent
        BY <3>2, <4>1, <4>2 DEF FirewallFamily
      <4>4. Op(r).id \in Ids
        BY <1>0, <2>1 DEF FirewallFamily
      <4>5. QED
        BY <1>0, <1>1, <3>2, <4>3, <4>4, UserDefined DEF Looked, Changeable, Editable
    <3>5. CASE n = 2
      <4>1. d # id
        BY <3>1, <3>5
      <4>2. mem'[r].seen[id] = mem[r].seen[id]
        BY <3>2, <4>1
      <4>3. QED
        BY <1>0, <1>1, <3>2, <3>5, <4>2 DEF Looked
    <3>6. QED
      BY <3>2, <3>3, <3>4, <3>5
  <2>2. CASE Op(r).kind = "create"
    BY <1>3, <2>2 DEF ReadsOn, Looked, Op
  <2>3. QED
    BY <2>1, <2>2
<1>4. CASE \/ Plans(r) \/ BeginsRefetch(r) \/ Refetches(r) \/ Passes(r)
           \/ RecordsAttempt(r) \/ Sends(r) \/ Hears(r) \/ Verifies(r) \/ Concludes(r)
  <2>1. Looking(r) /\ Op(r)' = Op(r) /\ mem'[r].seen = mem[r].seen
    BY <1>4
    DEF Plans, BeginsRefetch, Refetches, Passes, RecordsAttempt, Sends, Hears, Verifies,
        Concludes, KeepsReads, Op
  <2>2. QED
    BY <1>0, <1>1, <2>1 DEF Looked
<1>5. QED
  BY <1>0, <1>2, <1>3, <1>4, OwnStep

\* What an update sends is the policy it has looked at, with its changes.
LEMMA SoundStep ==
  ASSUME FirewallFamily, PInv, NEW r \in Runs, Step(r) \/ Receive(r) \/ Crash(r)
  PROVE  Sound(r)'
<1>0. /\ TypeOK /\ IInv /\ Memory(r) /\ Checks(r) /\ Looked(r) /\ Sound(r)
      /\ Op(r) \in Operations
  BY DEF PInv, LInv, IInv, TypeOK, Op
<1>1. ctl' = ctl
  BY <1>0, OthersKeep DEF controller
<1>2. ASSUME KeepsRequest(r), wire[r] = "idle" \/ cmd'[r] = cmd[r]
      PROVE  Sound(r)'
  BY <1>0, <1>1, <1>2 DEF KeepsRequest, Sound, Op
<1>3. CASE Sends(r)
  <2> DEFINE target == mem[r].seen["firewall/policies/id"]
  <2>1. /\ Op(r)' = Op(r) /\ FwValidated(Op(r), mem[r].seen) /\ Looking(r)
        /\ body'[r] = Proposed(Op(r), mem[r].seen)
    BY <1>0, <1>3
    DEF Sends, KeepsReads, Op, Checks, Approved, FirewallFamily, FwRequest, Looking, Working
  <2>2. ASSUME Op(r).kind # "create"
        PROVE  /\ target \in Policies /\ target.configurable
               /\ Editable(ctl.policies, Op(r).id)
    BY <1>0, <2>1, <2>2 DEF FwValidated, Looked, Changeable
  <2>3. ASSUME Op(r).kind = "update"
        PROVE  body'[r] \in Policies /\ body'[r].configurable
    <3>1. /\ Merged(target.meaning, Op(r).meaning) \in Meanings
          /\ Merged(target.name, Op(r).name) \in Names
          /\ Merged(target.schedule, Op(r).schedule) \in Schedules
      BY <1>0, <2>2, <2>3 DEF FirewallFamily, Merged, Policies
    <3>2. body'[r] = [target EXCEPT !.meaning = Merged(target.meaning, Op(r).meaning),
                                    !.name = Merged(target.name, Op(r).name),
                                    !.schedule = Merged(target.schedule, Op(r).schedule)]
      <4>1. {"meaning", "name", "schedule"} \subseteq DOMAIN target
        BY <2>2, <2>3 DEF Policies
      <4>2. QED
        BY <2>1, <2>3, <4>1 DEF Proposed
    <3>3. target \in Policies /\ target.configurable
      BY <2>2, <2>3
    <3> HIDE DEF target
    <3>4. QED
      BY <3>1, <3>2, <3>3 DEF Policies
  <2>4. QED
    BY <1>1, <2>1, <2>2, <2>3 DEF Sound
<1>4. QED
  BY <1>0, <1>2, <1>3, OwnStep
  DEF Elsewhere, BeginsReading, ReadsOn, Plans, BeginsRefetch, Refetches, Passes,
      RecordsAttempt, Hears, Verifies, Concludes, KeepsReads

\* The policy a create makes, wherever it is put.
NewPolicy(b, place) ==
    [meaning |-> b.meaning, name |-> b.name, schedule |-> b.schedule, index |-> place,
     origin |-> "USER_DEFINED", configurable |-> TRUE]

\* What a request does to the table: one policy that people own is new, or as
\* the request has it, or gone.
LEMMA LandChanges ==
  ASSUME FirewallFamily, TypeOK, TypeOK', Tidy(ctl.policies),
         NEW r \in Runs, Sound(r), Land(r)
  PROVE  \E i \in Owned, new \in Policies \cup {Absent} :
           /\ Tidy(ctl'.policies) /\ ctl'.policies[i] = new
           /\ \A j \in Ids \ (Returns \cup {i}) : ctl'.policies[j] = ctl.policies[j]
           /\ new # Absent => new.configurable
           /\ Op(r).kind = "create" =>
                i = r /\ \E place \in Free(ctl.policies) : new = NewPolicy(body[r], place)
           /\ Op(r).kind = "update" =>
                i = Op(r).id /\ ctl.policies[i] # Absent /\ new = body[r]
           /\ Op(r).kind = "delete" => i = Op(r).id /\ new = Absent
<1>0. /\ Op(r) \in Operations /\ Op(r).kind \in {"create", "update", "delete"}
      /\ r \in Owned /\ wire[r] = "accepted"
  BY IdsApart DEF TypeOK, Op, FirewallFamily, Land
<1>1. PICK d \in Carried(r, Op(r), body[r], ctl) : ctl' = Settled(d)
  BY DEF Land, FirewallFamily, FwLanding
<1>2. DOMAIN ctl = {"policies", "zones"} /\ DOMAIN ctl.policies = Ids
  BY StateShape
<1>3. Op(r).kind # "create" => Op(r).id \in Owned
  BY <1>0 DEF Sound, Editable
<1>4. CASE Op(r).kind = "create"
  <2>1. PICK place \in Free(ctl.policies) :
          d = [ctl EXCEPT !.policies[r] = NewPolicy(body[r], place)]
    BY <1>1, <1>4 DEF Carried, NewPolicy
  <2> DEFINE new == NewPolicy(body[r], place)
  <2>2. new.origin = "USER_DEFINED" /\ new.configurable
    BY DEF NewPolicy
  <2> HIDE DEF new
  <2>3. "policies" \in DOMAIN d /\ d.policies = [ctl.policies EXCEPT ![r] = new]
    BY <1>2, <2>1 DEF new
  <2>4. new \in Policies \cup {Absent}
    <3>1. ctl'.policies[r] = new
      BY <1>0, <1>1, <1>2, <2>3, IdsApart, SettledOwned
    <3>2. new \in Policies \cup DerivedPolicies \cup {BlockPolicy, Absent}
      BY <1>0, <3>1, IdsApart DEF TypeOK, FirewallFamily, FwStates, Tables
    <3>3. /\ BlockPolicy.origin # "USER_DEFINED"
          /\ \A p \in DerivedPolicies : p.origin # "USER_DEFINED"
      BY DEF BlockPolicy, DerivedPolicies
    <3>4. QED
      BY <2>2, <3>2, <3>3
  <2>5. /\ Tidy(ctl'.policies) /\ ctl'.policies[r] = new
        /\ \A j \in Ids \ (Returns \cup {r}) : ctl'.policies[j] = ctl.policies[j]
    BY <1>0, <1>1, <2>3, <2>4, OneChange
  <2>6. QED
    BY <1>0, <1>4, <2>2, <2>4, <2>5 DEF new
<1>5. CASE Op(r).kind = "update"
  <2>1. ctl.policies[Op(r).id] # Absent /\ d = [ctl EXCEPT !.policies[Op(r).id] = body[r]]
    BY <1>1, <1>5 DEF Carried
  <2>2. "policies" \in DOMAIN d /\ d.policies = [ctl.policies EXCEPT ![Op(r).id] = body[r]]
    BY <1>2, <2>1
  <2>3. body[r] \in Policies /\ body[r].configurable
    BY <1>0, <1>5 DEF Sound
  <2>4. /\ Tidy(ctl'.policies) /\ ctl'.policies[Op(r).id] = body[r]
        /\ \A j \in Ids \ (Returns \cup {Op(r).id}) : ctl'.policies[j] = ctl.policies[j]
    BY <1>1, <1>3, <1>5, <2>2, <2>3, OneChange
  <2>5. QED
    BY <1>3, <1>5, <2>1, <2>3, <2>4
<1>6. CASE Op(r).kind = "delete"
  <2>1. d = [ctl EXCEPT !.policies[Op(r).id] = Absent]
    BY <1>1, <1>6 DEF Carried
  <2>2. "policies" \in DOMAIN d /\ d.policies = [ctl.policies EXCEPT ![Op(r).id] = Absent]
    BY <1>2, <2>1
  <2>3. /\ Tidy(ctl'.policies) /\ ctl'.policies[Op(r).id] = Absent
        /\ \A j \in Ids \ (Returns \cup {Op(r).id}) : ctl'.policies[j] = ctl.policies[j]
    BY <1>1, <1>3, <1>6, <2>2, OneChange
  <2>4. QED
    BY <1>3, <1>6, <2>3
<1>7. QED
  BY <1>0, <1>4, <1>5, <1>6

\* An administrator changes one policy that can be changed, or adds one.
LEMMA EditChanges ==
  ASSUME FirewallFamily, TypeOK, TypeOK', Tidy(ctl.policies), Edit
  PROVE  \/ ctl'.policies = ctl.policies
         \/ \E i \in Owned, new \in Policies \cup {Absent} :
              /\ Tidy(ctl'.policies) /\ ctl'.policies[i] = new
              /\ \A j \in Ids \ (Returns \cup {i}) : ctl'.policies[j] = ctl.policies[j]
              /\ new # Absent => new.configurable
              /\ i = ByHand \/ ctl.policies[i] # Absent
<1>1. CASE ctl' = ctl
  BY <1>1
<1>2. CASE ctl' \in Edits(ctl)
  <2>1. PICK d \in Handiwork(ctl) : ctl' = Settled(d)
    BY <1>2 DEF FirewallFamily, FwEdits
  <2>2. DOMAIN ctl = {"policies", "zones"} /\ DOMAIN ctl.policies = Ids
    BY StateShape
  <2> DEFINE mine == {i \in Present(ctl.policies) : Changeable(ctl.policies[i])}
             Alone == \E i \in Owned, new \in Policies \cup {Absent} :
                /\ Tidy(ctl'.policies) /\ ctl'.policies[i] = new
                /\ \A j \in Ids \ (Returns \cup {i}) : ctl'.policies[j] = ctl.policies[j]
                /\ new # Absent => new.configurable
                /\ i = ByHand \/ ctl.policies[i] # Absent
  <2>3. ASSUME NEW i \in Owned, NEW new \in Policies \cup {Absent},
               "policies" \in DOMAIN d, d.policies = [ctl.policies EXCEPT ![i] = new],
               new # Absent => new.configurable, i = ByHand \/ ctl.policies[i] # Absent
        PROVE  Alone
    BY <2>1, <2>3, OneChange
  <2>4. \A i \in mine : /\ i \in Owned /\ ctl.policies[i] \in Policies
                        /\ ctl.policies[i] # Absent /\ ctl.policies[i].configurable
    BY UserDefined DEF Present, Changeable
  <2>5. \/ \E i \in mine, m \in Meanings : d = [ctl EXCEPT !.policies[i].meaning = m]
        \/ \E i \in mine, n \in Names : d = [ctl EXCEPT !.policies[i].name = n]
        \/ \E i \in mine, s \in Schedules : d = [ctl EXCEPT !.policies[i].schedule = s]
        \/ \E i \in mine, place \in Free(ctl.policies) :
             d = [ctl EXCEPT !.policies[i].index = place]
        \/ \E i \in mine : d = [ctl EXCEPT !.policies[i] = Absent]
        \/ \E p \in Policies : p.configurable /\ d = [ctl EXCEPT !.policies[ByHand] = p]
        \/ d = [ctl EXCEPT !.zones = "reduced"]
    BY <2>1 DEF Handiwork
  <2> HIDE DEF mine, Alone
  <2>6. ASSUME NEW i \in mine, NEW p \in Policies, p.configurable,
               "policies" \in DOMAIN d, d.policies = [ctl.policies EXCEPT ![i] = p]
        PROVE  Alone
    BY <2>3, <2>4, <2>6
  <2>7. ASSUME NEW i \in mine, NEW m \in Meanings,
               d = [ctl EXCEPT !.policies[i].meaning = m]
        PROVE  Alone
    <3>1. [ctl.policies[i] EXCEPT !.meaning = m] \in Policies
          /\ [ctl.policies[i] EXCEPT !.meaning = m].configurable
      BY <2>4, <2>7 DEF Policies
    <3>2. "policies" \in DOMAIN d
          /\ d.policies = [ctl.policies EXCEPT ![i] = [ctl.policies[i] EXCEPT !.meaning = m]]
      BY <2>2, <2>7
    <3>3. QED
      BY <2>6, <2>7, <3>1, <3>2
  <2>8. ASSUME NEW i \in mine, NEW n \in Names, d = [ctl EXCEPT !.policies[i].name = n]
        PROVE  Alone
    <3>1. [ctl.policies[i] EXCEPT !.name = n] \in Policies
          /\ [ctl.policies[i] EXCEPT !.name = n].configurable
      BY <2>4, <2>8 DEF Policies
    <3>2. "policies" \in DOMAIN d
          /\ d.policies = [ctl.policies EXCEPT ![i] = [ctl.policies[i] EXCEPT !.name = n]]
      BY <2>2, <2>8
    <3>3. QED
      BY <2>6, <2>8, <3>1, <3>2
  <2>9. ASSUME NEW i \in mine, NEW s \in Schedules,
               d = [ctl EXCEPT !.policies[i].schedule = s]
        PROVE  Alone
    <3>1. [ctl.policies[i] EXCEPT !.schedule = s] \in Policies
          /\ [ctl.policies[i] EXCEPT !.schedule = s].configurable
      BY <2>4, <2>9 DEF Policies
    <3>2. "policies" \in DOMAIN d
          /\ d.policies = [ctl.policies EXCEPT ![i] = [ctl.policies[i] EXCEPT !.schedule = s]]
      BY <2>2, <2>9
    <3>3. QED
      BY <2>6, <2>9, <3>1, <3>2
  <2>10. ASSUME NEW i \in mine, NEW place \in Free(ctl.policies),
                d = [ctl EXCEPT !.policies[i].index = place]
         PROVE  Alone
    <3>1. [ctl.policies[i] EXCEPT !.index = place] \in Policies
          /\ [ctl.policies[i] EXCEPT !.index = place].configurable
      BY <2>4, <2>10 DEF Policies, Free
    <3>2. "policies" \in DOMAIN d
          /\ d.policies = [ctl.policies EXCEPT ![i] = [ctl.policies[i] EXCEPT !.index = place]]
      BY <2>2, <2>10
    <3>3. QED
      BY <2>6, <2>10, <3>1, <3>2
  <2>11. ASSUME NEW i \in mine, d = [ctl EXCEPT !.policies[i] = Absent]
         PROVE  Alone
    BY <2>2, <2>3, <2>4, <2>11
  <2>12. ASSUME NEW p \in Policies, p.configurable,
                d = [ctl EXCEPT !.policies[ByHand] = p]
         PROVE  Alone
    BY <2>2, <2>3, <2>12, IdsApart
  <2>13. CASE d = [ctl EXCEPT !.zones = "reduced"]
    <3>1. "policies" \in DOMAIN d /\ d.policies = ctl.policies
      BY <2>2, <2>13
    <3>2. ctl.policies[SystemBlock] = BlockPolicy /\ Tidy(ctl'.policies)
          /\ \A i \in Ids \ Returns : ctl'.policies[i] = ctl.policies[i]
      BY <2>1, <3>1, SettledOwned, SettledTidy DEF Tidy
    <3>3. \A i \in Returns : ctl'.policies[i] = ctl.policies[i]
      BY <3>2, IdsApart DEF Tidy
    <3>4. DOMAIN ctl'.policies = Ids
      BY DEF FirewallFamily, TypeOK, FwStates, Tables
    <3>5. ctl'.policies = ctl.policies
      BY <2>2, <3>2, <3>3, <3>4 DEF FirewallFamily, TypeOK, FwStates, Tables
    <3>6. QED
      BY <3>5
  <2>14. QED
    BY <2>5, <2>7, <2>8, <2>9, <2>10, <2>11, <2>12, <2>13 DEF Alone
<1>3. QED
  BY <1>1, <1>2 DEF Edit

LEMMA NextTidy ==
  ASSUME FirewallFamily, PInv, [Next]_vars
  PROVE  PInv'
<1>0. /\ TypeOK /\ Tidy(ctl.policies) /\ Runs = Requests
      /\ \A s \in Runs : Looked(s) /\ Sound(s) /\ NewId(s)
  BY DEF PInv, LInv, IInv, FirewallFamily
<1>1. LInv' /\ TypeOK'
  BY NextChecks DEF PInv, LInv, IInv
<1>2. ASSUME ctl'.policies = ctl.policies, NEW s \in Runs, Same(s)
      PROVE  Looked(s)' /\ Sound(s)' /\ NewId(s)'
  BY <1>0, <1>2 DEF Same, Looked, Looking, Sound, NewId, Op
<1>3. ASSUME NEW r \in Runs, Step(r) \/ Receive(r) \/ Crash(r)
      PROVE  PInv'
  <2>1. UNCHANGED controller /\ \A s \in Runs \ {r} : Same(s)
    BY <1>0, <1>3, OthersKeep
  <2>2. wire[r] = "applied" => wire'[r] = "applied"
    BY <1>0, <1>3, OwnStep
    DEF Elsewhere, BeginsReading, ReadsOn, Plans, BeginsRefetch, Refetches, Passes,
        RecordsAttempt, Sends, Hears, Verifies, Concludes, KeepsRequest, PInv, LInv
  <2>3. Looked(r)' /\ Sound(r)' /\ NewId(r)'
    BY <1>0, <1>3, <2>1, <2>2, LookedStep, SoundStep DEF NewId, controller
  <2>4. QED
    BY <1>0, <1>1, <1>2, <2>1, <2>3 DEF PInv, controller
<1>4. ASSUME NEW i \in Owned, NEW new \in Policies \cup {Absent},
             ctl'.policies[i] = new, new # Absent => new.configurable,
             \A j \in Ids \ (Returns \cup {i}) : ctl'.policies[j] = ctl.policies[j],
             NEW j, Editable(ctl.policies, j)
      PROVE  Editable(ctl'.policies, j)
  BY <1>4, IdsApart DEF Editable
<1>5. ASSUME NEW r \in Runs, Land(r)
      PROVE  PInv'
  <2>1. PICK i \in Owned, new \in Policies \cup {Absent} :
          /\ Tidy(ctl'.policies) /\ ctl'.policies[i] = new
          /\ \A j \in Ids \ (Returns \cup {i}) : ctl'.policies[j] = ctl.policies[j]
          /\ new # Absent => new.configurable
          /\ Op(r).kind = "create" => i = r
          /\ Op(r).kind = "update" => ctl.policies[i] # Absent
          /\ Op(r).kind = "delete" => new = Absent
    BY <1>0, <1>1, <1>5, LandChanges
  <2>2. /\ UNCHANGED <<pc, cmd, mem, body>> /\ wire'[r] = "applied" /\ wire[r] # "idle"
        /\ \A s \in Runs \ {r} : wire'[s] = wire[s]
    BY <1>0, <1>5, SMTT(30) DEF Land, TypeOK, process
  <2>3. \A s \in Runs : Looked(s)' /\ Sound(s)'
    BY <1>0, <1>4, <2>1, <2>2 DEF Looked, Looking, Sound, Op
  <2>4. ASSUME NEW s \in Runs
        PROVE  NewId(s)'
    <3>1. Op(r).kind \in {"create", "update", "delete"}
      BY <1>0 DEF FirewallFamily, TypeOK, Op
    <3>2. s \in Ids \ Returns
      BY <1>0, IdsApart
    <3>3. QED
      BY <1>0, <2>1, <2>2, <3>1, <3>2 DEF NewId
  <2>5. QED
    BY <1>1, <2>1, <2>3, <2>4 DEF PInv
<1>6. CASE Edit
  <2>1. /\ UNCHANGED <<pc, cmd, mem, body, wire>>
        /\ \A s \in Runs : Same(s)
    BY <1>6 DEF Edit, process, disk, network, Same
  <2>2. CASE ctl'.policies = ctl.policies
    BY <1>0, <1>1, <1>2, <2>1, <2>2 DEF PInv
  <2>3. CASE ctl'.policies # ctl.policies
    <3>1. PICK i \in Owned, new \in Policies \cup {Absent} :
            /\ Tidy(ctl'.policies) /\ ctl'.policies[i] = new
            /\ \A j \in Ids \ (Returns \cup {i}) : ctl'.policies[j] = ctl.policies[j]
            /\ new # Absent => new.configurable
            /\ i = ByHand \/ ctl.policies[i] # Absent
      BY <1>0, <1>1, <1>6, <2>3, EditChanges
    <3>2. \A s \in Runs : Looked(s)' /\ Sound(s)'
      BY <1>0, <1>4, <2>1, <3>1 DEF Looked, Looking, Sound, Op
    <3>3. \A s \in Runs : NewId(s)'
      BY <1>0, <2>1, <3>1, IdsApart DEF NewId
    <3>4. QED
      BY <1>1, <3>1, <3>2, <3>3 DEF PInv
  <2>4. QED
    BY <2>2, <2>3
<1>7. ASSUME NEW r \in Runs, Accept(r) \/ Reject(r)
      PROVE  PInv'
  <2>1. /\ UNCHANGED <<process, body, controller>>
        /\ \A s \in Runs : /\ wire'[s] = "applied" <=> wire[s] = "applied"
                           /\ wire'[s] = "idle" <=> wire[s] = "idle"
    BY <1>0, <1>7, SMTT(30) DEF Accept, Reject, TypeOK
  <2>2. \A s \in Runs : Looked(s)' /\ Sound(s)' /\ NewId(s)'
    BY <1>0, <2>1 DEF Looked, Looking, Sound, NewId, Op, process, controller
  <2>3. QED
    BY <1>0, <1>1, <2>1, <2>2 DEF PInv, controller
<1>8. CASE UNCHANGED vars
  BY <1>0, <1>1, <1>2, <1>8 DEF vars, process, disk, network, controller, Same, PInv
<1>9. ~Tick
  BY DEF Tick, FirewallFamily, FwTicks
<1>10. QED
  BY <1>3, <1>5, <1>6, <1>7, <1>8, <1>9 DEF Next, Environment

\* No firewall operation, whatever its arguments and whatever other runs and
\* administrators do meanwhile, changes the block policy of the system or aims
\* at a policy that is derived, predefined or not configurable: a run that is
\* given one is refused on what it has itself read.
THEOREM BlockUntouched ==
  ASSUME FirewallFamily
  PROVE  Spec => []ProtectedPolicyUntouched
<1>1. Init => PInv
  BY InitTidy
<1>2. PInv /\ [Next]_vars => PInv'
  BY NextTidy
<1>3. ASSUME PInv
      PROVE  ProtectedPolicyUntouched
  <2>1. ASSUME NEW r \in Runs, wire[r] # "idle", Op(r).kind # "create",
               ctl.policies[Op(r).id] # Absent
        PROVE  Changeable(ctl.policies[Op(r).id])
    BY <1>3, <2>1, Origins DEF PInv, Sound, Editable, Tidy, Changeable
  <2>2. QED
    BY <1>3, <2>1 DEF PInv, Tidy, ProtectedPolicyUntouched
<1>4. QED
  BY <1>1, <1>2, <1>3, PTL DEF Spec

-----------------------------------------------------------------------------
(* Creates of one policy, and no administrator. *)

\* Every command asks for a policy of this meaning.
OneMeaning(m) ==
    \A op \in Operations : op.kind = "create" /\ op.meaning = m

\* There is a policy of the meaning asked for.
InTable(m) == Matching(ctl.policies, m) # {}

\* A run that has verified its create has seen a policy that is in the table,
\* and one that is planning sees what an earlier APPLIED was about.
Created(m, r) ==
    /\ pc[r] = "verifying" /\ mem[r].got >= 1 =>
         Matching(mem[r].found["firewall/policies"], m)
           \subseteq Matching(ctl.policies, m)
    /\ mem[r].verified \/ journal[r] = "APPLIED" => InTable(m)

Claimed == {s \in Runs : journal[s] = "APPLIED"}

Resolved(m, r) ==
    /\ \/ pc[r] = "validating"
       \/ pc[r] = "reading" /\ mem[r].got >= 1
       => Matching(mem[r].seen["firewall/policies"], m) # {} \/ Claimed = {}
    /\ Inside(r) /\ pc[r] \notin {"reading", "validating"} => Claimed = {}

Sole(m) ==
    edits = 0 =>
      /\ \A r \in Runs : Created(m, r) /\ Resolved(m, r)
      /\ \A r, s \in Claimed : r = s

\* A create takes no policy away.
LEMMA CreateAdds ==
  ASSUME FirewallFamily, PInv, TypeOK', NEW m, OneMeaning(m), NEW r \in Runs, Land(r)
  PROVE  Matching(ctl.policies, m) \subseteq Matching(ctl'.policies, m)
<1>1. Op(r).kind = "create" /\ TypeOK /\ Tidy(ctl.policies) /\ Sound(r) /\ r \in Ids
  BY IdsApart DEF PInv, LInv, IInv, TypeOK, Op, OneMeaning, FirewallFamily
<1>2. ctl.policies[r] = Absent
  BY DEF PInv, NewId, Land
<1>3. \A j \in Ids \ (Returns \cup {r}) : ctl'.policies[j] = ctl.policies[j]
  BY <1>1, LandChanges
<1>4. ASSUME NEW i \in Matching(ctl.policies, m)
      PROVE  i \in Matching(ctl'.policies, m)
  <2>1. /\ i \in Ids /\ ctl.policies[i] # Absent
        /\ ctl.policies[i].meaning = m /\ ctl.policies[i].origin = "USER_DEFINED"
    BY DEF Matching, Present, Means
  <2>2. i \in Ids \ (Returns \cup {r})
    BY <1>1, <1>2, <2>1, UserDefined, IdsApart
  <2>3. QED
    BY <1>3, <2>1, <2>2 DEF Matching, Present, Means
<1>5. QED
  BY <1>4

\* What a create's verification puts down to it is of its meaning.
LEMMA VerifiedMatches ==
  ASSUME FirewallFamily, NEW m, NEW op, op.kind = "create", op.meaning = m,
         NEW seen, NEW fresh, NEW found, NEW answered,
         Verified(op, seen, fresh, found, answered)
  PROVE  Matching(found["firewall/policies"], m) # {}
<1>1. PICK i \in Ids : Matches(op, seen, found, answered) = {i}
  BY DEF FirewallFamily, FwVerified
<1>2. Matches(op, seen, found, answered) \subseteq Matching(found["firewall/policies"], m)
  BY DEF Matches, Matching, Proposed, Present
<1>3. QED
  BY <1>1, <1>2

LEMMA InitSole ==
  ASSUME FirewallFamily, Init, NEW m
  PROVE  Sole(m)
<1>3. Claimed = {}
  BY DEF Init, Claimed
<1>4. ASSUME NEW r \in Runs
      PROVE  Created(m, r) /\ Resolved(m, r)
  BY <1>3, BlankShape DEF Init, Created, Resolved, Inside, Working
<1>5. QED
  BY <1>3, <1>4 DEF Sole

\* What a step of its own does to one run.
LEMMA CreatedStep ==
  ASSUME FirewallFamily, NEW m, OneMeaning(m), TypeOK,
         NEW r \in Runs, Memory(r), Phase(r), Created(m, r),
         Step(r) \/ Receive(r) \/ Crash(r)
  PROVE  Created(m, r)'
<1>0. /\ Op(r) \in Operations /\ DOMAIN mem = Runs /\ r \in DOMAIN pc
      /\ mem[r].got \in Nat /\ DOMAIN mem[r] = DOMAIN Blank
      /\ r \in DOMAIN wire /\ r \in DOMAIN journal
  BY DEF TypeOK, Op
<1>x. UNCHANGED controller
  BY OthersKeep
<1>1. ASSUME NEW where \in Ended, NEW words, Exit(r, where, words), wire' = wire,
             journal'[r] = "APPLIED" => mem[r].verified \/ journal[r] = "APPLIED"
      PROVE  Created(m, r)'
  BY <1>1, <1>x, ExitForgets, BlankShape DEF Created, InTable, controller, Ended
<1>2. CASE \/ Begin(r) \/ TakeLock(r) \/ ReadNext(r) \/ Validate(r)
           \/ SaveSnapshot(r) \/ ReadFails(r) \/ Crash(r)
  <2>1. /\ pc'[r] # "verifying" /\ UNCHANGED <<journal, wire>>
        /\ mem'[r].verified => mem[r].verified
    BY <1>0, <1>2, BlankShape, SMTT(30)
    DEF Begin, TakeLock, ReadNext, Validate, SaveSnapshot, ReadFails, Crash, Goto, Exit,
        Blank, disk, network
  <2>2. QED
    BY <1>x, <2>1 DEF Created, InTable, controller
<1>3. CASE \/ Plan(r) \/ Authorize(r) \/ RecheckIdentity(r) \/ RefetchNext(r)
           \/ RefetchFails(r) \/ CheckFresh(r) \/ RecordAttempt(r)
  <2>1. /\ pc'[r] # "verifying" /\ UNCHANGED wire
        /\ journal'[r] = "APPLIED" => journal[r] = "APPLIED"
        /\ mem'[r].verified => mem[r].verified
    BY <1>0, <1>3, BlankShape, SMTT(30)
    DEF Plan, Authorize, RecheckIdentity, RefetchNext, RefetchFails, CheckFresh,
        RecordAttempt, Proceed, Refuse, Goto, Exit, Blank, disk, network
  <2>2. QED
    BY <1>x, <2>1 DEF Created, InTable, controller
<1>4. CASE Send(r)
  <2>1. pc'[r] = "waiting" /\ UNCHANGED <<journal, mem>> /\ wire[r] = "idle"
    BY <1>0, <1>4 DEF Send, Goto, disk, Phase
  <2>2. QED
    BY <1>x, <2>1 DEF Created, InTable, controller
<1>5. CASE Receive(r)
  <2>1. /\ pc'[r] = "verifying" /\ UNCHANGED <<journal, wire>>
        /\ mem'[r].got = 0 /\ mem'[r].verified = mem[r].verified
    BY <1>0, <1>5, SMTT(30) DEF Receive, Goto, Blank, disk, network, Memory, Committed
  <2>2. QED
    BY <1>x, <2>1 DEF Created, InTable, controller
<1>6. VerifyReads(Op(r)) = <<"firewall/policies">>
  BY <1>0 DEF FirewallFamily, FwVerifyReads
<1>7. CASE VerifyNext(r)
  <2>1. mem[r].got = 0
    BY <1>0, <1>6, <1>7 DEF VerifyNext
  <2>2. "firewall/policies" \in DOMAIN mem[r].found
    BY DEF Memory, FirewallFamily, FwDatasets
  <2>3. View(Op(r), "firewall/policies", ctl, mem[r].found) = ctl.policies
    BY DEF FirewallFamily, FwView
  <2>4. /\ mem'[r].found["firewall/policies"] = ctl.policies
        /\ mem'[r].verified = mem[r].verified /\ UNCHANGED <<journal, wire>>
    BY <1>0, <1>6, <1>7, <2>1, <2>2, <2>3, SMTT(30)
    DEF VerifyNext, Blank, disk, network
  <2>5. QED
    BY <1>x, <2>4 DEF Created, InTable, controller
<1>8. ASSUME NEW verified, NEW several, Reconcile(r, verified, several),
             verified => InTable(m)
      PROVE  Created(m, r)'
  <2>1. mem'[r].got = 0 /\ mem'[r].verified = verified /\ UNCHANGED <<journal, wire>>
    BY <1>0, <1>8, SMTT(30) DEF Reconcile, Blank, disk, network
  <2>2. QED
    BY <1>8, <1>x, <2>1 DEF Created, InTable, controller
<1>9. CASE Judge(r)
  <2> DEFINE verified == Verified(Op(r), mem[r].seen, mem[r].fresh, mem[r].found,
                                  AnsweredId(r))
  <2>1. verified => Matching(mem[r].found["firewall/policies"], m) # {}
    BY <1>0, VerifiedMatches DEF OneMeaning
  <2>2. Matching(mem[r].found["firewall/policies"], m) \subseteq Matching(ctl.policies, m)
    BY <1>6, <1>9 DEF Judge, Created
  <2>3. verified => InTable(m)
    BY <2>1, <2>2 DEF InTable
  <2>4. QED
    BY <1>8, <1>9, <2>3 DEF Judge
<1>10. CASE VerifyFails(r)
  BY <1>8, <1>10 DEF VerifyFails
<1>11. CASE Complete(r)
  <2>1. journal'[r] = "APPLIED" => mem[r].verified
    BY <1>0, <1>11 DEF Complete, Verdict
  <2>2. QED
    BY <1>1, <1>11, <2>1 DEF Complete, network, Ended, Exit
<1>12. QED
  BY <1>2, <1>3, <1>4, <1>5, <1>7, <1>9, <1>10, <1>11 DEF Step

\* Only a completion claims anything.
LEMMA ClaimsGrow ==
  ASSUME TypeOK, NEW r \in Runs, Step(r) \/ Receive(r) \/ Crash(r), ~Complete(r)
  PROVE  Claimed' \subseteq Claimed
<1>0. DOMAIN journal = Runs
  BY DEF TypeOK
<1>1. \/ journal' = journal
      \/ \E result \in Results \ {"APPLIED"} : journal' = [journal EXCEPT ![r] = result]
  BY DEF Step, Receive, Crash, Begin, TakeLock, ReadNext, ReadFails, Validate,
         SaveSnapshot, Plan, Authorize, RecheckIdentity, RefetchNext, RefetchFails,
         CheckFresh, RecordAttempt, Send, VerifyNext, Judge, VerifyFails, Refuse,
         Proceed, Reconcile, disk, Results, Refusals, Verdicts
<1>2. QED
  BY <1>0, <1>1 DEF Claimed

LEMMA ResolvedStep ==
  ASSUME FirewallFamily, NEW m, OneMeaning(m), TypeOK,
         NEW r \in Runs, Memory(r), Resolved(m, r), \A s \in Runs : Created(m, s),
         Step(r) \/ Receive(r) \/ Crash(r)
  PROVE  Resolved(m, r)'
<1>0. /\ Op(r) \in Operations /\ DOMAIN mem = Runs /\ r \in DOMAIN pc
      /\ mem[r].got \in Nat /\ DOMAIN mem[r] = DOMAIN Blank
  BY DEF TypeOK, Op
<1>1. ASSUME NEW where \in Ended \cup {"locking"}, pc'[r] = where
      PROVE  Resolved(m, r)'
  BY <1>1 DEF Resolved, Inside, Working, Ended
<1>2. CASE Begin(r)
  <2>1. pc'[r] = "locking"
    BY <1>0, <1>2 DEF Begin, Goto
  <2>2. QED
    BY <1>1, <2>1
<1>3. CASE Complete(r) \/ Crash(r) \/ ReadFails(r) \/ RefetchFails(r)
  <2>1. pc'[r] \in Ended
    BY <1>0, <1>3 DEF Complete, Crash, ReadFails, RefetchFails, Refuse, Exit, Ended
  <2>2. QED
    BY <1>1, <2>1
<1>4. CASE TakeLock(r)
  <2>1. \/ pc'[r] \in Ended
        \/ pc'[r] = "reading" /\ mem'[r].got = 0
    BY <1>0, <1>4, BlankShape DEF TakeLock, Goto, Exit, Ended, Memory
  <2>2. QED
    BY <1>1, <2>1 DEF Resolved
<1>5. CASE ReadNext(r)
  <2> DEFINE d == ReadState(Op(r))[mem[r].got + 1]
             last == mem[r].got + 1 >= Len(ReadState(Op(r)))
  <2>1. ReadState(Op(r)) = <<"firewall/policies", "firewall/zones">>
    BY <1>0 DEF FirewallFamily, FwReadState, OneMeaning
  <2>2. /\ pc[r] = "reading" /\ pc'[r] \in {"reading", "validating"}
        /\ mem'[r].seen = [mem[r].seen EXCEPT ![d] = View(Op(r), d, ctl, mem[r].seen)]
    BY <1>0, <1>5, SMTT(30) DEF ReadNext, Goto, Blank
  <2>3. Claimed' \subseteq Claimed
    BY <1>5, ClaimsGrow DEF ReadNext, Complete
  <2>4. "firewall/policies" \in DOMAIN mem[r].seen
    BY DEF Memory, FirewallFamily, FwDatasets
  <2>5. Matching(mem'[r].seen["firewall/policies"], m) # {} \/ Claimed = {}
    <3>1. CASE mem[r].got = 0
      <4>1. View(Op(r), "firewall/policies", ctl, mem[r].seen) = ctl.policies
        BY DEF FirewallFamily, FwView
      <4>2. mem'[r].seen["firewall/policies"] = ctl.policies
        BY <2>1, <2>2, <2>4, <3>1, <4>1
      <4>3. QED
        BY <4>2 DEF Created, InTable, Claimed
    <3>2. CASE mem[r].got = 1
      <4>1. d = "firewall/zones"
        BY <2>1, <3>2
      <4>2. mem'[r].seen["firewall/policies"] = mem[r].seen["firewall/policies"]
        BY <2>2, <4>1
      <4>3. QED
        BY <2>2, <3>2, <4>2 DEF Resolved
    <3>3. mem[r].got < 2
      BY <2>1, <2>2 DEF Memory
    <3>4. QED
      BY <1>0, <3>1, <3>2, <3>3
  <2>6. QED
    BY <2>2, <2>3, <2>5 DEF Resolved
<1>6. CASE Validate(r)
  <2>1. CASE Validated(Op(r), mem[r].seen) /\ pc[r] = "validating" /\ Goto(r, "saving")
    <3>1. Matching(mem[r].seen["firewall/policies"], m) = {}
      BY <1>0, <2>1 DEF FirewallFamily, FwValidated, OneMeaning
    <3>2. Claimed = {}
      BY <2>1, <3>1 DEF Resolved
    <3>3. Claimed' = {}
      BY <1>6, <3>2, ClaimsGrow DEF Validate, Complete
    <3>4. pc'[r] = "saving"
      BY <1>0, <2>1 DEF Goto
    <3>5. QED
      BY <3>3, <3>4 DEF Resolved
  <2>2. CASE Exit(r, "done", "ERROR")
    BY <1>0, <1>1, <2>2 DEF Exit, Ended
  <2>3. QED
    BY <1>6, <2>1, <2>2 DEF Validate
<1>7. ASSUME pc[r] \in Working \ {"locking", "reading", "validating"}, ~Complete(r),
             pc'[r] \notin {"reading", "validating"}
      PROVE  Resolved(m, r)'
  BY <1>7, ClaimsGrow DEF Resolved, Inside
<1>8. CASE SaveSnapshot(r) \/ Plan(r) \/ Authorize(r) \/ RecheckIdentity(r)
  <2>1. /\ pc[r] \in {"saving", "recording", "authorizing", "identifying"}
        /\ pc'[r] \notin {"reading", "validating"}
    BY <1>0, <1>8
    DEF SaveSnapshot, Plan, Authorize, RecheckIdentity, Proceed, Refuse, Goto, Exit
  <2>2. QED
    BY <1>7, <2>1 DEF Working, Complete
<1>9. CASE \/ RefetchNext(r) \/ CheckFresh(r) \/ RecordAttempt(r) \/ Send(r)
           \/ Receive(r)
  <2>1. /\ pc[r] \in {"refetching", "comparing", "attempting", "sending", "waiting"}
        /\ pc'[r] \notin {"reading", "validating"}
    BY <1>0, <1>9
    DEF RefetchNext, CheckFresh, RecordAttempt, Send, Receive, Proceed, Refuse, Goto, Exit
  <2>2. QED
    BY <1>7, <2>1 DEF Working, Complete
<1>10. CASE VerifyNext(r) \/ Judge(r) \/ VerifyFails(r)
  <2>1. pc[r] = "verifying" /\ pc'[r] \notin {"reading", "validating"}
    BY <1>0, <1>10 DEF VerifyNext, Judge, VerifyFails, Reconcile, Goto
  <2>2. QED
    BY <1>7, <2>1 DEF Working, Complete
<1>11. QED
  BY <1>2, <1>3, <1>4, <1>5, <1>6, <1>8, <1>9, <1>10 DEF Step

SInv(m) == PInv /\ Sole(m)

LEMMA NextSole ==
  ASSUME FirewallFamily, NEW m, OneMeaning(m), SInv(m), [Next]_vars
  PROVE  SInv(m)'
<1>0. TypeOK /\ OneMutationAtATime /\ PInv /\ \A r \in Runs : Memory(r) /\ Phase(r)
  BY DEF SInv, PInv, LInv, IInv
<1>1. PInv' /\ TypeOK'
  BY NextTidy DEF SInv, PInv, LInv, IInv
<1>2. ASSUME NEW r \in Runs, Step(r) \/ Receive(r) \/ Crash(r)
      PROVE  SInv(m)'
  <2>1. UNCHANGED controller /\ \A s \in Runs \ {r} : Same(s)
    BY <1>0, <1>2, OthersKeep
  <2>3. CASE edits = 0
    <3>1. \A s \in Runs : Created(m, s) /\ Resolved(m, s)
      BY <2>3 DEF SInv, Sole
    <3>2. Created(m, r)' /\ Resolved(m, r)'
      BY <1>0, <1>2, <3>1, CreatedStep, ResolvedStep
    <3>3. ASSUME NEW s \in Runs \ {r}
          PROVE  Created(m, s)'
      BY <2>1, <3>1 DEF Same, Created, InTable, controller
    <3>4. CASE Complete(r)
      <4>1. Claimed = {} /\ lock = r
        BY <1>0, <3>1, <3>4 DEF Complete, Resolved, Inside, Working, OneMutationAtATime
      <4>2. Claimed' \subseteq {r}
        BY <1>0, <3>4, <4>1 DEF Complete, Claimed, TypeOK
      <4>3. ASSUME NEW s \in Runs \ {r}
            PROVE  Resolved(m, s)'
        <5>1. ~Inside(s)
          BY <1>0, <4>1 DEF OneMutationAtATime
        <5>2. QED
          BY <2>1, <5>1 DEF Same, Resolved, Inside, Working
      <4>4. QED
        BY <1>1, <3>2, <3>3, <4>2, <4>3 DEF SInv, Sole
    <3>5. CASE ~Complete(r)
      <4>1. Claimed' \subseteq Claimed
        BY <1>0, <1>2, <3>5, ClaimsGrow
      <4>2. ASSUME NEW s \in Runs \ {r}
            PROVE  Resolved(m, s)'
        BY <2>1, <3>1, <4>1 DEF Same, Resolved, Inside
      <4>3. QED
        BY <1>1, <2>3, <3>2, <3>3, <4>1, <4>2 DEF SInv, Sole
    <3>6. QED
      BY <3>4, <3>5
  <2>4. CASE edits # 0
    BY <1>1, <2>1, <2>4 DEF SInv, Sole, controller
  <2>5. QED
    BY <2>3, <2>4
<1>3. ASSUME \/ \E r \in Runs : Accept(r) \/ Reject(r) \/ Land(r)
             \/ Edit \/ Tick \/ UNCHANGED vars
      PROVE  SInv(m)'
  <2>1. UNCHANGED <<process, disk>>
    BY <1>3 DEF Accept, Reject, Land, Edit, Tick, vars
  <2>2. ASSUME edits = 0, UNCHANGED edits
        PROVE  Sole(m)'
    <3>1. \A s \in Runs : Created(m, s) /\ Resolved(m, s)
      BY <2>2 DEF SInv, Sole
    <3>2. Claimed' = Claimed /\ \A s \in Runs : Resolved(m, s)'
      BY <2>1, <3>1 DEF process, disk, Claimed, Resolved, Inside
    <3>3. Matching(ctl.policies, m) \subseteq Matching(ctl'.policies, m)
      <4>1. CASE \E r \in Runs : Land(r)
        BY <1>0, <1>1, <4>1, CreateAdds
      <4>2. ~Tick /\ ~Edit
        BY <1>0, <2>2 DEF Tick, Edit, FirewallFamily, FwTicks, TypeOK
      <4>3. QED
        BY <1>3, <4>1, <4>2 DEF Accept, Reject, vars, controller
    <3>4. \A s \in Runs : Created(m, s)'
      BY <2>1, <3>1, <3>3 DEF process, disk, Created, InTable
    <3>5. QED
      BY <2>2, <3>2, <3>4 DEF SInv, Sole
  <2>4. edits' = 0 => edits = 0 /\ UNCHANGED edits
    <3>1. edits \in Nat
      BY <1>0, BoundAssumption DEF TypeOK
    <3>2. UNCHANGED edits \/ edits' = edits + 1
      BY <1>3 DEF Accept, Reject, Land, Edit, Tick, vars, controller
    <3>3. QED
      BY <3>1, <3>2
  <2>5. QED
    BY <1>1, <2>2, <2>4 DEF SInv, Sole
<1>4. QED
  BY <1>2, <1>3 DEF Next, Environment

LEMMA SoleSuffices ==
  ASSUME NEW m, SInv(m), FirewallFamily
  PROVE  DuplicatesFollowUnresolvedWrites
<1>1. ASSUME NEW r \in Runs, edits = 0, r \in Present(ctl.policies),
             journal[r] \notin {"WRITE_ATTEMPTED", "AMBIGUOUS_REQUIRES_REVIEW"}
      PROVE  r \in Claimed
  <2>1. wire[r] = "applied"
    BY <1>1 DEF SInv, PInv, NewId, Present
  <2>2. journal[r] \in {"APPLIED", "NOT_APPLIED"}
    BY <1>1, <2>1 DEF SInv, PInv, LInv, IInv, Phase, Verdicts
  <2>3. journal[r] # "NOT_APPLIED"
    BY <2>1 DEF SInv, PInv, LInv, IInv, Refused
  <2>4. QED
    BY <2>2, <2>3 DEF Claimed
<1>2. QED
  BY <1>1 DEF SInv, Sole, DuplicatesFollowUnresolvedWrites

\* Where nobody else edits, the same policy is created twice only after a
\* first create that came to no verdict or to an ambiguous one: the duplicate
\* search of a plan finds whatever an APPLIED create has left, however many
\* runs create it and wherever they are killed.
THEOREM CreatedOnce ==
  ASSUME FirewallFamily, NEW CONSTANT m, OneMeaning(m)
  PROVE  Spec => []DuplicatesFollowUnresolvedWrites
<1>1. Init => SInv(m)
  BY InitTidy, InitSole DEF SInv
<1>2. SInv(m) /\ [Next]_vars => SInv(m)'
  BY NextSole
<1>3. SInv(m) => DuplicatesFollowUnresolvedWrites
  BY SoleSuffices
<1>4. QED
  BY <1>1, <1>2, <1>3, PTL DEF Spec

-----------------------------------------------------------------------------
(* What APPLIED says of a run that was alone: what it has verified is not   *)
(* what was there before, so that it is its own request that has landed.    *)

\* The table the run has read again, before its request.
Before(r) == mem[r].fresh["firewall/policies"]
Found(r) == mem[r].found["firewall/policies"]

\* The request has brought about what it asked for.
Accomplished(r) ==
    LET op == Op(r)
    IN  CASE op.kind = "create" ->
               Matching(ctl.policies, op.meaning) = {r} /\ Carries(ctl.policies[r], op)
          [] op.kind = "update" -> Carries(ctl.policies[op.id], op)
          [] op.kind = "delete" -> ctl.policies[op.id] = Absent

\* Nobody else has touched the table since the refetch began: it is as it was
\* read, until the request changes it.
Rests(r) ==
    /\ pc[r] \in Ready \cup Sent =>
         /\ mem[r].fresh # Unread /\ Before(r) \in Tables
         /\ Op(r).kind # "create" =>
              mem[r].fresh["firewall/policies/id"] = Before(r)[Op(r).id]
         /\ IF wire[r] = "applied" THEN Accomplished(r) ELSE ctl.policies = Before(r)
    /\ pc[r] = "verifying" /\ mem[r].got >= 1 => Found(r) \in {ctl.policies, Before(r)}
    /\ pc[r] = "completing" /\ mem[r].verified /\ Visible(r) =>
         wire[r] = "applied" /\ Done(r, ctl.policies)

Undisturbed(r) == "freshness" \notin touched[r] => Rests(r)

\* The table before the request is not one that would verify it, if it is to
\* change what is verified.
LEMMA BeforeFails ==
  ASSUME FirewallFamily, TypeOK, NEW r \in Runs, Checks(r), Rests(r), pc[r] \in Sent,
         Visible(r), NEW found, found["firewall/policies"] = Before(r), NEW answered
  PROVE  ~Verified(Op(r), mem[r].seen, mem[r].fresh, found, answered)
<1>0. /\ Op(r) \in Operations /\ Op(r).kind \in {"create", "update", "delete"}
      /\ mem[r].seen = mem[r].fresh
      /\ FwValidated(Op(r), mem[r].fresh) /\ FwHasDiff(Op(r), mem[r].fresh)
      /\ Before(r) \in Tables
      /\ Op(r).kind # "create" =>
           mem[r].fresh["firewall/policies/id"] = Before(r)[Op(r).id]
  BY DEF TypeOK, Op, Checks, Approved, Unchanged, FirewallFamily, FwPrecondition, Rests
<1>1. SUFFICES ASSUME Verified(Op(r), mem[r].seen, mem[r].fresh, found, answered)
               PROVE  FALSE
  OBVIOUS
<1>2. FwVerified(Op(r), mem[r].seen, mem[r].fresh, found, answered)
  BY <1>1 DEF FirewallFamily
<1>3. CASE Op(r).kind = "create"
  <2>1. Matching(Before(r), Op(r).meaning) # {}
    BY <1>1, <1>3, VerifiedMatches
  <2>2. QED
    BY <1>0, <1>3, <2>1 DEF FwValidated, Before
<1>4. CASE Op(r).kind = "update"
  <2> DEFINE policy == Before(r)[Op(r).id]
             seen == mem[r].seen
  <2>1. policy # Absent /\ Means(policy, Proposed(Op(r), seen).meaning) /\ Op(r).id \in Ids
    <3>1. PICK i \in Ids : Matches(Op(r), seen, found, answered) = {i}
      BY <1>2, <1>4 DEF FwVerified
    <3>2. QED
      BY <1>4, <3>1 DEF Matches, Present
  <2>2. policy \in Policies \cup DerivedPolicies \cup {BlockPolicy}
    BY <1>0, <2>1 DEF Tables
  <2>3. "meaning" \in DOMAIN policy
    <3>1. /\ "meaning" \in DOMAIN BlockPolicy
          /\ \A p \in Policies \cup DerivedPolicies : "meaning" \in DOMAIN p
      BY DEF Policies, BlockPolicy, DerivedPolicies
    <3> HIDE DEF policy
    <3>2. QED
      BY <2>2, <3>1
  <2>4. seen["firewall/policies/id"] = policy
    BY <1>0, <1>4
  <2>5. Op(r).meaning # AsIs /\ Op(r).meaning # policy.meaning
    BY <1>4, <2>4 DEF Visible
  <2>6. Proposed(Op(r), seen).meaning = Op(r).meaning
    <3>1. Proposed(Op(r), seen).meaning = Merged(policy.meaning, Op(r).meaning)
      <4> HIDE DEF policy, seen
      <4>1. QED
        BY <1>4, <2>3, <2>4 DEF Proposed
    <3>2. QED
      BY <2>5, <3>1 DEF Merged
  <2>7. QED
    BY <2>1, <2>5, <2>6 DEF Means
<1>5. CASE Op(r).kind = "delete"
  BY <1>0, <1>2, <1>5 DEF FwVerified, FwHasDiff, Proposed
<1>6. QED
  BY <1>0, <1>3, <1>4, <1>5

\* What is verified is the table there is, with what the request has done.
LEMMA VerifiedIsDone ==
  ASSUME FirewallFamily, TypeOK, NEW r \in Runs, Checks(r), Rests(r),
         Visible(r), pc[r] = "verifying", mem[r].got >= 1, NEW answered,
         Verified(Op(r), mem[r].seen, mem[r].fresh, mem[r].found, answered)
  PROVE  wire[r] = "applied" /\ Done(r, ctl.policies)
<1>0. Op(r) \in Operations /\ Op(r).kind \in {"create", "update", "delete"}
  BY DEF TypeOK, Op, FirewallFamily
<1>1. Found(r) # Before(r)
  BY BeforeFails DEF Sent, Found
<1>2. Found(r) = ctl.policies /\ wire[r] = "applied" /\ Accomplished(r)
  BY <1>1 DEF Rests, Sent
<1>3. CASE Op(r).kind = "create"
  <2>1. Matching(Found(r), Op(r).meaning) = {r}
    BY <1>2, <1>3 DEF Accomplished
  <2>2. PICK i \in Ids : /\ Matches(Op(r), mem[r].seen, mem[r].found, answered) = {i}
                         /\ Found(r)[i].index < BlockPolicy.index
    BY <1>3 DEF FirewallFamily, FwVerified, Found
  <2>3. Matches(Op(r), mem[r].seen, mem[r].found, answered)
          \subseteq Matching(Found(r), Op(r).meaning)
    BY <1>3 DEF Matches, Matching, Found, Proposed, Present
  <2>4. i = r
    BY <2>1, <2>2, <2>3
  <2>5. QED
    BY <1>2, <1>3, <2>1, <2>2, <2>4 DEF Done, Accomplished
<1>4. CASE Op(r).kind # "create"
  BY <1>0, <1>2, <1>4 DEF Accomplished, Done
<1>5. QED
  BY <1>3, <1>4

LEMMA RestsStep ==
  ASSUME FirewallFamily, LInv, CInv, NEW r \in Runs, Rests(r),
         "freshness" \notin touched[r], Step(r) \/ Receive(r) \/ Crash(r)
  PROVE  Rests(r)'
<1> USE DEF Ready, Sent, Ended
<1>0. /\ Op(r) \in Operations /\ TypeOK /\ IInv /\ Memory(r) /\ Checks(r)
      /\ mem[r].got \in Nat
  BY DEF LInv, IInv, TypeOK, Op
<1>x. ctl' = ctl
  BY <1>0, OthersKeep DEF controller
<1>k. ASSUME KeepsReads(r),
             (wire[r] # "applied" /\ wire'[r] # "applied") \/ KeepsRequest(r)
      PROVE  /\ Op(r)' = Op(r) /\ Before(r)' = Before(r)
             /\ Accomplished(r)' = Accomplished(r)
             /\ mem'[r].fresh = mem[r].fresh
             /\ (wire[r] = "applied")' = (wire[r] = "applied")
             /\ Done(r, ctl.policies)' = Done(r, ctl.policies)
             /\ Visible(r)' = Visible(r)
  BY <1>x, <1>k
  DEF KeepsReads, KeepsRequest, Op, Before, Accomplished, Done, Visible
<1>1. CASE \/ Elsewhere(r) \/ BeginsReading(r) \/ ReadsOn(r) \/ Plans(r)
           \/ BeginsRefetch(r) \/ Refetches(r)
  BY <1>1
  DEF Elsewhere, BeginsReading, ReadsOn, Plans, BeginsRefetch, Refetches, Rests
<1>2. CASE Passes(r)
  <2>1. /\ pc[r] = "comparing" /\ pc'[r] = "attempting" /\ wire[r] = "idle"
        /\ wire'[r] = "idle" /\ KeepsReads(r)
    BY <1>2 DEF Passes, KeepsRequest
  <2>2. mem[r].fresh = Look(Op(r), ctl) /\ mem[r].fresh # Unread
    BY <2>1 DEF CInv, Course, UpToDate
  <2>3. Before(r) = ctl.policies /\ ctl.policies \in Tables
    <3>1. /\ ReadState(Op(r))[1] = "firewall/policies" /\ 1 \in 1 .. Len(ReadState(Op(r)))
          /\ "firewall/policies" \in Datasets
      BY <1>0 DEF FirewallFamily, FwReadState, FwDatasets
    <3>2. Look(Op(r), ctl)["firewall/policies"] = ctl.policies
      BY <3>1 DEF Look, FirewallFamily, FwView
    <3>3. QED
      BY <1>0, <2>2, <3>2 DEF Before, TypeOK, FirewallFamily, FwStates
  <2>4. ASSUME Op(r).kind # "create"
        PROVE  mem[r].fresh["firewall/policies/id"] = ctl.policies[Op(r).id]
    <3>1. /\ ReadState(Op(r))[2] = "firewall/policies/id"
          /\ 2 \in 1 .. Len(ReadState(Op(r))) /\ "firewall/policies/id" \in Datasets
      BY <1>0, <2>4 DEF FirewallFamily, FwReadState, FwDatasets
    <3>2. Look(Op(r), ctl)["firewall/policies/id"] = ctl.policies[Op(r).id]
      BY <2>4, <3>1 DEF Look, FirewallFamily, FwView
    <3>3. QED
      BY <2>2, <3>2
  <2>5. QED
    BY <1>k, <1>x, <2>1, <2>2, <2>3, <2>4 DEF Rests
<1>3. CASE RecordsAttempt(r) \/ Sends(r) \/ Hears(r)
  <2>1. /\ pc[r] \in Ready \cup {"waiting"} /\ pc'[r] \in {"sending", "waiting", "verifying"}
        /\ pc'[r] = "verifying" => mem'[r].got = 0
        /\ KeepsReads(r)
        /\ (wire[r] # "applied" /\ wire'[r] # "applied") \/ KeepsRequest(r)
    BY <1>3 DEF RecordsAttempt, Sends, Hears
  <2>2. QED
    BY <1>k, <1>x, <2>1 DEF Rests
<1>4. CASE Verifies(r)
  <2>1. VerifyReads(Op(r)) = <<"firewall/policies">>
    BY <1>0 DEF FirewallFamily, FwVerifyReads
  <2>2. /\ pc[r] = "verifying" /\ pc'[r] = "verifying" /\ mem[r].got = 0
        /\ KeepsReads(r) /\ KeepsRequest(r)
    BY <1>0, <1>4, <2>1 DEF Verifies
  <2>3. Found(r)' = ctl.policies
    <3>1. View(Op(r), "firewall/policies", ctl, mem[r].found) = ctl.policies
      BY DEF FirewallFamily, FwView
    <3>2. QED
      BY <1>4, <2>1, <2>2, <3>1 DEF Verifies, Found
  <2>4. QED
    BY <1>k, <1>x, <2>2, <2>3 DEF Rests
<1>5. CASE Concludes(r)
  <2>1. /\ pc[r] = "verifying" /\ pc'[r] \in {"verifying", "completing"}
        /\ mem'[r].got = 0 /\ KeepsReads(r) /\ KeepsRequest(r)
    BY <1>5 DEF Concludes
  <2>2. mem'[r].verified /\ Visible(r) => wire[r] = "applied" /\ Done(r, ctl.policies)
    <3>1. VerifyReads(Op(r)) = <<"firewall/policies">>
      BY <1>0 DEF FirewallFamily, FwVerifyReads
    <3>2. QED
      BY <1>0, <1>5, <2>1, <3>1, VerifiedIsDone DEF Concludes
  <2>3. QED
    BY <1>k, <1>x, <2>1, <2>2 DEF Rests
<1>6. QED
  BY <1>0, <1>1, <1>2, <1>3, <1>4, <1>5, OwnStep

\* Its own request takes effect on the table the run has read.
LEMMA RestsLand ==
  ASSUME FirewallFamily, PInv, TypeOK', NEW r \in Runs, Rests(r), Land(r)
  PROVE  Rests(r)'
<1> USE DEF Sent, Ended
<1>0. /\ Op(r) \in Operations /\ TypeOK /\ Phase(r) /\ Checks(r) /\ Sound(r)
      /\ Tidy(ctl.policies) /\ Op(r).kind \in {"create", "update", "delete"}
  BY DEF PInv, LInv, IInv, TypeOK, Op, FirewallFamily
<1>1. /\ wire[r] = "accepted" /\ wire'[r] = "applied"
      /\ UNCHANGED <<pc, cmd, mem>>
  BY <1>0, SMTT(30) DEF Land, TypeOK, process
<1>2. pc[r] \in Sent \cup Ended
  BY <1>0, <1>1 DEF Phase, Recorded, Unrecorded, TypeOK, Working
<1>3. /\ Op(r)' = Op(r) /\ Before(r)' = Before(r) /\ Found(r)' = Found(r)
      /\ Visible(r)' = Visible(r)
  BY <1>1 DEF Op, Before, Found, Visible
<1>4. ASSUME pc[r] \in Sent
      PROVE  Accomplished(r)'
  <2> DEFINE op == Op(r)
             target == mem[r].seen["firewall/policies/id"]
  <2>1. /\ ctl.policies = Before(r) /\ Before(r) \in Tables
        /\ op.kind # "create" => target = Before(r)[op.id]
        /\ FwValidated(op, mem[r].fresh) /\ mem[r].seen = mem[r].fresh
        /\ body[r] = Proposed(op, mem[r].seen)
    BY <1>0, <1>1, <1>4
    DEF Rests, Checks, Approved, Ready, Unchanged, FirewallFamily, FwPrecondition, FwRequest
  <2>2. PICK i \in Owned, new \in Policies \cup {Absent} :
          /\ Tidy(ctl'.policies) /\ ctl'.policies[i] = new
          /\ \A j \in Ids \ (Returns \cup {i}) : ctl'.policies[j] = ctl.policies[j]
          /\ op.kind = "create" =>
               i = r /\ \E place \in Free(ctl.policies) : new = NewPolicy(body[r], place)
          /\ op.kind = "update" =>
               i = op.id /\ ctl.policies[i] # Absent /\ new = body[r]
          /\ op.kind = "delete" => i = op.id /\ new = Absent
    BY <1>0, LandChanges
  <2>3. CASE op.kind = "create"
    <3>1. Matching(ctl.policies, op.meaning) = {}
      BY <2>1, <2>3 DEF FwValidated, Before
    <3>2. PICK place \in Free(ctl.policies) : new = NewPolicy(body[r], place)
      BY <2>2, <2>3
    <3>3. Carries(new, op) /\ Means(new, op.meaning)
      <4>1. /\ body[r].meaning = op.meaning /\ body[r].name = op.name
            /\ body[r].schedule = op.schedule
        BY <2>1, <2>3 DEF Proposed
      <4>2. QED
        BY <3>2, <4>1 DEF NewPolicy, Carries, Means
    <3>4. new # Absent
      <4>1. /\ op.meaning \in Meanings /\ op.name \in Names /\ op.schedule \in Schedules
        BY <1>0, <2>3 DEF FirewallFamily
      <4>2. body[r] = [meaning |-> op.meaning, name |-> op.name, schedule |-> op.schedule]
        BY <2>1, <2>3 DEF Proposed
      <4>3. new \in Policies
        BY <3>2, <4>1, <4>2 DEF NewPolicy, Policies, Free
      <4>4. QED
        BY <4>3, Origins
    <3>5. \A j \in Returns : j \notin Matching(ctl'.policies, op.meaning)
      BY <2>2, ReturnsAreDerived DEF Matching, Present, Means
    <3>6. Matching(ctl'.policies, op.meaning) = {r}
      BY <2>2, <2>3, <3>1, <3>3, <3>4, <3>5, IdsApart DEF Matching, Present
    <3>7. QED
      BY <1>3, <2>2, <2>3, <3>3, <3>6 DEF Accomplished
  <2>4. CASE op.kind = "update"
    <3>1. target # Absent /\ target \in Policies
      <4>1. op.id \in Ids /\ target = ctl.policies[op.id] /\ target # Absent
        BY <1>0, <2>1, <2>2, <2>4 DEF FirewallFamily
      <4>2. target.origin = "USER_DEFINED"
        BY <2>1, <2>4 DEF FwValidated, Changeable
      <4>3. QED
        BY <1>0, <4>1, <4>2, UserDefined
    <3>2. new = [target EXCEPT !.meaning = Merged(target.meaning, op.meaning),
                               !.name = Merged(target.name, op.name),
                               !.schedule = Merged(target.schedule, op.schedule)]
      <4>1. {"meaning", "name", "schedule"} \subseteq DOMAIN target
        BY <3>1 DEF Policies
      <4>2. QED
        BY <2>1, <2>2, <2>4, <4>1 DEF Proposed
    <3> HIDE DEF target
    <3>3. /\ new.meaning = Merged(target.meaning, op.meaning)
          /\ new.name = Merged(target.name, op.name)
          /\ new.schedule = Merged(target.schedule, op.schedule)
          /\ new.origin = "USER_DEFINED"
      BY <3>1, <3>2 DEF Policies
    <3>4. Carries(new, op)
      BY <3>3 DEF Carries, Merged
    <3>5. QED
      BY <1>3, <2>2, <2>4, <3>4 DEF Accomplished
  <2>5. CASE op.kind = "delete"
    BY <1>3, <2>2, <2>5 DEF Accomplished
  <2>6. QED
    BY <1>0, <2>3, <2>4, <2>5
<1>5. pc[r] = "verifying" /\ mem[r].got >= 1 => Found(r) = Before(r)
  BY <1>1 DEF Rests
<1>6. QED
  BY <1>1, <1>2, <1>3, <1>4, <1>5 DEF Rests, Ready

LEMMA UndisturbedKept ==
  ASSUME NEW s \in Runs, Undisturbed(s), Same(s), UNCHANGED <<ctl, touched>>
  PROVE  Undisturbed(s)'
  BY DEF Same, Undisturbed, Rests, Before, Found, Accomplished, Done, Op, Visible

LEMMA UndisturbedOthers ==
  ASSUME NEW s \in Runs, Undisturbed(s), Same(s),
         NEW others \in SUBSET Runs, s \in others, Disturb(others)
  PROVE  Undisturbed(s)'
<1>1. touched'[s] = touched[s]
         \cup (IF ReadBegun(s) THEN {"read_state"} ELSE {})
         \cup (IF RefetchBegun(s) THEN {"freshness"} ELSE {})
  BY DEF Disturb
<1>2. ASSUME "freshness" \notin touched'[s]
      PROVE  Rests(s)'
  <2>1. ~RefetchBegun(s) /\ Rests(s)
    BY <1>1, <1>2 DEF Undisturbed
  <2>2. pc[s] \notin Ready \cup Sent
    BY <2>1 DEF Rests, RefetchBegun, Ready, Sent, Working
  <2>3. QED
    BY <2>2 DEF Same, Rests, Ready, Sent, Visible, Op
<1>3. QED
  BY <1>2 DEF Undisturbed

UInv == PInv /\ CInv /\ \A r \in Runs : Undisturbed(r)

LEMMA NextUndisturbed ==
  ASSUME FirewallFamily, UInv, [Next]_vars
  PROVE  UInv'
<1>0. /\ TypeOK /\ PInv /\ LInv /\ CInv /\ Covering
      /\ \A s \in Runs : Undisturbed(s)
  BY FirewallCovering DEF UInv, PInv, LInv, IInv
<1>1. PInv' /\ CInv' /\ TypeOK'
  BY <1>0, NextTidy, NextCourse DEF PInv, LInv, IInv
<1>2. ASSUME NEW r \in Runs, Step(r) \/ Receive(r) \/ Crash(r), NEW s \in Runs
      PROVE  Undisturbed(s)'
  <2>1. UNCHANGED controller /\ (s # r => Same(s))
    BY <1>0, <1>2, OthersKeep
  <2>2. CASE s = r
    BY <1>0, <1>2, <2>1, <2>2, RestsStep DEF controller, Undisturbed
  <2>3. CASE s # r
    BY <1>0, <2>1, <2>3, UndisturbedKept DEF controller
  <2>4. QED
    BY <2>2, <2>3
<1>3. ASSUME NEW r \in Runs, Accept(r) \/ Reject(r), NEW s \in Runs
      PROVE  Undisturbed(s)'
  <2>1. /\ wire'[s] = "applied" <=> wire[s] = "applied"
        /\ UNCHANGED <<process, ctl, touched>>
    BY <1>0, <1>3, SMTT(30) DEF Accept, Reject, TypeOK, controller
  <2>2. QED
    BY <1>0, <2>1 DEF process, Undisturbed, Rests, Before, Found, Accomplished, Done, Op, Visible
<1>4. ASSUME NEW r \in Runs, Land(r), NEW s \in Runs
      PROVE  Undisturbed(s)'
  <2>1. CASE s = r
    <3>1. touched'[r] = touched[r]
      BY <1>0, <1>4 DEF Land, Disturb, TypeOK
    <3>2. QED
      BY <1>0, <1>1, <1>4, <2>1, <3>1, RestsLand DEF Undisturbed
  <2>2. CASE s # r
    <3>1. Same(s)
      BY <1>0, <1>4, <2>2, SMTT(30) DEF Same, Land, TypeOK, process, disk
    <3>2. QED
      BY <1>0, <1>4, <2>2, <3>1, UndisturbedOthers DEF Land
  <2>3. QED
    BY <2>1, <2>2
<1>5. ASSUME Edit \/ UNCHANGED vars, NEW s \in Runs
      PROVE  Undisturbed(s)'
  <2>1. Same(s)
    BY <1>5 DEF Same, Edit, vars, process, disk, network
  <2>2. QED
    BY <1>0, <1>5, <2>1, UndisturbedKept, UndisturbedOthers DEF Edit, vars, controller
<1>6. ~Tick
  BY DEF Tick, FirewallFamily, FwTicks
<1>7. QED
  BY <1>1, <1>2, <1>3, <1>4, <1>5, <1>6 DEF Next, Environment, UInv

LEMMA InitUndisturbed == FirewallFamily /\ Init => UInv
<1>1. Init => \A r \in Runs : Undisturbed(r)
  BY DEF Init, Undisturbed, Rests, Ready, Sent
<1>2. QED
  BY <1>1, InitTidy, InitChecks, InitCourse DEF UInv, CInv, LInv

LEMMA UndisturbedInvariant ==
  ASSUME FirewallFamily
  PROVE  Spec => []UInv
<1>1. Init => UInv
  BY InitUndisturbed
<1>2. UInv /\ [Next]_vars => UInv'
  BY NextUndisturbed
<1>3. QED
  BY <1>1, <1>2, PTL DEF Spec

\* APPLIED, said by a run that was alone and had a change to make that shows in
\* the meaning of a policy, is true: its own request has taken effect and the
\* table is what was asked for, with its name and schedule, whatever the answer
\* to the request was and however often the run had to verify.  (Of an update
\* of the rest alone the run renaming_applied shows that it is not.)
THEOREM TrueChanges ==
  ASSUME FirewallFamily
  PROVE  Spec => AppliedMeansDone
<1>1. ASSUME UInv, [Next]_vars
      PROVE  [\A r \in Runs : AppliedUndisturbed(r) /\ Visible(r) =>
                wire[r] = "applied" /\ Done(r, ctl.policies)]_vars
  <2>1. ASSUME Next, NEW r \in Runs, AppliedUndisturbed(r), Visible(r)
        PROVE  wire[r] = "applied" /\ Done(r, ctl.policies)
    <3>1. pc[r] = "completing" /\ mem[r].verified
      BY <1>1, <2>1, AppliedIsVerified DEF AppliedUndisturbed, UInv, PInv, LInv
    <3>2. QED
      BY <1>1, <2>1, <3>1 DEF AppliedUndisturbed, UInv, Undisturbed, Rests
  <2>2. QED
    BY <1>1, <2>1
<1>2. QED
  BY <1>1, UndisturbedInvariant, PTL DEF Spec, AppliedMeansDone

-----------------------------------------------------------------------------
(* A create that finds its policy.  What verify finds more than planning    *)
(* saw, in a tidy table that nobody else has touched, is the new policy and *)
(* its return policy.                                                       *)

\* What the request of a run has found and done, if it was alone.
Landed(r) ==
    (pc[r] \in Sent /\ wire[r] = "applied" /\ "freshness" \notin touched[r]) =>
      /\ mem[r].fresh # Unread
      /\ Tidy(Before(r)) /\ Before(r)[r] = Absent
      /\ Op(r).kind = "create" =>
           \A i \in Ids \ (Returns \cup {r}) : ctl.policies[i] = Before(r)[i]

OInv == UInv /\ \A r \in Runs : Landed(r)

LEMMA LandedStep ==
  ASSUME LInv, NEW r \in Runs, Landed(r), Step(r) \/ Receive(r) \/ Crash(r)
  PROVE  Landed(r)'
<1> USE DEF Sent, Ended
<1>0. TypeOK /\ IInv /\ Memory(r)
  BY DEF LInv, IInv
<1>1. ctl' = ctl /\ touched' = touched
  BY <1>0, OthersKeep DEF controller
<1>2. CASE Hears(r) \/ Verifies(r) \/ Concludes(r)
  <2>1. /\ pc[r] \in Sent /\ KeepsReads(r) /\ KeepsRequest(r)
    BY <1>2 DEF Hears, Verifies, Concludes
  <2>2. QED
    BY <1>1, <2>1 DEF Landed, KeepsReads, KeepsRequest, Before, Op
<1>3. CASE ~(Hears(r) \/ Verifies(r) \/ Concludes(r))
  <2>1. pc'[r] \notin Sent \/ wire'[r] # "applied"
    BY <1>0, <1>3, OwnStep
    DEF Elsewhere, BeginsReading, ReadsOn, Plans, BeginsRefetch, Refetches, Passes,
        RecordsAttempt, Sends
  <2>2. QED
    BY <2>1 DEF Landed
<1>4. QED
  BY <1>2, <1>3

\* A request takes effect on the tidy table its run has read.
LEMMA LandedLand ==
  ASSUME FirewallFamily, PInv, TypeOK', NEW r \in Runs, Undisturbed(r), Land(r)
  PROVE  Landed(r)'
<1> SUFFICES ASSUME pc'[r] \in Sent, "freshness" \notin touched'[r]
             PROVE  /\ mem'[r].fresh # Unread
                    /\ Tidy(Before(r))' /\ Before(r)'[r] = Absent
                    /\ Op(r)'.kind = "create" =>
                         \A i \in Ids \ (Returns \cup {r}) :
                           ctl'.policies[i] = Before(r)'[i]
  BY DEF Landed
<1>0. TypeOK /\ Tidy(ctl.policies) /\ NewId(r) /\ Sound(r)
  BY DEF PInv, LInv, IInv
<1>1. /\ wire[r] = "accepted" /\ UNCHANGED <<pc, cmd, mem>> /\ touched'[r] = touched[r]
  BY <1>0 DEF Land, Disturb, TypeOK, process
<1>2. /\ ctl.policies = Before(r) /\ Before(r)' = Before(r) /\ Op(r)' = Op(r)
      /\ mem'[r].fresh = mem[r].fresh /\ mem[r].fresh # Unread
  BY <1>1 DEF Undisturbed, Rests, Before, Op
<1>3. Before(r)[r] = Absent
  BY <1>0, <1>1, <1>2 DEF NewId
<1>4. ASSUME Op(r).kind = "create", NEW i \in Ids \ (Returns \cup {r})
      PROVE  ctl'.policies[i] = Before(r)[i]
  BY <1>0, <1>2, <1>4, LandChanges
<1>5. Tidy(Before(r))'
  <2>1. Tidy(Before(r))
    BY <1>0, <1>2
  <2>2. QED
    BY <1>2, <2>1 DEF Tidy
<1>6. QED
  BY <1>2, <1>3, <1>4, <1>5

LEMMA LandedOthers ==
  ASSUME NEW s \in Runs, Landed(s), Same(s),
         \/ UNCHANGED <<ctl, touched>>
         \/ \E others \in SUBSET Runs : s \in others /\ Disturb(others)
  PROVE  Landed(s)'
<1>1. CASE UNCHANGED <<ctl, touched>>
  BY <1>1 DEF Same, Landed, Before, Op
<1>2. CASE \E others \in SUBSET Runs : s \in others /\ Disturb(others)
  <2>1. touched'[s] = touched[s]
           \cup (IF ReadBegun(s) THEN {"read_state"} ELSE {})
           \cup (IF RefetchBegun(s) THEN {"freshness"} ELSE {})
    BY <1>2 DEF Disturb
  <2>2. CASE pc[s] \in Sent
    <3>1. mem[s].fresh # Unread => RefetchBegun(s)
      BY <2>2 DEF RefetchBegun, Sent, Working
    <3>2. QED
      BY <2>1, <3>1 DEF Landed, Same
  <2>3. CASE pc[s] \notin Sent
    BY <2>3 DEF Same, Landed
  <2>4. QED
    BY <2>2, <2>3
<1>3. QED
  BY <1>1, <1>2

LEMMA NextLanded ==
  ASSUME FirewallFamily, OInv, [Next]_vars
  PROVE  OInv'
<1>0. /\ UInv /\ PInv /\ LInv /\ TypeOK
      /\ \A s \in Runs : Landed(s) /\ Undisturbed(s)
  BY DEF OInv, UInv, PInv, LInv, IInv
<1>1. UInv' /\ TypeOK'
  BY <1>0, NextUndisturbed DEF UInv, PInv, LInv, IInv
<1>2. ASSUME NEW r \in Runs, Step(r) \/ Receive(r) \/ Crash(r), NEW s \in Runs
      PROVE  Landed(s)'
  <2>1. UNCHANGED controller /\ (s # r => Same(s))
    BY <1>0, <1>2, OthersKeep
  <2>2. QED
    BY <1>0, <1>2, <2>1, LandedStep, LandedOthers DEF controller
<1>3. ASSUME NEW r \in Runs, Accept(r) \/ Reject(r), NEW s \in Runs
      PROVE  Landed(s)'
  <2>1. UNCHANGED <<process, controller>> /\ (wire'[s] = "applied" <=> wire[s] = "applied")
    BY <1>0, <1>3, SMTT(30) DEF Accept, Reject, TypeOK
  <2>2. QED
    BY <1>0, <2>1 DEF Landed, Before, Op, process, controller
<1>4. ASSUME NEW r \in Runs, Land(r), NEW s \in Runs
      PROVE  Landed(s)'
  <2>1. CASE s = r
    BY <1>0, <1>1, <1>4, <2>1, LandedLand
  <2>2. CASE s # r
    <3>1. Same(s)
      BY <1>0, <1>4, <2>2, SMTT(30) DEF Same, Land, TypeOK, process, disk
    <3>2. QED
      BY <1>0, <1>4, <2>2, <3>1, LandedOthers DEF Land
  <2>3. QED
    BY <2>1, <2>2
<1>5. ASSUME Edit \/ UNCHANGED vars, NEW s \in Runs
      PROVE  Landed(s)'
  <2>1. Same(s)
    BY <1>5 DEF Same, Edit, vars, process, disk, network
  <2>2. QED
    BY <1>0, <1>5, <2>1, LandedOthers DEF Edit, vars, controller
<1>6. ~Tick
  BY DEF Tick, FirewallFamily, FwTicks
<1>7. QED
  BY <1>1, <1>2, <1>3, <1>4, <1>5, <1>6 DEF Next, Environment, OInv

\* The return policy of every other meaning goes somewhere else.
Apart(op) == \A m \in Returning : m = op.meaning \/ Towards[m] # Towards[op.meaning]

\* What is in the table next to the new policy and its return policy is what
\* planning saw.
LEMMA OrderIsKept ==
  ASSUME FirewallFamily, NEW before, NEW table, NEW r \in Runs, NEW op,
         Tidy(before), Tidy(table), Apart(op), op.name \in Names,
         Matching(before, op.meaning) = {}, before[r] = Absent, table[r] # Absent,
         table[r].meaning = op.meaning, table[r].name = op.name,
         \A i \in Ids \ (Returns \cup {r}) : table[i] = before[i]
  PROVE  OrderSignature(table, {r} \cup DerivedReturns(table, op)) =
           OrderSignature(before, {})
<1>0. r \in Owned
  BY IdsApart DEF FirewallFamily
<1>1. ASSUME NEW i \in Returns, table[i] # Absent, i[2] = r
      PROVE  i \in DerivedReturns(table, op)
  <2>1. i \in Ids /\ table[i] = Derived(table[r]) /\ table[r] \in Policies \cup {Absent}
    BY <1>0, <1>1, IdsApart DEF Tidy
  <2>2. /\ table[i].origin = "DERIVED" /\ table[i].meaning = op.meaning
        /\ table[i].name = op.name
    BY <1>1, <2>1, Origins
  <2>3. <<op.name, op.name>> \in Prefixes
    BY PrefixAssumption
  <2>4. QED
    BY <1>1, <2>1, <2>2, <2>3 DEF DerivedReturns, Present
<1>2. ASSUME NEW i \in Returns, i[2] # r
      PROVE  table[i] = before[i] /\ i \notin DerivedReturns(table, op)
  <2>1. i \in Ids /\ i[2] \in Owned /\ i[2] \in Ids \ (Returns \cup {r})
    BY <1>2, IdsApart
  <2>2. table[i[2]] = before[i[2]]
    BY <2>1
  <2>3. table[i] = Derived(table[i[2]]) /\ before[i] = Derived(table[i[2]])
        /\ table[i[2]] \in Policies \cup {Absent}
    BY <2>1, <2>2 DEF Tidy
  <2>4. ASSUME table[i] # Absent
        PROVE  Towards[table[i].meaning] # Towards[op.meaning]
    <3>1. /\ table[i[2]] \in Policies /\ table[i[2]].meaning \in Returning
          /\ table[i].meaning = table[i[2]].meaning
      BY <2>3, <2>4, Origins
    <3>2. i[2] \in Matching(before, table[i].meaning)
      BY <2>1, <2>2, <3>1, Origins DEF Matching, Present, Means
    <3>3. table[i].meaning # op.meaning
      BY <3>2
    <3>4. QED
      BY <3>1, <3>3 DEF Apart
  <2>5. QED
    BY <2>3, <2>4 DEF DerivedReturns, Present
<1>3. ASSUME NEW i \in Returns, i[2] = r
      PROVE  before[i] = Absent
  BY <1>3 DEF Tidy, Derived
<1>4. ASSUME NEW i \in Ids \ (Returns \cup {r}), table[i] # Absent
      PROVE  table[i].origin # "DERIVED"
  <2>1. CASE i \in Owned
    BY <1>4, <2>1, Origins DEF Tidy
  <2>2. CASE i = SystemBlock
    BY <2>2, Origins DEF Tidy
  <2>3. QED
    BY <2>1, <2>2, IdsApart
<1>5. ASSUME NEW i \in Ids
      PROVE  /\ i \in Present(table) \ ({r} \cup DerivedReturns(table, op))
                  <=> i \in Present(before)
             /\ i \in Present(before) => table[i] = before[i]
  <2>1. CASE i = r
    BY <2>1 DEF Present
  <2>2. CASE i \in Returns
    <3>1. i # r
      BY <1>0, <2>2, IdsApart
    <3>2. QED
      BY <1>1, <1>2, <1>3, <2>2, <3>1 DEF Present
  <2>3. CASE i \notin Returns \cup {r}
    BY <1>4, <2>3 DEF Present, DerivedReturns
  <2>4. QED
    BY <2>1, <2>2, <2>3
<1>6. Present(table) \ ({r} \cup DerivedReturns(table, op)) = Present(before)
  BY <1>5 DEF Present
<1>7. \A i \in Present(before) : table[i] = before[i]
  BY <1>5 DEF Present
<1>8. QED
  BY <1>6, <1>7 DEF OrderSignature

\* The answer names a policy that is as it should be.
LEMMA NamedMatch ==
  ASSUME NEW op, op.kind = "create", NEW seen, NEW found, NEW i,
         i \in Present(found["firewall/policies"]),
         Means(found["firewall/policies"][i], op.meaning)
  PROVE  Matches(op, seen, found, i) = {i}
<1>1. Proposed(op, seen).meaning = op.meaning
  BY DEF Proposed
<1>2. Matches(op, seen, found, i) =
        {j \in {i} : Means(found["firewall/policies"][j], Proposed(op, seen).meaning)}
  BY DEF Matches
<1>3. QED
  BY <1>1, <1>2

\* A create that was alone, and finds one policy of its meaning in the place
\* of its own, verifies it.
LEMMA AloneIsVerified ==
  ASSUME FirewallFamily, OInv, NEW r \in Runs, Judge(r), OneMatchFound(r),
         "freshness" \notin touched[r], wire[r] = "applied",
         Apart(Op(r))
  PROVE  mem'[r].verified
<1> DEFINE op == Op(r)
           table == Found(r)
<1>0. /\ TypeOK /\ Checks(r) /\ Rests(r) /\ Landed(r) /\ Tidy(ctl.policies)
      /\ op \in Operations /\ op.kind = "create" /\ r \in Ids /\ op.name \in Names
      /\ op.name # AsIs /\ op.meaning # AsIs
  BY IdsApart, MeaningAssumption
  DEF OInv, UInv, PInv, LInv, IInv, TypeOK, Op, OneMatchFound, Undisturbed, FirewallFamily
<1>1. /\ pc[r] = "verifying" /\ mem[r].got = 1
      /\ Reconcile(r,
           FwVerified(op, mem[r].seen, mem[r].fresh, mem[r].found, AnsweredId(r)),
           SeveralMatches(op, mem[r].seen, mem[r].found, AnsweredId(r)))
  <2>1. VerifyReads(op) = <<"firewall/policies">>
    BY <1>0 DEF FirewallFamily, FwVerifyReads
  <2>2. pc[r] = "verifying" /\ mem[r].got = 1
    BY <2>1 DEF Judge
  <2>3. QED
    BY <2>2 DEF Judge, FirewallFamily
<1>2. /\ mem[r].seen = mem[r].fresh
      /\ Matching(Before(r), op.meaning) = {}
  <2>1. mem[r].seen = mem[r].fresh
    BY <1>0, <1>1 DEF Checks, Sent, Unchanged, FirewallFamily, FwPrecondition
  <2>2. FwValidated(op, mem[r].seen)
    BY <1>0, <1>1 DEF Checks, Approved, Sent, FirewallFamily
  <2>3. QED
    BY <1>0, <2>1, <2>2 DEF FwValidated, Before
<1>3. PICK i \in Ids : /\ Matching(table, op.meaning) = {i}
                       /\ table[i].index < BlockPolicy.index
  BY DEF OneMatchFound, Found
<1>4. table = ctl.policies
  BY <1>0, <1>1, <1>2, <1>3 DEF Rests
<1>5. i = r /\ r \in Present(table) /\ Carries(table[r], op)
  <2>1. Matching(table, op.meaning) = {r} /\ Carries(table[r], op)
    BY <1>0, <1>1, <1>4 DEF Rests, Sent, Accomplished
  <2>2. QED
    BY <1>3, <2>1 DEF Matching
<1>6. Matches(op, mem[r].seen, mem[r].found, AnsweredId(r)) = {r}
  <2>1. AnsweredId(r) = r \/ AnsweredId(r) \notin Present(table)
    BY DEF AnsweredId, FirewallFamily, Present
  <2>2. Means(table[r], op.meaning) /\ Proposed(op, mem[r].seen).meaning = op.meaning
    BY <1>0, <1>3, <1>5 DEF Matching, Proposed
  <2>3. CASE AnsweredId(r) = r
    BY <1>0, <1>5, <2>2, <2>3, NamedMatch DEF Found
  <2>4. CASE AnsweredId(r) \notin Present(table)
    <3>1. Matches(op, mem[r].seen, mem[r].found, AnsweredId(r)) =
            Matching(table, Proposed(op, mem[r].seen).meaning)
      BY <1>0, <2>4 DEF Matches, Found
    <3>2. QED
      BY <1>3, <1>5, <2>2, <3>1
  <2>5. QED
    BY <2>1, <2>3, <2>4
<1>7. OrderSignature(table, {r} \cup DerivedReturns(table, op)) =
        OrderSignature(Before(r), {})
  <2>1. /\ Tidy(Before(r)) /\ Before(r)[r] = Absent
        /\ \A j \in Ids \ (Returns \cup {r}) : table[j] = Before(r)[j]
    BY <1>0, <1>1, <1>4 DEF Landed, Sent
  <2>2. /\ table[r] # Absent /\ Tidy(table) /\ op.name \in Names
        /\ table[r].meaning = op.meaning /\ table[r].name = op.name
    BY <1>0, <1>4, <1>5 DEF Present, Carries
  <2>3. Apart(op) /\ Matching(Before(r), op.meaning) = {}
    BY <1>2
  <2> HIDE DEF op, table
  <2>4. QED
    BY <2>1, <2>2, <2>3, OrderIsKept
<1>8. FwVerified(op, mem[r].seen, mem[r].fresh, mem[r].found, AnsweredId(r))
  BY <1>0, <1>2, <1>3, <1>5, <1>6, <1>7 DEF FwVerified, Before, Found
<1>9. QED
  BY <1>0, <1>1, <1>8 DEF Reconcile, TypeOK, Blank

\* Where the return policies there can be go somewhere else than that of the
\* policy a create asks for (in protocol, IP version or addresses), a create
\* that nobody disturbed and that finds exactly one policy of its meaning, in
\* its place, is APPLIED: the return policy it brings with it is not taken for
\* somebody else's.  (With another one towards the same addresses the code says
\* something else; OneMatchApplied.cfg shows it.)
THEOREM OneMatch ==
  ASSUME FirewallFamily, \A op \in Operations : op.kind = "create" => Apart(op)
  PROVE  Spec => OneMatchIsApplied
<1>1. Init => OInv
  BY InitUndisturbed DEF OInv, Landed, Init, Sent
<1>2. OInv /\ [Next]_vars => OInv'
  BY NextLanded
<1>3. ASSUME OInv, [Next]_vars
      PROVE  [\A r \in Runs :
                (/\ Judge(r) /\ OneMatchFound(r)
                 /\ touched[r] = {} /\ wire[r] = "applied") => mem'[r].verified]_vars
  <2>1. ASSUME NEW r \in Runs, Judge(r), OneMatchFound(r), touched[r] = {},
               wire[r] = "applied"
        PROVE  mem'[r].verified
    <3>1. Apart(Op(r))
      BY <1>3, <2>1 DEF OInv, UInv, PInv, LInv, IInv, TypeOK, Op, OneMatchFound
    <3>2. QED
      BY <1>3, <2>1, <3>1, AloneIsVerified
  <2>2. QED
    BY <2>1
<1>4. QED
  BY <1>1, <1>2, <1>3, PTL DEF Spec, OneMatchIsApplied
=============================================================================
