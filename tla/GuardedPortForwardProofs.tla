---------------------- MODULE GuardedPortForwardProofs ----------------------
(***************************************************************************)
(* What a restore sends, and what delete and restore owe the table of      *)
(* forwards, for every number of runs and every table.  The object comes   *)
(* out of a file that anybody may replace between the plan and the         *)
(* request: RestoringFamily says that the engine has been given the        *)
(* approval and the request of PortForward, whatever its other callbacks   *)
(* are.  The second half takes the whole family of callbacks, PfFamily.    *)
(***************************************************************************)
EXTENDS GuardedPortForward, GuardedMutatorProofs

RestoringFamily ==
    /\ \A op, s : ApprovalMaterial(op, s) = PfApprovalMaterial(op, s)
    /\ \A op, s, t : Request(op, s, t) = PfRequest(op, s, t)

\* Past the gate the token is that of what the run has itself planned, and the
\* request, once there is one, is what that token shows.
Carries(r) ==
    Op(r).kind = "restore" =>
      /\ pc[r] \in Approved => RestoreApproved(r, mem[r].seen["original"])
      /\ wire[r] # "idle" => RestoreApproved(r, body[r])

LEMMA CarriesStep ==
  ASSUME RestoringFamily, TypeOK, NEW r \in Runs, Phase(r), Carries(r),
         Step(r) \/ Receive(r) \/ Crash(r)
  PROVE  Carries(r)'
<1>0. /\ DOMAIN mem = Runs /\ DOMAIN mem[r] = DOMAIN Blank
      /\ r \in DOMAIN pc /\ r \in DOMAIN wire /\ DOMAIN body = Runs
  BY DEF TypeOK
<1>1. ASSUME NEW where \in {"reading", "validating"} \cup Ended, pc'[r] = where,
             cmd'[r] = cmd[r], UNCHANGED network
      PROVE  Carries(r)'
  BY <1>1 DEF Carries, RestoreApproved, Op, network, Approved, Recorded, Sent, Ended
<1>2. CASE Begin(r)
  <2>1. pc'[r] = "locking" /\ wire'[r] = "idle"
    BY <1>0, <1>2 DEF Begin, Goto, network, Phase, Unrecorded
  <2>2. QED
    BY <2>1 DEF Carries, Approved, Recorded, Sent
<1>3. ASSUME NEW where \in Ended, NEW words, Exit(r, where, words), UNCHANGED network
      PROVE  Carries(r)'
  BY <1>1, <1>3, ExitForgets
<1>4. CASE TakeLock(r) \/ ReadNext(r)
  <2>1. CASE Exit(r, "done", "ERROR")
    BY <1>3, <1>4, <2>1 DEF TakeLock, ReadNext, Ended
  <2>2. CASE ~Exit(r, "done", "ERROR")
    <3>1. pc'[r] \in {"reading", "validating"} /\ cmd' = cmd /\ UNCHANGED network
      BY <1>0, <1>4, <2>2 DEF TakeLock, ReadNext, Goto
    <3>2. QED
      BY <1>1, <3>1
  <2>3. QED
    BY <2>1, <2>2
<1>e. CASE ReadFails(r) \/ Crash(r) \/ RefetchFails(r) \/ Complete(r)
  BY <1>3, <1>e DEF ReadFails, Crash, RefetchFails, Complete, Refuse, Ended
<1>5. ASSUME pc[r] \notin Approved, UNCHANGED <<cmd, mem, network>>,
             pc'[r] \in {"saving", "recording", "authorizing"}
      PROVE  Carries(r)'
  BY <1>5 DEF Carries, RestoreApproved, Op, network, Approved, Recorded, Sent
<1>6. CASE Validate(r) \/ SaveSnapshot(r) \/ Plan(r)
  <2>1. CASE \E words : Exit(r, "done", words)
    BY <1>3, <1>6, <2>1 DEF Validate, SaveSnapshot, Plan, Ended
  <2>2. CASE ~\E words : Exit(r, "done", words)
    <3>1. /\ pc[r] \in {"validating", "saving", "recording"}
          /\ pc'[r] \in {"saving", "recording", "authorizing"}
          /\ UNCHANGED <<cmd, mem, network>>
      BY <1>0, <1>6, <2>2 DEF Validate, SaveSnapshot, Plan, Goto
    <3>2. QED
      BY <1>5, <3>1 DEF Approved, Recorded, Sent
  <2>3. QED
    BY <2>1, <2>2
<1>7. CASE Authorize(r)
  <2>1. CASE Authorized(r) /\ Proceed(r, "identifying") /\ pc[r] = "authorizing"
    <3>1. cmd[r].approval.material = PfApprovalMaterial(Op(r), mem[r].seen)
      BY <2>1 DEF Authorized, ApprovalToken, RestoringFamily
    <3>2. Op(r).kind = "restore" => RestoreApproved(r, mem[r].seen["original"])
      BY <3>1 DEF RestoreApproved, PfApprovalMaterial
    <3>3. UNCHANGED <<cmd, mem, network>>
      BY <2>1 DEF Proceed
    <3>4. QED
      BY <3>2, <3>3 DEF Carries, RestoreApproved, Op, network
  <2>2. QED
    BY <1>3, <1>7, <2>1 DEF Authorize, Refuse, Ended
<1>8. ASSUME pc[r] \in Approved, cmd' = cmd, mem'[r].seen = mem[r].seen,
             UNCHANGED network
      PROVE  Carries(r)'
  BY <1>8 DEF Carries, RestoreApproved, Op, network
<1>9. CASE RecheckIdentity(r) \/ CheckFresh(r)
  <2>1. CASE UNCHANGED <<cmd, mem, network>>
    <3>1. pc[r] \in Approved
      BY <1>9 DEF RecheckIdentity, CheckFresh, Approved, Recorded
    <3>2. QED
      BY <1>8, <2>1, <3>1
  <2>2. QED
    BY <1>3, <1>9, <2>1 DEF RecheckIdentity, CheckFresh, Proceed, Refuse, Ended
<1>10. CASE RefetchNext(r) \/ RecordAttempt(r) \/ Receive(r)
  <2>1. /\ pc[r] \in {"refetching", "attempting", "waiting"}
        /\ cmd' = cmd /\ mem'[r].seen = mem[r].seen /\ UNCHANGED network
    BY <1>0, <1>10, SMTT(30) DEF RefetchNext, RecordAttempt, Receive, Blank
  <2>2. QED
    BY <1>8, <2>1 DEF Approved, Recorded, Sent
<1>11. CASE VerifyNext(r) \/ Judge(r) \/ VerifyFails(r)
  <2>1. /\ pc[r] = "verifying"
        /\ cmd' = cmd /\ mem'[r].seen = mem[r].seen /\ UNCHANGED network
    BY <1>0, <1>11, SMTT(30) DEF VerifyNext, Judge, VerifyFails, Reconcile, Blank
  <2>2. QED
    BY <1>8, <2>1 DEF Approved, Recorded, Sent
<1>12. CASE Send(r)
  <2>1. /\ pc[r] = "sending" /\ UNCHANGED <<cmd, mem>>
        /\ body'[r] = PfRequest(Op(r), mem[r].seen, mem[r].fresh)
    BY <1>0, <1>12 DEF Send, RestoringFamily
  <2>2. Op(r).kind = "restore" => body'[r] = mem[r].seen["original"]
    BY <2>1 DEF PfRequest
  <2>3. QED
    BY <2>1, <2>2 DEF Carries, RestoreApproved, Op, Approved
<1>13. QED
  BY <1>2, <1>4, <1>e, <1>6, <1>7, <1>9, <1>10, <1>11, <1>12 DEF Step

RInv == IInv /\ \A r \in Runs : Carries(r)

LEMMA NextCarries ==
  ASSUME RestoringFamily, RInv, [Next]_vars
  PROVE  RInv'
<1>0. TypeOK /\ \A r \in Runs : Phase(r) /\ Carries(r)
  BY DEF RInv, IInv
<1>1. IInv'
  BY NextInv DEF RInv
<1>2. ASSUME NEW r \in Runs, Step(r) \/ Receive(r) \/ Crash(r), NEW s \in Runs
      PROVE  Carries(s)'
  <2>1. CASE s = r
    BY <1>0, <1>2, <2>1, CarriesStep
  <2>2. CASE s # r
    <3>1. Same(s)
      BY <1>0, <1>2, <2>2, OthersKeep
    <3>2. QED
      BY <1>0, <3>1 DEF Same, Carries, RestoreApproved, Op
  <2>3. QED
    BY <2>1, <2>2
<1>3. ASSUME \/ \E r \in Runs : Accept(r) \/ Reject(r) \/ Land(r)
             \/ Edit \/ Tick \/ UNCHANGED vars,
             NEW s \in Runs
      PROVE  Carries(s)'
  <2>1. UNCHANGED <<process, body>>
    BY <1>3 DEF Accept, Reject, Land, Edit, Tick, vars, network
  <2>2. wire[s] = "idle" => wire'[s] = "idle"
    <3>1. DOMAIN wire = Runs
      BY <1>0 DEF TypeOK
    <3>2. CASE \E r \in Runs : Accept(r) \/ Reject(r) \/ Land(r)
      BY <3>1, <3>2 DEF Accept, Reject, Land
    <3>3. CASE Edit \/ Tick \/ UNCHANGED vars
      BY <3>3 DEF Edit, Tick, vars, network
    <3>4. QED
      BY <1>3, <3>2, <3>3
  <2>3. QED
    BY <1>0, <2>1, <2>2 DEF process, Carries, RestoreApproved, Op
<1>4. QED
  BY <1>1, <1>2, <1>3 DEF RInv, Next, Environment

\* The object a restore sends is the one its token was printed for: neither a
\* snapshot file replaced after the plan, nor another run, nor a kill puts
\* anything else on the wire.
THEOREM ApprovedObject ==
  ASSUME RestoringFamily
  PROVE  Spec => []SendsTheApprovedObject
<1>1. Init => RInv
  <2>1. Init => \A r \in Runs : Carries(r)
    BY DEF Init, Carries, Approved, Recorded, Sent
  <2>2. QED
    BY <2>1, InitInv DEF RInv
<1>2. RInv /\ [Next]_vars => RInv'
  BY NextCarries
<1>3. RInv => SendsTheApprovedObject
  BY DEF RInv, Carries, RestoreApproved, SendsTheApprovedObject
<1>4. QED
  BY <1>1, <1>2, <1>3, PTL DEF Spec
-----------------------------------------------------------------------------
(* What delete and restore owe the table of forwards and what is derived    *)
(* from it.  The derived objects and the volatile fields move by            *)
(* themselves, so that what a run has read is not what there is: it says    *)
(* which forwards there are, and that derived objects come from them.       *)

PfFamily ==
    /\ Runs \subseteq Restores /\ States = PfStates /\ Datasets = PfDatasets
    /\ NotRead = NoView
    /\ \A op \in Operations :
         /\ op.kind \in {"delete", "restore"} /\ op.id \in PfIds
         /\ ReadState(op) = PfReadState(op)
         /\ VerifyReads(op) = PfVerifyReads(op)
    /\ \A op, d, c, s : View(op, d, c, s) = PfView(op, d, c, s)
    /\ \A op, s, t : RuntimeSafe(op, s, t) = PfRuntimeSafe(op, s, t)
    /\ \A op, s, t : Request(op, s, t) = PfRequest(op, s, t)
    /\ \A r, op, b, c : Landing(r, op, b, c) = PfLanding(r, op, b, c)
    /\ \A op, s, t, f, i : Verified(op, s, t, f, i) = PfVerified(op, s, t, f, i)
    /\ \A c : Ticks(c) = PfTicks(c)

\* The same forwards, up to their volatile fields.
Agree(a, b) ==
    \A i \in PfIds : /\ a[i] = Absent <=> b[i] = Absent
                     /\ a[i] # Absent => a[i].sense = b[i].sense

\* The controller has caught up with the forwards, or not yet.
CatchesUp(new, old, forwards) ==
    \A i \in PfIds : new[i] = old[i] \/ new[i] = StableRule(forwards[i])

\* What is derived was there already, or there is a forward it comes from.
Traced(was, derived, forwards) ==
    \A i \in PfIds : derived[i] # Absent =>
        \/ \E j \in PfIds : was[j] = derived[i]
        \/ Alike(forwards, derived[i]) # {}

LEMMA AgreeAlike ==
  ASSUME NEW a, NEW b, Agree(a, b)
  PROVE  \A s : Alike(a, s) = Alike(b, s)
  BY DEF Agree, Alike, Existing

LEMMA Derivation ==
  ASSUME NEW new, NEW old, NEW forwards, CatchesUp(new, old, forwards)
  PROVE  /\ \A was : Traced(was, old, forwards) => Traced(was, new, forwards)
         /\ \A id \in PfIds : \A s :
              (/\ forwards[id] = Absent /\ Alike(forwards, s) = {}
               /\ Related(old, id, s) = {}) => Related(new, id, s) = {}
         /\ \A s \in Senses, i \in PfIds :
              /\ new[i] = s => old[i] = s \/ i \in Alike(forwards, s)
              /\ i \in Alike(forwards, s) /\ old[i] # Absent => new[i] # Absent
<1>1. ASSUME NEW i \in PfIds, new[i] # Absent
      PROVE  new[i] = old[i] \/ i \in Alike(forwards, new[i])
  BY <1>1 DEF CatchesUp, StableRule, Alike, Existing
<1>2. ASSUME NEW was, Traced(was, old, forwards)
      PROVE  Traced(was, new, forwards)
  BY <1>1, <1>2 DEF Traced
<1>3. ASSUME NEW id \in PfIds, NEW s, forwards[id] = Absent, Alike(forwards, s) = {},
             Related(old, id, s) = {}
      PROVE  Related(new, id, s) = {}
  <2>1. ASSUME NEW i \in PfIds, new[i] # Absent, i = id \/ new[i] = s
        PROVE  FALSE
    <3>1. CASE new[i] = old[i]
      BY <1>3, <2>1, <3>1 DEF Related, Existing
    <3>2. CASE i \in Alike(forwards, new[i])
      BY <1>3, <2>1, <3>2 DEF Alike, Existing
    <3>3. QED
      BY <1>1, <2>1, <3>1, <3>2
  <2>2. QED
    BY <2>1 DEF Related, Existing
<1>4. ASSUME NEW s \in Senses, NEW i \in PfIds
      PROVE  /\ new[i] = s => old[i] = s \/ i \in Alike(forwards, s)
             /\ i \in Alike(forwards, s) /\ old[i] # Absent => new[i] # Absent
  <2>1. s # Absent
    BY AbsentAssumption
  <2>2. QED
    BY <1>1, <2>1 DEF CatchesUp, StableRule, Alike, Existing
<1>5. QED
  BY <1>2, <1>3, <1>4

LEMMA PfTables ==
  ASSUME PfFamily, TypeOK
  PROVE  /\ ctl \in PfStates
         /\ DOMAIN ctl = {"forwards", "policies", "status", "file"}
         /\ ctl.forwards \in [PfIds -> Rules \cup {Absent}]
         /\ DOMAIN ctl.policies = PfIds /\ DOMAIN ctl.status = PfIds
         /\ ctl.file \in Senses \cup {NotRead}
  BY DEF PfFamily, TypeOK, PfStates

\* What moves by itself changes no forward but its volatile field, and derives
\* from no other.
LEMMA TickDerives ==
  ASSUME PfFamily, TypeOK, Tick
  PROVE  /\ Agree(ctl.forwards, ctl'.forwards)
         /\ CatchesUp(ctl'.policies, ctl.policies, ctl.forwards)
         /\ CatchesUp(ctl'.status, ctl.status, ctl.forwards)
<1>0. /\ DOMAIN ctl = {"forwards", "policies", "status", "file"}
      /\ ctl.forwards \in [PfIds -> Rules \cup {Absent}]
      /\ DOMAIN ctl.policies = PfIds /\ DOMAIN ctl.status = PfIds
  BY PfTables
<1>1. ctl' \in PfTicks(ctl) /\ ctl' \in PfStates
  BY DEF Tick, PfFamily
<1>2. CASE \E i \in PfIds :
             ctl' = [ctl EXCEPT !.policies[i] = StableRule(ctl.forwards[i])]
  BY <1>0, <1>2 DEF Agree, CatchesUp
<1>3. CASE \E i \in PfIds :
             ctl' = [ctl EXCEPT !.status[i] = StableRule(ctl.forwards[i])]
  BY <1>0, <1>3 DEF Agree, CatchesUp
<1>4. CASE \E i \in Existing(ctl.forwards) :
             ctl' = [ctl EXCEPT !.forwards[i].stamp = @ + 1]
  <2>1. PICK i \in PfIds : /\ ctl.forwards[i] # Absent
                           /\ ctl' = [ctl EXCEPT !.forwards[i].stamp = @ + 1]
    BY <1>4 DEF Existing
  <2>2. ctl.forwards[i] \in Rules
    BY <1>0, <2>1
  <2>3. /\ ctl'.policies = ctl.policies /\ ctl'.status = ctl.status
        /\ ctl'.forwards =
             [ctl.forwards EXCEPT ![i] = [ctl.forwards[i] EXCEPT !.stamp = @ + 1]]
    BY <1>0, <2>1
  <2>4. /\ \A j \in PfIds \ {i} : ctl'.forwards[j] = ctl.forwards[j]
        /\ ctl'.forwards[i] = [ctl.forwards[i] EXCEPT !.stamp = @ + 1]
    BY <1>0, <2>3
  <2>5. /\ ctl'.forwards[i].sense = ctl.forwards[i].sense
        /\ ctl'.forwards[i] # Absent
    <3>1. ctl'.forwards[i].sense = ctl.forwards[i].sense
      BY <2>2, <2>4 DEF Rules
    <3>2. ctl'.forwards[i] \in [sense : Senses, stamp : Nat]
      BY <2>2, <2>4, StampAssumption DEF Rules
    <3>3. QED
      BY <3>1, <3>2, AbsentAssumption
  <2>6. QED
    BY <2>1, <2>3, <2>4, <2>5 DEF Agree, CatchesUp
<1>5. QED
  BY <1>1, <1>2, <1>3, <1>4 DEF PfTicks

-----------------------------------------------------------------------------
(* Along the course of a run, while nobody disturbs it.                     *)

Compared == Ready \cup Sent
Reread == {"comparing"} \cup Compared

\* The meaning of the forward the operation is about.
Sense(r) ==
    IF Op(r).kind = "delete" THEN mem[r].seen["rest/portforward/id"].sense
    ELSE mem[r].seen["original"]

\* The object of a restore is loaded first, and it is what is sent.
Loaded(r) ==
    Op(r).kind = "restore" =>
      /\ \/ pc[r] = "reading" /\ mem[r].got >= 1
         \/ pc[r] \in Planning \cup {"refetching"} \cup Reread
         => mem[r].seen["original"] \in Senses
      /\ wire[r] # "idle" => body[r] \in Senses

\* After n GETs of the refetch: a forward to delete is there, ...
Standing(n, r) ==
    /\ n >= 1 => mem[r].fresh # Unread
    /\ Op(r).kind = "delete" /\ n >= 2 /\ wire[r] # "applied" =>
         ctl.forwards[Op(r).id] # Absent

\* ... and a restore knows the forwards and where derived objects come from.
Surveyed(n, r) ==
    Op(r).kind = "restore" =>
      /\ n >= 3 => Agree(mem[r].fresh["rest/portforward"], ctl.forwards)
      /\ n >= 4 => Traced(mem[r].fresh["firewall/policies"], ctl.policies, ctl.forwards)
      /\ n >= 5 => Traced(mem[r].fresh["stat/portforward"], ctl.status, ctl.forwards)

\* What means the same, among what is derived, is derived from what is restored.
OnlyOwn(r, derived) ==
    NothingLeftBehind(r) =>
        \A i \in PfIds : derived[i] = Sense(r) => wire[r] = "applied" /\ i = r

\* A restore that has passed the comparison is the only one of its meaning.
Unique(r) ==
    Op(r).kind = "restore" =>
      /\ Alike(ctl.forwards, Sense(r)) = IF wire[r] = "applied" THEN {r} ELSE {}
      /\ OnlyOwn(r, ctl.policies) /\ OnlyOwn(r, ctl.status)

\* What the first n GETs of a verification have found: of a delete, ...
Gone(r, table) == table[Op(r).id] = Absent /\ Alike(table, Sense(r)) = {}
Cleared(r, derived) == Related(derived, Op(r).id, Sense(r)) = {}

DeletionSeen(n, r) ==
    LET found == mem[r].found
        gone == Gone(r, found["rest/portforward"])
    IN  Op(r).kind = "delete" =>
      /\ n >= 1 /\ gone => wire[r] = "applied" /\ Gone(r, ctl.forwards)
      /\ n >= 2 /\ gone /\ Cleared(r, found["firewall/policies"]) =>
           Cleared(r, ctl.policies)
      /\ n >= 3 /\ gone /\ Cleared(r, found["stat/portforward"]) =>
           Cleared(r, ctl.status)

\* ... and of a restore.
InForce(r, derived) == Related(derived, r, Sense(r)) # {}

RestorationSeen(n, r) ==
    LET found == mem[r].found
        back == Alike(found["rest/portforward"], Sense(r))
    IN  Op(r).kind = "restore" =>
      /\ n >= 1 /\ back # {} => wire[r] = "applied" /\ back = {r}
      /\ (/\ n >= 2 /\ back # {} /\ NothingLeftBehind(r)
          /\ InForce(r, found["firewall/policies"])) => ctl.policies[r] # Absent
      /\ (/\ n >= 3 /\ back # {} /\ NothingLeftBehind(r)
          /\ InForce(r, found["stat/portforward"])) => ctl.status[r] # Absent

\* What a verified outcome says of the configuration.
Outcome(r) ==
    /\ wire[r] = "applied"
    /\ Op(r).kind = "delete" =>
         Gone(r, ctl.forwards) /\ Cleared(r, ctl.policies) /\ Cleared(r, ctl.status)
    /\ Op(r).kind = "restore" /\ NothingLeftBehind(r) =>
         ctl.policies[r] # Absent /\ ctl.status[r] # Absent

Alone(r) ==
    /\ pc[r] = "refetching" => Standing(mem[r].got, r) /\ Surveyed(mem[r].got, r)
    /\ pc[r] \in Reread => Standing(5, r)
    /\ pc[r] = "comparing" => Surveyed(5, r)
    /\ pc[r] \in Compared => Unique(r)
    /\ InFlight(r) /\ Op(r).kind = "restore" => Alike(ctl.forwards, body[r]) = {}
    /\ pc[r] = "verifying" =>
         DeletionSeen(mem[r].got, r) /\ RestorationSeen(mem[r].got, r)
    /\ pc[r] = "completing" /\ mem[r].verified => Outcome(r)

PfCourse(r) == Loaded(r) /\ ("freshness" \notin touched[r] => Alone(r))

LEMMA InitPfCourse == Init => \A r \in Runs : PfCourse(r)
  BY DEF Init, PfCourse, Loaded, Alone, InFlight, Planning, Reread, Compared, Ready, Sent

LEMMA PfCourseKept ==
  ASSUME NEW s \in Runs, PfCourse(s), Same(s), UNCHANGED controller
  PROVE  PfCourse(s)'
<1> USE DEF Same, controller, Op, Sense, NothingLeftBehind
<1>1. Loaded(s)'
  BY DEF PfCourse, Loaded
<1>2. /\ Standing(5, s)' = Standing(5, s) /\ Surveyed(5, s)' = Surveyed(5, s)
      /\ Standing(mem[s].got, s)' = Standing(mem[s].got, s)
      /\ Surveyed(mem[s].got, s)' = Surveyed(mem[s].got, s)
  BY DEF Standing, Surveyed
<1>3. Unique(s) => Unique(s)'
  BY DEF Unique, OnlyOwn
<1>4. /\ DeletionSeen(mem[s].got, s) => DeletionSeen(mem[s].got, s)'
      /\ RestorationSeen(mem[s].got, s) => RestorationSeen(mem[s].got, s)'
      /\ Outcome(s) => Outcome(s)'
  BY DEF DeletionSeen, RestorationSeen, Outcome, Gone, Cleared, InForce
<1>5. QED
  BY <1>1, <1>2, <1>3, <1>4 DEF PfCourse, Alone, InFlight

LEMMA LoadedStep ==
  ASSUME PfFamily, IInv, NEW r \in Runs, Memory(r), Loaded(r),
         Step(r) \/ Receive(r) \/ Crash(r)
  PROVE  Loaded(r)'
<1> USE DEF Planning, Reread, Compared, Ready, Sent, Ended
<1>0. Op(r) \in Operations /\ TypeOK
  BY DEF IInv, TypeOK, Op
<1>1. CASE Elsewhere(r) \/ BeginsReading(r)
  BY <1>1 DEF Elsewhere, BeginsReading, KeepsRequest, Loaded, Op
<1>2. CASE ReadsOn(r)
  <2> DEFINE n == mem[r].got
             d == ReadState(Op(r))[n + 1]
             view == View(Op(r), d, ctl, mem[r].seen)
  <2>1. /\ pc[r] = "reading" /\ wire[r] = "idle" /\ wire'[r] = "idle"
        /\ n \in Nat /\ n < Len(ReadState(Op(r))) /\ d \in Datasets
        /\ DOMAIN mem[r].seen = Datasets /\ view # NoView /\ cmd'[r] = cmd[r]
        /\ mem'[r].seen = [mem[r].seen EXCEPT ![d] = view]
    BY <1>2 DEF ReadsOn, KeepsRequest
  <2>2. ASSUME Op(r).kind = "restore"
        PROVE  mem'[r].seen["original"] \in Senses
    <3>1. /\ ReadState(Op(r)) = <<"original", "snapshot", "rest/portforward",
                                  "firewall/policies", "stat/portforward">>
          /\ "original" \in Datasets
      BY <1>0, <2>2 DEF PfFamily, PfReadState, PfDatasets
    <3>2. CASE n = 0
      <4>1. d = "original" /\ view = ctl.file
        BY <3>1, <3>2 DEF PfFamily, PfView
      <4>2. ctl.file \in Senses
        BY <1>0, <2>1, <4>1, PfTables DEF PfFamily
      <4> HIDE DEF view
      <4>3. QED
        BY <2>1, <3>1, <4>1, <4>2
    <3>3. CASE n # 0
      <4>1. d # "original" /\ n >= 1
        BY <2>1, <3>1, <3>3
      <4> HIDE DEF view
      <4>2. QED
        BY <2>1, <2>2, <4>1 DEF Loaded
    <3>4. QED
      BY <3>2, <3>3
  <2>3. QED
    BY <2>1, <2>2 DEF Loaded, Op
<1>3. CASE Plans(r) \/ BeginsRefetch(r)
  BY <1>3 DEF Plans, BeginsRefetch, KeepsReads, KeepsRequest, Loaded, Op
<1>4. CASE Refetches(r)
  BY <1>4 DEF Refetches, KeepsRequest, Loaded, Op
<1>5. CASE Sends(r)
  <2>1. body'[r] = PfRequest(Op(r), mem[r].seen, mem[r].fresh)
    BY <1>5 DEF Sends, PfFamily
  <2>2. QED
    BY <1>5, <2>1 DEF Sends, KeepsReads, Loaded, Op, PfRequest
<1>6. CASE Passes(r) \/ RecordsAttempt(r) \/ Hears(r) \/ Verifies(r) \/ Concludes(r)
  BY <1>6
  DEF Passes, RecordsAttempt, Hears, Verifies, Concludes, KeepsReads, KeepsRequest,
      Loaded, Op
<1>7. QED
  BY <1>1, <1>2, <1>3, <1>4, <1>5, <1>6, OwnStep

LEMMA AloneStep ==
  ASSUME PfFamily, LInv, NEW r \in Runs, PfCourse(r), "freshness" \notin touched[r],
         Step(r) \/ Receive(r) \/ Crash(r)
  PROVE  Alone(r)'
<1> USE DEF Reread, Compared, Ready, Sent, Ended
<1>0. /\ Op(r) \in Operations /\ TypeOK /\ Phase(r) /\ Memory(r) /\ Checks(r)
      /\ Alone(r) /\ Loaded(r)
      /\ Op(r).kind \in {"delete", "restore"}
  BY DEF LInv, IInv, TypeOK, Op, PfCourse, PfFamily
<1>x. ctl' = ctl
  BY <1>0, OthersKeep DEF controller
<1>s. Op(r).kind = "restore" /\ pc[r] \in Reread =>
        Sense(r) = mem[r].seen["original"] /\ Sense(r) \in Senses /\ Sense(r) # Absent
  BY <1>0, AbsentAssumption DEF Loaded, Sense
<1>b. ASSUME KeepsReads(r), KeepsRequest(r)
      PROVE  /\ wire'[r] = wire[r]
             /\ (InFlight(r) /\ Op(r).kind = "restore" =>
                   Alike(ctl.forwards, body[r]) = {})'
  BY <1>0, <1>x, <1>b DEF KeepsReads, KeepsRequest, Op, Alone, InFlight
<1>c. ASSUME KeepsReads(r), KeepsRequest(r)
      PROVE  /\ Op(r)' = Op(r) /\ Sense(r)' = Sense(r)
             /\ NothingLeftBehind(r)' = NothingLeftBehind(r)
             /\ Standing(5, r) => Standing(5, r)'
             /\ Unique(r) => Unique(r)'
             /\ Outcome(r) => Outcome(r)'
  BY <1>x, <1>c
  DEF KeepsReads, KeepsRequest, Op, Sense, NothingLeftBehind, Standing, Unique, OnlyOwn,
      Outcome, Gone, Cleared
<1>p. /\ pc[r] \in Reread => Standing(5, r)
      /\ pc[r] = "comparing" => Surveyed(5, r)
      /\ pc[r] \in Compared => Unique(r)
      /\ pc[r] = "verifying" =>
           DeletionSeen(mem[r].got, r) /\ RestorationSeen(mem[r].got, r)
  BY <1>0 DEF Alone
<1>1. CASE Elsewhere(r)
  BY <1>0, <1>1, <1>x DEF Elsewhere, KeepsRequest, Alone, InFlight, Op
<1>2. CASE BeginsReading(r) \/ ReadsOn(r) \/ Plans(r) \/ BeginsRefetch(r)
  BY <1>2
  DEF BeginsReading, ReadsOn, Plans, BeginsRefetch, KeepsRequest, Alone, InFlight,
      Standing, Surveyed
<1>3. CASE Refetches(r)
  <2>0. PICK n \in Nat : n = mem[r].got
    BY <1>3 DEF Refetches
  <2> DEFINE d == ReadState(Op(r))[n + 1]
             view == View(Op(r), d, ctl, mem[r].fresh)
  <2>1. /\ pc[r] = "refetching" /\ wire[r] = "idle" /\ wire'[r] = "idle"
        /\ n < Len(ReadState(Op(r))) /\ d \in Datasets
        /\ DOMAIN mem[r].fresh = Datasets /\ view # NoView
        /\ mem'[r].fresh = [mem[r].fresh EXCEPT ![d] = view]
        /\ mem'[r].fresh # Unread /\ Op(r)' = Op(r)
        /\ \/ /\ n + 1 = Len(ReadState(Op(r)))
              /\ pc'[r] = "comparing" /\ mem'[r].got = 0
           \/ pc'[r] = "refetching" /\ mem'[r].got = n + 1
    BY <1>3, <2>0 DEF Refetches, KeepsRequest, Op
  <2>2. Standing(n, r) /\ Surveyed(n, r)
    BY <1>0, <2>0, <2>1 DEF Alone
  <2>3. Op(r).kind = "delete" => n + 1 <= 4 /\ (n = 1 => ctl.forwards[Op(r).id] # Absent)
    BY <1>0, <2>1 DEF PfFamily, PfReadState, PfView
  <2>4. /\ mem'[r].fresh[d] = view
        /\ \A e \in Datasets \ {d} : mem'[r].fresh[e] = mem[r].fresh[e]
    BY <2>1
  <2>5. ASSUME Op(r).kind = "restore"
        PROVE  n + 1 <= 5 /\ Surveyed(n + 1, r)'
    <3>1. /\ ReadState(Op(r)) = <<"original", "snapshot", "rest/portforward",
                                  "firewall/policies", "stat/portforward">>
          /\ {"rest/portforward", "firewall/policies", "stat/portforward"} \subseteq Datasets
      BY <1>0, <2>5 DEF PfFamily, PfReadState, PfDatasets
    <3>2. n \in 0 .. 4
      BY <2>1, <3>1
    <3>3. CASE n \in {0, 1}
      BY <2>1, <3>3 DEF Surveyed
    <3>4. CASE n = 2
      <4>1. d = "rest/portforward" /\ view = ctl.forwards
        BY <3>1, <3>4 DEF PfFamily, PfView
      <4> HIDE DEF view
      <4>2. QED
        BY <1>x, <2>4, <3>4, <4>1 DEF Surveyed, Agree
    <3>5. CASE n = 3
      <4>1. d = "firewall/policies" /\ view = ctl.policies
        BY <3>1, <3>5 DEF PfFamily, PfView
      <4> HIDE DEF view
      <4>2. QED
        BY <1>x, <2>2, <2>4, <2>5, <3>1, <3>5, <4>1 DEF Surveyed, Traced
    <3>6. CASE n = 4
      <4>1. d = "stat/portforward" /\ view = ctl.status
        BY <3>1, <3>6 DEF PfFamily, PfView
      <4> HIDE DEF view
      <4>2. QED
        BY <1>x, <2>2, <2>4, <2>5, <3>1, <3>6, <4>1 DEF Surveyed, Traced
    <3>7. QED
      BY <2>1, <3>1, <3>2, <3>3, <3>4, <3>5, <3>6
  <2>6. Standing(n + 1, r)' /\ Surveyed(n + 1, r)'
    BY <1>0, <1>x, <2>1, <2>2, <2>3, <2>5 DEF Standing, Surveyed
  <2>7. pc'[r] = "comparing" => Standing(5, r)' /\ Surveyed(5, r)'
    <3>1. Op(r).kind = "delete" => Len(ReadState(Op(r))) = 4
      BY <1>0 DEF PfFamily, PfReadState
    <3>2. Op(r).kind = "restore" => Len(ReadState(Op(r))) = 5
      BY <1>0 DEF PfFamily, PfReadState
    <3>3. QED
      BY <1>0, <2>1, <2>6, <3>1, <3>2 DEF Standing, Surveyed
  <2>8. QED
    BY <2>1, <2>6, <2>7 DEF Alone, InFlight
<1>4. CASE Passes(r)
  <2>1. /\ pc[r] = "comparing" /\ pc'[r] = "attempting" /\ wire[r] = "idle"
        /\ wire'[r] = "idle" /\ KeepsReads(r) /\ KeepsRequest(r)
        /\ Standing(5, r) /\ Surveyed(5, r)
    BY <1>0, <1>4 DEF Passes, KeepsRequest, Alone
  <2>2. ASSUME Op(r).kind = "restore"
        PROVE  Unique(r)
    <3> DEFINE original == mem[r].seen["original"]
    <3>1. /\ Sense(r) = original /\ original # Absent
          /\ Alike(mem[r].fresh["rest/portforward"], original) = {}
      BY <1>4, <1>s, <2>1, <2>2 DEF Passes, PfFamily, PfRuntimeSafe, WouldDuplicate
    <3>2. Alike(ctl.forwards, original) = {}
      BY <2>1, <2>2, <3>1, AgreeAlike DEF Surveyed
    <3>3. ASSUME NEW was, NEW derived, Traced(was, derived, ctl.forwards),
                 Related(was, Op(r).id, original) = {}, NEW i \in PfIds,
                 derived[i] = original
          PROVE  FALSE
      <4>1. PICK j \in PfIds : was[j] = original
        BY <3>1, <3>2, <3>3 DEF Traced
      <4>2. j \in Related(was, Op(r).id, original)
        BY <3>1, <4>1 DEF Related, Existing
      <4>3. QED
        BY <3>3, <4>2
    <3>4. OnlyOwn(r, ctl.policies) /\ OnlyOwn(r, ctl.status)
      BY <2>1, <2>2, <3>1, <3>3 DEF Surveyed, OnlyOwn, NothingLeftBehind
    <3>5. QED
      BY <2>1, <3>1, <3>2, <3>4 DEF Unique
  <2>3. Unique(r)
    BY <2>2 DEF Unique
  <2>4. QED
    BY <1>b, <1>c, <2>1, <2>3 DEF Alone
<1>5. CASE RecordsAttempt(r)
  BY <1>5, <1>b, <1>c, <1>p DEF RecordsAttempt, Alone
<1>6. CASE Sends(r)
  <2>1. /\ pc[r] = "sending" /\ pc'[r] = "waiting" /\ wire[r] = "idle" /\ wire'[r] = "sent"
        /\ KeepsReads(r) /\ body'[r] = PfRequest(Op(r), mem[r].seen, mem[r].fresh)
    BY <1>6 DEF Sends, PfFamily
  <2>2. Standing(5, r)' /\ Unique(r)' /\ Op(r)' = Op(r)
    BY <1>x, <1>p, <2>1 DEF KeepsReads, Op, Sense, NothingLeftBehind, Standing, Unique, OnlyOwn
  <2>3. Op(r).kind = "restore" => Alike(ctl.forwards, body'[r]) = {}
    BY <1>0, <1>s, <2>1 DEF Alone, Unique, PfRequest
  <2>4. QED
    BY <1>x, <2>1, <2>2, <2>3 DEF Alone
<1>7. CASE Hears(r)
  <2>1. /\ pc[r] = "waiting" /\ pc'[r] = "verifying" /\ mem'[r].got = 0
        /\ KeepsReads(r) /\ KeepsRequest(r)
    BY <1>7 DEF Hears
  <2>2. DeletionSeen(mem[r].got, r)' /\ RestorationSeen(mem[r].got, r)'
    BY <2>1 DEF DeletionSeen, RestorationSeen
  <2>3. QED
    BY <1>b, <1>c, <1>p, <2>1, <2>2 DEF Alone
<1>8. CASE Verifies(r)
  <2>0. PICK n \in Nat : n = mem[r].got
    BY <1>8 DEF Verifies
  <2> DEFINE d == VerifyReads(Op(r))[n + 1]
             view == View(Op(r), d, ctl, mem[r].found)
  <2>1. /\ pc[r] = "verifying" /\ pc'[r] = "verifying"
        /\ n < Len(VerifyReads(Op(r))) /\ d \in Datasets
        /\ DOMAIN mem[r].found = Datasets
        /\ mem'[r].found = [mem[r].found EXCEPT ![d] = view]
        /\ mem'[r].got = n + 1 /\ KeepsReads(r) /\ KeepsRequest(r)
    BY <1>8, <2>0 DEF Verifies
  <2>2. /\ VerifyReads(Op(r)) = <<"rest/portforward", "firewall/policies", "stat/portforward">>
        /\ {"rest/portforward", "firewall/policies", "stat/portforward"} \subseteq Datasets
    BY <1>0 DEF PfFamily, PfVerifyReads, PfDatasets
  <2>3. n \in {0, 1, 2}
    BY <2>1, <2>2
  <2>4. /\ mem'[r].found[d] = view
        /\ \A e \in Datasets \ {d} : mem'[r].found[e] = mem[r].found[e]
    BY <2>1
  <2>5. /\ Standing(5, r) /\ Unique(r) /\ DeletionSeen(n, r) /\ RestorationSeen(n, r)
        /\ Op(r)' = Op(r) /\ Sense(r)' = Sense(r) /\ wire'[r] = wire[r]
        /\ NothingLeftBehind(r)' = NothingLeftBehind(r)
    BY <1>b, <1>c, <1>p, <2>0, <2>1
  <2>6. ASSUME NEW derived, OnlyOwn(r, derived), NothingLeftBehind(r), InForce(r, derived)
        PROVE  derived[r] # Absent
    BY <2>6 DEF OnlyOwn, InForce, Related, Existing
  <2>7. DeletionSeen(n + 1, r)' /\ RestorationSeen(n + 1, r)'
    <3>1. CASE n = 0
      <4>1. d = "rest/portforward" /\ view = ctl.forwards
        BY <2>2, <3>1 DEF PfFamily, PfView
      <4> HIDE DEF view
      <4>2. mem'[r].found["rest/portforward"] = ctl.forwards
        BY <2>4, <4>1
      <4>3. DeletionSeen(1, r)'
        BY <1>x, <2>5, <4>2 DEF DeletionSeen, Gone, Standing
      <4>4. RestorationSeen(1, r)'
        BY <1>x, <2>5, <4>2 DEF RestorationSeen, Unique
      <4>5. QED
        BY <3>1, <4>3, <4>4
    <3>2. CASE n = 1
      <4>1. d = "firewall/policies" /\ view = ctl.policies
        BY <2>2, <3>2 DEF PfFamily, PfView
      <4> HIDE DEF view
      <4>2. /\ mem'[r].found["rest/portforward"] = mem[r].found["rest/portforward"]
            /\ mem'[r].found["firewall/policies"] = ctl.policies
        BY <2>2, <2>4, <4>1
      <4>3. DeletionSeen(2, r)'
        BY <1>x, <2>5, <3>2, <4>2 DEF DeletionSeen, Gone, Cleared
      <4>4. RestorationSeen(2, r)'
        BY <1>x, <2>5, <2>6, <3>2, <4>2 DEF RestorationSeen, Unique, InForce
      <4>5. QED
        BY <3>2, <4>3, <4>4
    <3>3. CASE n = 2
      <4>1. d = "stat/portforward" /\ view = ctl.status
        BY <2>2, <3>3 DEF PfFamily, PfView
      <4> HIDE DEF view
      <4>2. /\ mem'[r].found["rest/portforward"] = mem[r].found["rest/portforward"]
            /\ mem'[r].found["firewall/policies"] = mem[r].found["firewall/policies"]
            /\ mem'[r].found["stat/portforward"] = ctl.status
        BY <2>2, <2>4, <4>1
      <4>3. DeletionSeen(3, r)'
        BY <1>x, <2>5, <3>3, <4>2 DEF DeletionSeen, Gone, Cleared
      <4>4. RestorationSeen(3, r)'
        BY <1>x, <2>5, <2>6, <3>3, <4>2 DEF RestorationSeen, Unique, InForce
      <4>5. QED
        BY <3>3, <4>3, <4>4
    <3>4. QED
      BY <2>3, <3>1, <3>2, <3>3
  <2>8. QED
    <3>1. DeletionSeen(mem[r].got, r)' /\ RestorationSeen(mem[r].got, r)'
      BY <2>0, <2>1, <2>7
    <3>2. QED
      BY <1>b, <1>c, <1>p, <2>1, <3>1 DEF Alone
<1>9. CASE Concludes(r)
  <2>1. /\ pc[r] = "verifying" /\ pc'[r] \in {"verifying", "completing"}
        /\ mem'[r].got = 0 /\ KeepsReads(r) /\ KeepsRequest(r)
    BY <1>9 DEF Concludes
  <2>2. DeletionSeen(mem[r].got, r)' /\ RestorationSeen(mem[r].got, r)'
    BY <2>1 DEF DeletionSeen, RestorationSeen
  <2>3. /\ DeletionSeen(mem[r].got, r) /\ RestorationSeen(mem[r].got, r)
        /\ Standing(5, r)' /\ Unique(r)'
        /\ Op(r)' = Op(r) /\ Sense(r)' = Sense(r) /\ wire'[r] = wire[r]
        /\ NothingLeftBehind(r)' = NothingLeftBehind(r)
    BY <1>b, <1>c, <1>p, <2>1
  <2>4. ASSUME mem'[r].verified
        PROVE  Outcome(r)
    <3>0. VerifyReads(Op(r)) = <<"rest/portforward", "firewall/policies", "stat/portforward">>
      BY <1>0 DEF PfFamily, PfVerifyReads
    <3>1. /\ mem[r].got = 3
          /\ PfVerified(Op(r), mem[r].seen, mem[r].fresh, mem[r].found, AnsweredId(r))
      <4>1. mem[r].got = 3
        BY <1>9, <2>4, <3>0 DEF Concludes
      <4>2. Verified(Op(r), mem[r].seen, mem[r].fresh, mem[r].found, AnsweredId(r))
        BY <1>9, <2>4 DEF Concludes
      <4>3. QED
        BY <4>1, <4>2 DEF PfFamily
    <3>2. CASE Op(r).kind = "delete"
      BY <2>3, <3>1, <3>2
      DEF PfVerified, DeletionVerified, DeletionSeen, Gone, Cleared, Sense, Outcome
    <3>3. CASE Op(r).kind = "restore"
      <4> DEFINE found == mem[r].found
      <4>1. PICK id \in Alike(found["rest/portforward"], Sense(r)) :
               /\ Alike(found["rest/portforward"], Sense(r)) = {id}
               /\ Related(found["firewall/policies"], id, Sense(r)) # {}
               /\ Related(found["stat/portforward"], id, Sense(r)) # {}
        BY <3>1, <3>3 DEF PfVerified, RestorationVerified, Sense
      <4>2. wire[r] = "applied" /\ id = r
        BY <2>3, <3>1, <3>3, <4>1 DEF RestorationSeen
      <4>3. QED
        BY <2>3, <3>1, <3>3, <4>1, <4>2 DEF RestorationSeen, InForce, Outcome
    <3>4. QED
      BY <1>0, <3>2, <3>3
  <2>5. QED
    BY <1>b, <1>c, <2>1, <2>2, <2>3, <2>4 DEF Alone
<1>10. QED
  BY <1>0, <1>1, <1>2, <1>3, <1>4, <1>5, <1>6, <1>7, <1>8, <1>9, OwnStep DEF LInv

\* A forward added where there was none like it is the only one of its meaning.
LEMMA OneMore ==
  ASSUME NEW table \in [PfIds -> Rules \cup {Absent}], NEW r \in PfIds,
         NEW s \in Senses, Alike(table, s) = {}
  PROVE  Alike([table EXCEPT ![r] = [sense |-> s, stamp |-> 0]], s) = {r}
<1> DEFINE new == [table EXCEPT ![r] = [sense |-> s, stamp |-> 0]]
<1>1. [sense |-> s, stamp |-> 0] # Absent
  BY AbsentAssumption
<1>2. /\ \A i \in PfIds \ {r} : new[i] = table[i]
      /\ new[r] = [sense |-> s, stamp |-> 0]
  OBVIOUS
<1> HIDE DEF new
<1>3. Alike(new, s) = {r}
  BY <1>1, <1>2 DEF Alike, Existing
<1>4. QED
  BY <1>3 DEF new

\* Its own request takes effect.
LEMMA AloneLand ==
  ASSUME PfFamily, LInv, NEW r \in Runs, PfCourse(r), "freshness" \notin touched[r],
         Land(r)
  PROVE  Alone(r)'
<1> USE DEF Reread, Compared, Ready, Sent, Ended
<1>0. /\ Op(r) \in Operations /\ TypeOK /\ Phase(r) /\ Checks(r)
      /\ Alone(r) /\ Loaded(r) /\ mem[r].got \in Nat
      /\ Op(r).kind \in {"delete", "restore"} /\ r \in PfIds
  BY DEF LInv, IInv, TypeOK, Op, PfCourse, PfFamily, PfIds
<1>1. /\ wire[r] = "accepted" /\ wire'[r] = "applied"
      /\ UNCHANGED <<pc, cmd, mem, body>>
      /\ ctl' \in PfLanding(r, Op(r), body[r], ctl)
  BY <1>0, SMTT(30) DEF Land, TypeOK, process, PfFamily
<1>2. pc[r] \in Sent \cup Ended
  BY <1>0, <1>1 DEF Phase, Recorded, Unrecorded, TypeOK, Working
<1>3. /\ Op(r)' = Op(r) /\ Sense(r)' = Sense(r)
      /\ NothingLeftBehind(r)' = NothingLeftBehind(r)
  BY <1>1 DEF Op, Sense, NothingLeftBehind
<1>4. Standing(5, r) => Standing(5, r)'
  BY <1>1, <1>3 DEF Standing
<1>5. ASSUME pc[r] \in Sent
      PROVE  Unique(r)'
  <2>1. CASE Op(r).kind = "restore"
    <3>1. body[r] = Sense(r) /\ Sense(r) \in Senses
      BY <1>0, <1>5, <2>1 DEF Checks, PfFamily, PfRequest, Sense, Loaded
    <3>2. /\ ctl.forwards \in [PfIds -> Rules \cup {Absent}]
          /\ DOMAIN ctl = {"forwards", "policies", "status", "file"}
      BY <1>0, PfTables
    <3>3. ctl' = [ctl EXCEPT !.forwards[r] = [sense |-> Sense(r), stamp |-> 0]]
      BY <1>1, <2>1, <3>1 DEF PfLanding
    <3>4. /\ ctl'.policies = ctl.policies /\ ctl'.status = ctl.status
          /\ ctl'.forwards = [ctl.forwards EXCEPT ![r] = [sense |-> Sense(r), stamp |-> 0]]
      BY <3>2, <3>3
    <3>5. Unique(r)
      BY <1>0, <1>5 DEF Alone
    <3>6. Alike(ctl'.forwards, Sense(r)) = {r}
      BY <1>0, <1>1, <2>1, <3>1, <3>2, <3>4, <3>5, OneMore DEF Unique
    <3>7. /\ OnlyOwn(r, ctl.policies) => OnlyOwn(r, ctl.policies)'
          /\ OnlyOwn(r, ctl.status) => OnlyOwn(r, ctl.status)'
      BY <1>1, <1>3, <3>4 DEF OnlyOwn
    <3>8. QED
      BY <1>1, <1>3, <2>1, <3>5, <3>6, <3>7 DEF Unique
  <2>2. CASE Op(r).kind # "restore"
    BY <1>3, <2>2 DEF Unique
  <2>3. QED
    BY <2>1, <2>2
<1>6. /\ DeletionSeen(mem[r].got, r) => DeletionSeen(mem[r].got, r)'
      /\ RestorationSeen(mem[r].got, r) => RestorationSeen(mem[r].got, r)'
  BY <1>0, <1>1, <1>3 DEF DeletionSeen, RestorationSeen, Gone
<1>7. ~Outcome(r)
  BY <1>1 DEF Outcome
<1>8. QED
  BY <1>0, <1>1, <1>2, <1>4, <1>5, <1>6, <1>7 DEF Alone, InFlight

\* A run that had begun to refetch is disturbed by what others do; one that
\* had not has nothing to lose.
LEMMA PfCourseDisturbed ==
  ASSUME TypeOK, NEW s \in Runs, PfCourse(s), Same(s),
         NEW others \in SUBSET Runs, s \in others, Disturb(others)
  PROVE  PfCourse(s)'
<1>1. touched'[s] = touched[s]
         \cup (IF ReadBegun(s) THEN {"read_state"} ELSE {})
         \cup (IF RefetchBegun(s) THEN {"freshness"} ELSE {})
  BY DEF Disturb
<1>2. Loaded(s)'
  BY DEF PfCourse, Loaded, Same, Op
<1>3. ASSUME "freshness" \notin touched'[s]
      PROVE  Alone(s)'
  <2>1. ~RefetchBegun(s) /\ Alone(s)
    BY <1>1, <1>3 DEF PfCourse
  <2>2. pc[s] \notin Reread
    BY <2>1 DEF Alone, Standing, RefetchBegun, Reread, Compared, Ready, Sent, Working
  <2>3. pc[s] = "refetching" => mem[s].got = 0
    <3>1. mem[s].got \in Nat
      BY DEF TypeOK
    <3>2. QED
      BY <2>1, <3>1 DEF Alone, Standing, RefetchBegun, Working
  <2>4. ~InFlight(s)'
    BY <2>1 DEF RefetchBegun, InFlight, Same
  <2>5. pc[s] = "refetching" => Standing(mem[s].got, s)' /\ Surveyed(mem[s].got, s)'
    BY <2>3 DEF Same, Standing, Surveyed
  <2>6. QED
    BY <2>2, <2>4, <2>5 DEF Same, Alone, Reread, Compared, Sent
<1>4. QED
  BY <1>2, <1>3 DEF PfCourse

LEMMA PfCourseTick ==
  ASSUME PfFamily, LInv, Tick, NEW s \in Runs, PfCourse(s)
  PROVE  PfCourse(s)'
<1> USE DEF Reread, Compared, Ready, Sent, Ended
<1>0. /\ Op(s) \in Operations /\ TypeOK /\ Op(s).id \in PfIds /\ s \in PfIds
      /\ UNCHANGED <<pc, cmd, mem, wire, body, touched>>
  BY DEF LInv, IInv, TypeOK, Op, PfFamily, PfIds, Tick, process, network
<1>1. /\ Op(s)' = Op(s) /\ Sense(s)' = Sense(s)
      /\ NothingLeftBehind(s)' = NothingLeftBehind(s)
  BY <1>0 DEF Op, Sense, NothingLeftBehind
<1>2. Loaded(s) /\ Loaded(s)'
  BY <1>0, <1>1 DEF PfCourse, Loaded
<1>3. Op(s).kind = "restore" /\ pc[s] \in Reread => Sense(s) \in Senses
  BY <1>2 DEF Loaded, Sense
<1>4. /\ Agree(ctl.forwards, ctl'.forwards)
      /\ CatchesUp(ctl'.policies, ctl.policies, ctl.forwards)
      /\ CatchesUp(ctl'.status, ctl.status, ctl.forwards)
  BY <1>0, TickDerives
<1>5. \A t : Alike(ctl'.forwards, t) = Alike(ctl.forwards, t)
  BY <1>4, AgreeAlike
<1>6. ASSUME NEW n \in Nat
      PROVE  /\ Standing(n, s) => Standing(n, s)'
             /\ Surveyed(n, s) => Surveyed(n, s)'
  <2>1. Standing(n, s) => Standing(n, s)'
    BY <1>0, <1>1, <1>4 DEF Standing, Agree
  <2>2. ASSUME NEW a, Agree(a, ctl.forwards)
        PROVE  Agree(a, ctl'.forwards)
    BY <1>4, <2>2 DEF Agree
  <2>3. ASSUME NEW was, NEW new, NEW old, CatchesUp(new, old, ctl.forwards),
               Traced(was, old, ctl.forwards)
        PROVE  Traced(was, new, ctl'.forwards)
    <3>1. Traced(was, new, ctl.forwards)
      BY <2>3, Derivation
    <3>2. QED
      BY <1>5, <3>1 DEF Traced
  <2>4. Surveyed(n, s) => Surveyed(n, s)'
    BY <1>0, <1>1, <1>4, <2>2, <2>3 DEF Surveyed
  <2>5. QED
    BY <2>1, <2>4
<1>7. ASSUME pc[s] \in Compared, Unique(s)
      PROVE  Unique(s)'
  <2>1. CASE Op(s).kind = "restore"
    <3>1. ASSUME NEW new, NEW old, CatchesUp(new, old, ctl.forwards), OnlyOwn(s, old)
          PROVE  NothingLeftBehind(s) =>
                   \A i \in PfIds : new[i] = Sense(s) => wire[s] = "applied" /\ i = s
      <4>1. ASSUME NEW i \in PfIds, new[i] = Sense(s)
            PROVE  old[i] = Sense(s) \/ i \in Alike(ctl.forwards, Sense(s))
        BY <1>3, <1>7, <2>1, <3>1, <4>1, Derivation
      <4>2. QED
        BY <1>7, <2>1, <3>1, <4>1 DEF Unique, OnlyOwn
    <3>2. OnlyOwn(s, ctl.policies)' /\ OnlyOwn(s, ctl.status)'
      BY <1>0, <1>1, <1>4, <1>7, <2>1, <3>1 DEF Unique, OnlyOwn
    <3>3. QED
      BY <1>0, <1>1, <1>5, <1>7, <2>1, <3>2 DEF Unique
  <2>2. CASE Op(s).kind # "restore"
    BY <1>1, <2>2 DEF Unique
  <2>3. QED
    BY <2>1, <2>2
<1>8. Gone(s, ctl.forwards) => Gone(s, ctl'.forwards)
  BY <1>0, <1>4, <1>5 DEF Gone, Agree
<1>9. ASSUME NEW new, NEW old, CatchesUp(new, old, ctl.forwards),
             Gone(s, ctl.forwards), Cleared(s, old)
      PROVE  Cleared(s, new)
  BY <1>0, <1>9, Derivation DEF Gone, Cleared
<1>10. ASSUME pc[s] \in Compared, Unique(s), Op(s).kind = "restore", wire[s] = "applied"
       PROVE  /\ ctl.policies[s] # Absent => ctl'.policies[s] # Absent
              /\ ctl.status[s] # Absent => ctl'.status[s] # Absent
  <2>1. s \in Alike(ctl.forwards, Sense(s)) /\ Sense(s) \in Senses
    BY <1>3, <1>10 DEF Unique
  <2>2. QED
    BY <1>0, <1>4, <2>1, Derivation
<1>11. ASSUME pc[s] = "verifying", Alone(s)
       PROVE  DeletionSeen(mem[s].got, s)' /\ RestorationSeen(mem[s].got, s)'
  <2>1. /\ DeletionSeen(mem[s].got, s) /\ RestorationSeen(mem[s].got, s) /\ Unique(s)
        /\ mem[s].got \in Nat
    BY <1>0, <1>11 DEF Alone, TypeOK
  <2>2. DeletionSeen(mem[s].got, s)'
    <3>1. SUFFICES ASSUME Op(s).kind = "delete", mem[s].got >= 1,
                          Gone(s, mem[s].found["rest/portforward"])
                   PROVE  DeletionSeen(mem[s].got, s)'
      BY <1>0, <1>1, <2>1 DEF DeletionSeen, Gone
    <3>2. wire[s] = "applied" /\ Gone(s, ctl.forwards)
      BY <2>1, <3>1 DEF DeletionSeen
    <3>3. /\ Cleared(s, ctl.policies) => Cleared(s, ctl'.policies)
          /\ Cleared(s, ctl.status) => Cleared(s, ctl'.status)
      BY <1>4, <1>9, <3>2
    <3>4. QED
      BY <1>0, <1>1, <1>8, <2>1, <3>1, <3>2, <3>3 DEF DeletionSeen, Gone, Cleared
  <2>3. RestorationSeen(mem[s].got, s)'
    BY <1>0, <1>1, <1>10, <1>11, <2>1 DEF RestorationSeen, InForce
  <2>4. QED
    BY <2>2, <2>3
<1>12. ASSUME pc[s] = "completing", Alone(s), mem[s].verified
       PROVE  Outcome(s)'
  <2>1. Outcome(s) /\ Unique(s)
    BY <1>12 DEF Alone
  <2>2. Op(s).kind = "delete" =>
          (Gone(s, ctl.forwards) /\ Cleared(s, ctl.policies) /\ Cleared(s, ctl.status))'
    <3>1. SUFFICES ASSUME Op(s).kind = "delete"
                   PROVE  (/\ Gone(s, ctl.forwards) /\ Cleared(s, ctl.policies)
                           /\ Cleared(s, ctl.status))'
      BY <1>1
    <3>2. Gone(s, ctl'.forwards) /\ Cleared(s, ctl'.policies) /\ Cleared(s, ctl'.status)
      BY <1>4, <1>8, <1>9, <2>1, <3>1 DEF Outcome
    <3>3. QED
      BY <1>1, <3>2 DEF Gone, Cleared
  <2>3. QED
    BY <1>0, <1>1, <1>10, <1>12, <2>1, <2>2 DEF Outcome
<1>13. Alone(s) => Alone(s)'
  <2>1. ASSUME Alone(s), pc[s] = "refetching"
        PROVE  Standing(mem[s].got, s)' /\ Surveyed(mem[s].got, s)'
    <3>1. mem[s].got \in Nat
      BY <1>0 DEF TypeOK
    <3>2. QED
      BY <1>0, <1>6, <2>1, <3>1 DEF Alone, Standing, Surveyed
  <2>2. InFlight(s)' = InFlight(s)
    BY <1>0 DEF InFlight
  <2>3. QED
    BY <1>0, <1>1, <1>5, <1>6, <1>7, <1>11, <1>12, <2>1, <2>2 DEF Alone
<1>14. QED
  BY <1>0, <1>2, <1>13 DEF PfCourse

LEMMA PfCourseOutside ==
  ASSUME PfFamily, LInv, \A s \in Runs : PfCourse(s),
         \/ \E r \in Runs : Accept(r) \/ Reject(r) \/ Land(r)
         \/ Edit \/ Tick
  PROVE  \A s \in Runs : PfCourse(s)'
<1>0. TypeOK /\ UNCHANGED <<process, disk>>
  BY DEF LInv, IInv, Accept, Reject, Land, Edit, Tick
<1>1. ASSUME NEW r \in Runs, Accept(r) \/ Reject(r), NEW s \in Runs
      PROVE  PfCourse(s)'
  <2>1. /\ wire'[s] \in {"sent", "accepted"} => wire[s] \in {"sent", "accepted"}
        /\ wire'[s] = "applied" <=> wire[s] = "applied"
        /\ wire'[s] = "idle" <=> wire[s] = "idle"
        /\ UNCHANGED <<process, body, controller>>
    BY <1>0, <1>1, SMTT(30) DEF Accept, Reject, TypeOK
  <2> USE DEF process, controller, Op, Sense, NothingLeftBehind
  <2>2. Loaded(s)'
    BY <2>1 DEF PfCourse, Loaded
  <2>3. /\ Standing(5, s) => Standing(5, s)'
        /\ Surveyed(5, s) => Surveyed(5, s)'
        /\ Standing(mem[s].got, s) => Standing(mem[s].got, s)'
        /\ Surveyed(mem[s].got, s) => Surveyed(mem[s].got, s)'
    BY <2>1 DEF Standing, Surveyed
  <2>4. Unique(s) => Unique(s)'
    BY <2>1 DEF Unique, OnlyOwn
  <2>5. /\ DeletionSeen(mem[s].got, s) => DeletionSeen(mem[s].got, s)'
        /\ RestorationSeen(mem[s].got, s) => RestorationSeen(mem[s].got, s)'
        /\ Outcome(s) => Outcome(s)'
    BY <2>1 DEF DeletionSeen, RestorationSeen, Outcome, Gone, Cleared, InForce
  <2>6. QED
    BY <2>1, <2>2, <2>3, <2>4, <2>5 DEF PfCourse, Alone, InFlight
<1>2. ASSUME NEW r \in Runs, Land(r), NEW s \in Runs
      PROVE  PfCourse(s)'
  <2>1. CASE s = r
    <3>1. touched'[r] = touched[r]
      BY <1>0, <1>2 DEF Land, Disturb, TypeOK
    <3>2. UNCHANGED <<process, body>> /\ wire[r] # "idle"
      BY <1>2 DEF Land
    <3>3. Loaded(r)'
      BY <3>2 DEF process, PfCourse, Loaded, Op
    <3>4. QED
      BY <1>2, <2>1, <3>1, <3>3, AloneLand DEF PfCourse
  <2>2. CASE s # r
    <3>1. Same(s)
      BY <1>0, <1>2, <2>2, SMTT(30) DEF Same, Land, TypeOK, process, disk
    <3>2. QED
      BY <1>0, <1>2, <2>2, <3>1, PfCourseDisturbed DEF Land
  <2>3. QED
    BY <2>1, <2>2
<1>3. ASSUME Edit, NEW s \in Runs
      PROVE  PfCourse(s)'
  <2>1. Same(s)
    BY <1>0, <1>3 DEF Same, Edit, process, disk, network
  <2>2. CASE Disturb(Runs)
    BY <1>0, <2>1, <2>2, PfCourseDisturbed
  <2>3. CASE UNCHANGED <<ctl, touched>>
    <3>1. UNCHANGED <<pc, cmd, mem, wire, body, ctl, touched>>
      BY <1>3, <2>3 DEF Edit, process, network
    <3> USE DEF Op, Sense, NothingLeftBehind
    <3>2. QED
      BY <3>1
      DEF PfCourse, Loaded, Alone, InFlight, Standing, Surveyed, Unique, OnlyOwn,
          DeletionSeen, RestorationSeen, Outcome, Gone, Cleared, InForce
  <2>4. QED
    BY <1>3, <2>2, <2>3 DEF Edit
<1>4. CASE Tick
  BY <1>4, PfCourseTick
<1>5. QED
  BY <1>1, <1>2, <1>3, <1>4

PfInv == LInv /\ \A r \in Runs : PfCourse(r)

LEMMA NextPfCourse ==
  ASSUME PfFamily, PfInv, [Next]_vars
  PROVE  PfInv'
<1>1. LInv'
  BY NextChecks DEF PfInv
<1>2. ASSUME NEW r \in Runs, Step(r) \/ Receive(r) \/ Crash(r), NEW s \in Runs
      PROVE  PfCourse(s)'
  <2>1. UNCHANGED controller /\ (s # r => Same(s))
    BY <1>2, OthersKeep DEF PfInv, LInv, IInv
  <2>2. CASE s = r
    <3>1. LInv /\ IInv /\ Memory(r) /\ PfCourse(r) /\ Loaded(r)
      BY DEF PfInv, LInv, PfCourse
    <3>2. Loaded(r)'
      BY <1>2, <3>1, LoadedStep
    <3>3. "freshness" \notin touched[r] => Alone(r)'
      BY <1>2, <3>1, AloneStep
    <3>4. QED
      BY <2>1, <2>2, <3>2, <3>3 DEF controller, PfCourse
  <2>3. CASE s # r
    BY <2>1, <2>3, PfCourseKept DEF PfInv
  <2>4. QED
    BY <2>2, <2>3
<1>3. ASSUME UNCHANGED vars, NEW s \in Runs
      PROVE  PfCourse(s)'
  BY <1>3, PfCourseKept DEF PfInv, Same, vars, process, disk, network, controller
<1>4. QED
  BY <1>1, <1>2, <1>3, PfCourseOutside DEF Next, Environment, PfInv

LEMMA PfInvariant ==
  ASSUME PfFamily
  PROVE  Spec => []PfInv
<1>1. Init => PfInv
  BY InitChecks, InitPfCourse DEF PfInv
<1>2. PfInv /\ [Next]_vars => PfInv'
  BY NextPfCourse
<1>3. QED
  BY <1>1, <1>2, PTL DEF Spec

\* A restore that nobody disturbs adds the one forward of its meaning.
THEOREM NoDuplicate ==
  ASSUME PfFamily
  PROVE  Spec => RestoreAddsNoDuplicate
<1>1. ASSUME PfInv, [Next]_vars
      PROVE  [\A r \in Runs :
                (/\ wire[r] = "accepted" /\ wire'[r] = "applied"
                 /\ Op(r).kind = "restore" /\ "freshness" \notin touched[r]) =>
                  Alike(ctl'.forwards, body[r]) = {r}]_vars
  <2>1. ASSUME Next, NEW r \in Runs, wire[r] = "accepted", wire'[r] = "applied",
               Op(r).kind = "restore", "freshness" \notin touched[r]
        PROVE  Alike(ctl'.forwards, body[r]) = {r}
    <3>1. Land(r)
      BY <1>1, <2>1, TakesEffect DEF PfInv, LInv
    <3>2. Alike(ctl.forwards, body[r]) = {} /\ body[r] \in Senses
      BY <1>1, <2>1 DEF PfInv, PfCourse, Alone, Loaded, InFlight
    <3>3. /\ ctl.forwards \in [PfIds -> Rules \cup {Absent}] /\ r \in PfIds
          /\ DOMAIN ctl = {"forwards", "policies", "status", "file"}
      BY <1>1, PfTables DEF PfInv, LInv, IInv, PfFamily, PfIds
    <3>4. ctl' = [ctl EXCEPT !.forwards[r] = [sense |-> body[r], stamp |-> 0]]
      BY <2>1, <3>1 DEF Land, PfFamily, PfLanding
    <3>5. ctl'.forwards = [ctl.forwards EXCEPT ![r] = [sense |-> body[r], stamp |-> 0]]
      BY <3>3, <3>4
    <3>6. QED
      BY <3>2, <3>3, <3>5, OneMore
  <2>2. QED
    BY <1>1, <2>1
<1>2. QED
  BY <1>1, PfInvariant, PTL DEF Spec, RestoreAddsNoDuplicate

\* What a run that was alone has verified is what there is.
LEMMA AppliedAloneIsTrue ==
  ASSUME PfFamily, PfInv, Next, NEW r \in Runs, AppliedAlone(r)
  PROVE  Outcome(r) /\ Unique(r)
<1>1. pc[r] = "completing" /\ mem[r].verified
  BY AppliedIsVerified DEF AppliedAlone, PfInv, LInv
<1>2. QED
  BY <1>1 DEF AppliedAlone, PfInv, PfCourse, Alone, Compared, Sent

\* APPLIED, said of a delete by a run that was alone, is true, although the
\* controller takes back what it has derived in its own time.
THEOREM TrueDeletions ==
  ASSUME PfFamily
  PROVE  Spec => DeletedMeansGone
<1>1. ASSUME PfInv, [Next]_vars
      PROVE  [\A r \in Runs : (AppliedAlone(r) /\ Op(r).kind = "delete") =>
                LET sense == mem[r].seen["rest/portforward/id"].sense
                IN  /\ wire[r] = "applied"
                    /\ ctl.forwards[Op(r).id] = Absent /\ Alike(ctl.forwards, sense) = {}
                    /\ Related(ctl.policies, Op(r).id, sense) = {}
                    /\ Related(ctl.status, Op(r).id, sense) = {}]_vars
  <2>1. ASSUME Next, NEW r \in Runs, AppliedAlone(r), Op(r).kind = "delete"
        PROVE  LET sense == mem[r].seen["rest/portforward/id"].sense
               IN  /\ wire[r] = "applied"
                   /\ ctl.forwards[Op(r).id] = Absent
                   /\ Alike(ctl.forwards, sense) = {}
                   /\ Related(ctl.policies, Op(r).id, sense) = {}
                   /\ Related(ctl.status, Op(r).id, sense) = {}
    <3>1. Outcome(r)
      BY <1>1, <2>1, AppliedAloneIsTrue
    <3>2. QED
      BY <2>1, <3>1 DEF Outcome, Gone, Cleared, Sense
  <2>2. QED
    BY <1>1, <2>1
<1>2. QED
  BY <1>1, PfInvariant, PTL DEF Spec, DeletedMeansGone

\* APPLIED, said of a restore by a run that was alone and whose refetch found
\* nothing left of the old forward, is true.
THEOREM TrueRestorations ==
  ASSUME PfFamily
  PROVE  Spec => RestoredMeansOnce
<1>1. ASSUME PfInv, [Next]_vars
      PROVE  [\A r \in Runs :
                (AppliedAlone(r) /\ Op(r).kind = "restore" /\ NothingLeftBehind(r)) =>
                  LET sense == mem[r].seen["original"]
                  IN  /\ wire[r] = "applied"
                      /\ Alike(ctl.forwards, sense) = {r}
                      /\ Related(ctl.policies, r, sense) # {}
                      /\ Related(ctl.status, r, sense) # {}]_vars
  <2>1. ASSUME Next, NEW r \in Runs, AppliedAlone(r), Op(r).kind = "restore",
               NothingLeftBehind(r)
        PROVE  /\ wire[r] = "applied"
               /\ Alike(ctl.forwards, Sense(r)) = {r}
               /\ Related(ctl.policies, r, Sense(r)) # {}
               /\ Related(ctl.status, r, Sense(r)) # {}
    <3>1. Outcome(r) /\ Unique(r) /\ r \in PfIds
      BY <1>1, <2>1, AppliedAloneIsTrue DEF PfFamily, PfIds
    <3>2. QED
      BY <2>1, <3>1 DEF Outcome, Unique, Related, Existing
  <2>2. QED
    BY <1>1, <2>1 DEF Sense
<1>2. QED
  BY <1>1, PfInvariant, PTL DEF Spec, RestoredMeansOnce
=============================================================================
