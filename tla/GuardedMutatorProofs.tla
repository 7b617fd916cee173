------------------------ MODULE GuardedMutatorProofs ------------------------
(***************************************************************************)
(* What the guarded engine guarantees for every number of runs, every      *)
(* family of operations and every bound: what the place of a run says of   *)
(* lock, records and requests; and, in the second half, how what it has    *)
(* read relates to its approval, to its snapshot and to the configuration. *)
(***************************************************************************)
EXTENDS GuardedMutator, TLAPS

\* The initial values of the records are of their types.
LEMMA InitialRecords ==
    /\ NoCommand.op \in Operations /\ NoCommand.plan \in BOOLEAN
    /\ NoCommand.enabled \in BOOLEAN /\ NoCommand.approval = NoToken
    /\ NoCommand.identity \in Identities
    /\ Blank.got \in Nat /\ Blank.tries \in Nat /\ Blank.answer = "none"
  BY CommandAssumption DEF NoCommand, Blank

LEMMA InitType == Init => TypeOK
  BY InitialRecords, StateAssumption, BoundAssumption, SMTT(30)
  DEF Init, TypeOK, Working, Ended, Results, Refusals, Verdicts

-----------------------------------------------------------------------------
(* Type correctness. *)

\* A process that ends leaves a well-typed memory behind.
LEMMA StepType ==
  ASSUME TypeOK, NEW r \in Runs, Step(r)
  PROVE  TypeOK'
<1> USE DEF TypeOK, Working, Ended, Results, Refusals, Verdicts,
            process, disk, network, controller, Op
<1>1. CASE Begin(r)
  BY <1>1, SMTT(30) DEF Begin, Goto, NoCommand
<1>2. CASE TakeLock(r)
  BY <1>2, InitialRecords, SMTT(30) DEF TakeLock, Goto, Exit
<1>3. CASE ReadNext(r)
<2>1. pc' \in [Runs -> {"idle"} \cup Working \cup Ended]
  BY <1>3, SMTT(30) DEF ReadNext, Goto
<2>2. DOMAIN mem' = Runs /\ \A s \in Runs \ {r} : mem'[s] = mem[s]
  BY <1>3, SMTT(30) DEF ReadNext
<2>3. /\ DOMAIN mem'[r] = DOMAIN mem[r]
      /\ mem'[r].got \in Nat
      /\ mem'[r].tries = mem[r].tries /\ mem'[r].answer = mem[r].answer
  BY <1>3, SMTT(30) DEF ReadNext, Blank
<2>4. UNCHANGED <<cmd, report, lock, disk, network, controller>>
  BY <1>3 DEF ReadNext
<2>5. QED
  BY <2>1, <2>2, <2>3, <2>4, SMTT(30)
<1>4. CASE ReadFails(r)
  BY <1>4, InitialRecords, SMTT(30) DEF ReadFails, Exit
<1>5. CASE Validate(r)
  BY <1>5, InitialRecords, SMTT(30) DEF Validate, Goto, Exit
<1>6. CASE SaveSnapshot(r)
  BY <1>6, InitialRecords, SMTT(30) DEF SaveSnapshot, Goto, Exit
<1>7. CASE Plan(r)
<2>1. CASE HasDiff(Op(r), mem[r].seen) /\ ~cmd[r].plan
  BY <1>7, <2>1, SMTT(30) DEF Plan, Goto, Exit
<2>2. CASE HasDiff(Op(r), mem[r].seen) /\ cmd[r].plan
  <3> DEFINE token == ApprovalToken(Op(r), cmd[r].identity, mem[r].seen)
  <3>1. /\ Exit(r, "done", "PLAN")
        /\ journal' = [journal EXCEPT ![r] = "PLANNED_NO_WRITE"]
        /\ shown' = shown \cup {token}
        /\ UNCHANGED <<snap, network, controller>>
    BY <1>7, <2>2 DEF Plan, Goto, Exit
  <3> HIDE DEF token
  <3>2. QED
    BY <3>1, InitialRecords, SMTT(30) DEF Exit
<2>3. CASE ~HasDiff(Op(r), mem[r].seen)
  BY <1>7, <2>3, InitialRecords, SMTT(30) DEF Plan, Exit
<2>4. QED
  BY <2>1, <2>2, <2>3
<1>8. CASE Authorize(r)
  BY <1>8, InitialRecords, SMTT(30) DEF Authorize, Proceed, Refuse, Goto, Exit
<1>9. CASE RecheckIdentity(r)
  BY <1>9, InitialRecords, SMTT(30)
  DEF RecheckIdentity, Proceed, Refuse, Goto, Exit
<1>10. CASE RefetchNext(r)
<2>1. pc' \in [Runs -> {"idle"} \cup Working \cup Ended]
  BY <1>10, SMTT(30) DEF RefetchNext, Goto
<2>2. DOMAIN mem' = Runs /\ \A s \in Runs \ {r} : mem'[s] = mem[s]
  BY <1>10, SMTT(30) DEF RefetchNext
<2>3. /\ DOMAIN mem'[r] = DOMAIN mem[r]
      /\ mem'[r].got \in Nat
      /\ mem'[r].tries = mem[r].tries /\ mem'[r].answer = mem[r].answer
  BY <1>10, SMTT(30) DEF RefetchNext, Blank
<2>4. UNCHANGED <<cmd, report, lock, disk, network, controller>>
  BY <1>10 DEF RefetchNext
<2>5. QED
  BY <2>1, <2>2, <2>3, <2>4, SMTT(30)
<1>11. CASE RefetchFails(r)
  BY <1>11, InitialRecords, SMTT(30) DEF RefetchFails, Refuse, Exit
<1>12. CASE CheckFresh(r)
  BY <1>12, InitialRecords, SMTT(30) DEF CheckFresh, Proceed, Refuse, Goto, Exit
<1>13. CASE RecordAttempt(r)
  BY <1>13, SMTT(30) DEF RecordAttempt, Goto
<1>14. CASE Send(r)
  BY <1>14, SMTT(30) DEF Send, Goto
<1>15. CASE VerifyNext(r)
  BY <1>15, SMTT(30) DEF VerifyNext
<1>16. CASE Judge(r)
  BY <1>16, SMTT(30) DEF Judge, Reconcile, Goto
<1>17. CASE VerifyFails(r)
  BY <1>17, SMTT(30) DEF VerifyFails, Reconcile, Goto
<1>18. CASE Complete(r)
  BY <1>18, InitialRecords, SMTT(30) DEF Complete, Verdict, Exit
<1>19. QED
  BY <1>1, <1>2, <1>3, <1>4, <1>5, <1>6, <1>7, <1>8, <1>9, <1>10, <1>11,
     <1>12, <1>13, <1>14, <1>15, <1>16, <1>17, <1>18 DEF Step

LEMMA OthersType ==
  ASSUME TypeOK, (\E r \in Runs : Receive(r)) \/ Environment
  PROVE  TypeOK'
<1> USE DEF TypeOK, Working, Ended, Results, Refusals, Verdicts,
            process, disk, network, controller
<1>1. ASSUME NEW r \in Runs, Receive(r)
      PROVE  TypeOK'
  BY <1>1, SMTT(30) DEF Receive, Answers, Goto
<1>2. ASSUME NEW r \in Runs, Crash(r)
      PROVE  TypeOK'
  BY <1>2, InitialRecords, SMTT(30) DEF Crash, Exit
<1>3. ASSUME NEW r \in Runs, Accept(r) \/ Reject(r)
      PROVE  TypeOK'
  BY <1>3, SMTT(30) DEF Accept, Reject
<1>4. ASSUME NEW r \in Runs, Land(r)
      PROVE  TypeOK'
  BY <1>4, SMTT(30) DEF Land, Disturb
<1>5. CASE Edit
  BY <1>5, BoundAssumption, SMTT(30) DEF Edit, Disturb
<1>6. CASE Tick
  BY <1>6, SMTT(30) DEF Tick
<1>7. QED
  BY <1>1, <1>2, <1>3, <1>4, <1>5, <1>6 DEF Environment

LEMMA StutterType == TypeOK /\ UNCHANGED vars => TypeOK'
  BY DEF TypeOK, vars, process, disk, network, controller

\* Every variable keeps its type, whatever the callbacks answer.
THEOREM TypeCorrect == Spec => []TypeOK
<1>1. TypeOK /\ [Next]_vars => TypeOK'
  BY StepType, OthersType, StutterType DEF Next
<1>2. QED
  BY InitType, <1>1, PTL DEF Spec

-----------------------------------------------------------------------------
(* The inductive invariant: what the place where a run is says of its       *)
(* journal record, of its request, of the lock and of its approval.         *)

Unrecorded == {"idle", "locking", "reading", "validating", "saving",
               "recording"}
Recorded == {"authorizing", "identifying", "refetching", "comparing",
             "attempting"}
Sent == {"waiting", "verifying", "completing"}
Approved == (Recorded \ {"authorizing"}) \cup {"sending"} \cup Sent

\* The journal runs ahead of the wire, at every place a run can be killed.
Phase(r) ==
    /\ pc[r] \in Unrecorded => journal[r] = "NO_RECORD" /\ wire[r] = "idle"
    /\ pc[r] \in Recorded =>
         journal[r] = "PLANNED_NO_WRITE" /\ wire[r] = "idle"
    /\ pc[r] = "sending" => journal[r] = "WRITE_ATTEMPTED" /\ wire[r] = "idle"
    /\ pc[r] \in Sent => journal[r] = "WRITE_ATTEMPTED" /\ wire[r] # "idle"
    /\ wire[r] # "idle" => journal[r] \in {"WRITE_ATTEMPTED"} \cup Verdicts

\* A 4xx in memory, and the verdict made of it, are the controller's.
Refused(r) ==
    \/ wire[r] = "rejected"
    \/ mem[r].answer # "rejected" /\ journal[r] # "NOT_APPLIED"

\* Past the gate the command line is an approved one.
Approval(r) ==
    (pc[r] \in Approved \/ wire[r] # "idle") =>
        /\ cmd[r].enabled
        /\ cmd[r].approval # NoToken
        /\ cmd[r].approval.controller_site = cmd[r].identity

IInv ==
    /\ TypeOK
    /\ OneMutationAtATime
    /\ \A r \in Runs : Phase(r) /\ Refused(r) /\ Approval(r)

LEMMA InitInv == Init => IInv
  BY InitType, InitialRecords, RunAssumption, SMTT(30)
  DEF Init, IInv, OneMutationAtATime, Inside, Working, Phase, Refused, Approval,
      Unrecorded, Recorded, Sent, Approved

\* Only the run that steps changes, and it keeps its place in the protocol.
LEMMA StepInv ==
  ASSUME IInv, NEW r \in Runs, Step(r)
  PROVE  OneMutationAtATime' /\ \A s \in Runs :
            Phase(s)' /\ Refused(s)' /\ Approval(s)'
<1> USE RunAssumption, InitialRecords
    DEF IInv, TypeOK, OneMutationAtATime, Inside, Working, Ended, Results,
        Refusals, Verdicts, Phase, Refused, Approval, Unrecorded, Recorded,
        Sent, Approved, process, disk, network, controller, Op
<1>1. CASE Begin(r)
  BY <1>1, SMTT(30) DEF Begin, Goto
<1>2. CASE TakeLock(r)
  BY <1>2, SMTT(30) DEF TakeLock, Goto, Exit
<1>3. CASE ReadNext(r)
  BY <1>3, SMTT(30) DEF ReadNext, Goto
<1>4. CASE ReadFails(r)
  BY <1>4, SMTT(30) DEF ReadFails, Exit
<1>5. CASE Validate(r)
  BY <1>5, SMTT(30) DEF Validate, Goto, Exit
<1>6. CASE SaveSnapshot(r)
  BY <1>6, SMTT(30) DEF SaveSnapshot, Goto, Exit
<1>7. CASE Plan(r)
  BY <1>7, SMTT(30) DEF Plan, Goto, Exit
<1>8. CASE Authorize(r)
  BY <1>8, SMTT(30) DEF Authorize, Authorized, ApprovalToken, Proceed, Refuse, Goto, Exit
<1>9. CASE RecheckIdentity(r)
  BY <1>9, SMTT(30) DEF RecheckIdentity, Proceed, Refuse, Goto, Exit
<1>10. CASE RefetchNext(r)
  BY <1>10, SMTT(30) DEF RefetchNext, Goto
<1>11. CASE RefetchFails(r)
  BY <1>11, SMTT(30) DEF RefetchFails, Refuse, Exit
<1>12. CASE CheckFresh(r)
  BY <1>12, SMTT(30) DEF CheckFresh, Proceed, Refuse, Goto, Exit
<1>13. CASE RecordAttempt(r)
  BY <1>13, SMTT(30) DEF RecordAttempt, Goto
<1>14. CASE Send(r)
  BY <1>14, SMTT(30) DEF Send, Goto
<1>15. CASE VerifyNext(r)
  BY <1>15, SMTT(30) DEF VerifyNext
<1>16. CASE Judge(r)
  BY <1>16, SMTT(30) DEF Judge, Reconcile, Goto
<1>17. CASE VerifyFails(r)
  BY <1>17, SMTT(30) DEF VerifyFails, Reconcile, Goto
<1>18. CASE Complete(r)
  BY <1>18, SMTT(30) DEF Complete, Verdict, Exit
<1>19. QED
  BY <1>1, <1>2, <1>3, <1>4, <1>5, <1>6, <1>7, <1>8, <1>9, <1>10, <1>11, <1>12, <1>13, <1>14, <1>15, <1>16, <1>17, <1>18 DEF Step

\* The answer, the kill and the controller move the rest.
LEMMA OthersInv ==
  ASSUME IInv, (\E r \in Runs : Receive(r)) \/ Environment
  PROVE  OneMutationAtATime' /\ \A s \in Runs :
            Phase(s)' /\ Refused(s)' /\ Approval(s)'
<1> USE RunAssumption, InitialRecords
    DEF IInv, TypeOK, OneMutationAtATime, Inside, Working, Ended, Results,
        Refusals, Verdicts, Phase, Refused, Approval, Unrecorded, Recorded,
        Sent, Approved, process, disk, network, controller
<1>1. ASSUME NEW r \in Runs, Receive(r)
      PROVE  OneMutationAtATime' /\ \A s \in Runs :
                Phase(s)' /\ Refused(s)' /\ Approval(s)'
  BY <1>1, SMTT(30) DEF Receive, Answers, Goto
<1>2. ASSUME NEW r \in Runs, Crash(r)
      PROVE  OneMutationAtATime' /\ \A s \in Runs :
                Phase(s)' /\ Refused(s)' /\ Approval(s)'
  BY <1>2, SMTT(30) DEF Crash, Exit
<1>3. ASSUME NEW r \in Runs, Accept(r) \/ Reject(r) \/ Land(r)
      PROVE  OneMutationAtATime' /\ \A s \in Runs :
                Phase(s)' /\ Refused(s)' /\ Approval(s)'
  BY <1>3, SMTT(30) DEF Accept, Reject, Land
<1>4. CASE Edit \/ Tick
  BY <1>4, SMTT(30) DEF Edit, Tick
<1>5. QED
  BY <1>1, <1>2, <1>3, <1>4 DEF Environment

LEMMA StutterInv == IInv /\ UNCHANGED vars => IInv'
  BY StutterType
  DEF IInv, OneMutationAtATime, Inside, Phase, Refused, Approval, vars,
      process, disk, network, controller

LEMMA NextInv == IInv /\ [Next]_vars => IInv'
<1>1. ASSUME IInv, Next
      PROVE  IInv'
  <2>1. TypeOK'
    BY <1>1, StepType, OthersType DEF Next, IInv
  <2>2. OneMutationAtATime' /\ \A s \in Runs :
           Phase(s)' /\ Refused(s)' /\ Approval(s)'
    BY <1>1, StepInv, OthersInv DEF Next
  <2>3. QED
    BY <2>1, <2>2 DEF IInv
<1>2. QED
  BY <1>1, StutterInv

THEOREM Inductive == Spec => []IInv
  BY InitInv, NextInv, PTL DEF Spec

-----------------------------------------------------------------------------
(* What follows from it. *)

\* The lock is held by exactly the run that is inside _single_mutation: never
\* by two, never by one that has refused, failed or been killed.
THEOREM MutualExclusion == Spec => []OneMutationAtATime
<1>1. IInv => OneMutationAtATime
  BY DEF IInv
<1>2. QED
  BY <1>1, Inductive, PTL

\* Whatever is on the wire is on record as attempted, wherever the process
\* that sent it was killed.
THEOREM JournalledWrites == Spec => []EveryWriteIsJournalled
<1>1. IInv => EveryWriteIsJournalled
  BY DEF IInv, EveryWriteIsJournalled, Phase
<1>2. QED
  BY <1>1, Inductive, PTL

\* NOT_APPLIED is said only of requests the controller has turned down.
THEOREM DefiniteRefusals == Spec => []NotAppliedNeverLands
<1>1. IInv => NotAppliedNeverLands
  BY DEF IInv, NotAppliedNeverLands, Refused
<1>2. QED
  BY <1>1, Inductive, PTL

\* Nothing is sent without the environment phrase and a token that a plan has
\* printed for the identity of this run.
THEOREM ApprovedWrites == Spec => []OnlyApprovedRunsWrite
<1>1. IInv => OnlyApprovedRunsWrite
  BY DEF IInv, OnlyApprovedRunsWrite, Approval, TypeOK
<1>2. QED
  BY <1>1, Inductive, PTL

\* What a run says at its end is not taken back, and nothing is sent after it.
LEMMA StepEndsAsRecorded ==
  ASSUME IInv, EndsAsRecorded, NEW r \in Runs, Step(r) \/ Receive(r) \/ Crash(r)
  PROVE  EndsAsRecorded'
<1> USE DEF IInv, TypeOK, Phase, Unrecorded, Recorded, Sent, EndsAsRecorded, Ended
<1> DEFINE Said(s) ==
             \/ /\ report[s] \in {"PLAN", "ERROR"} /\ wire[s] = "idle"
                /\ journal[s] \in {"NO_RECORD", "PLANNED_NO_WRITE"} \cup Refusals
             \/ /\ report[s] \in Verdicts /\ wire[s] # "idle"
                /\ journal[s] = report[s]
<1>1. ASSUME NEW s \in Runs, s # r, pc'[s] = "done"
      PROVE  Said(s)'
  <2>1. /\ pc'[s] = pc[s] /\ report'[s] = report[s]
        /\ wire'[s] = wire[s] /\ journal'[s] = journal[s]
    BY <1>1
    DEF Step, Receive, Crash, Begin, TakeLock, ReadNext, ReadFails, Validate,
        SaveSnapshot, Plan, Authorize, RecheckIdentity, RefetchNext, RefetchFails,
        CheckFresh, RecordAttempt, Send, VerifyNext, Judge, VerifyFails, Reconcile,
        Complete, Refuse, Proceed, Goto, Exit, disk, network
  <2>2. QED
    BY <1>1, <2>1
<1>2. ASSUME pc'[r] = "done"
      PROVE  Said(r)'
  <2>1. CASE \/ Begin(r) \/ ReadNext(r) \/ RefetchNext(r) \/ RecordAttempt(r) \/ Send(r)
             \/ VerifyNext(r) \/ Judge(r) \/ VerifyFails(r) \/ Receive(r) \/ Crash(r)
    BY <1>2, <2>1
    DEF Begin, ReadNext, RefetchNext, RecordAttempt, Send, VerifyNext, Judge,
        VerifyFails, Reconcile, Receive, Crash, Goto, Exit
  <2>2. CASE TakeLock(r) \/ ReadFails(r) \/ Validate(r)
    BY <1>2, <2>2 DEF TakeLock, ReadFails, Validate, Goto, Exit, disk, network
  <2>3. CASE SaveSnapshot(r) \/ Plan(r)
    BY <1>2, <2>3 DEF SaveSnapshot, Plan, Goto, Exit, network
  <2>4. CASE \/ Authorize(r) \/ RecheckIdentity(r) \/ RefetchFails(r) \/ CheckFresh(r)
    BY <1>2, <2>4
    DEF Authorize, RecheckIdentity, RefetchFails, CheckFresh, Proceed, Refuse, Goto,
        Exit, network, Refusals
  <2>5. CASE Complete(r)
    BY <1>2, <2>5 DEF Complete, Verdict, Exit, network, Verdicts
  <2>6. QED
    BY <2>1, <2>2, <2>3, <2>4, <2>5 DEF Step
<1>3. QED
  BY <1>1, <1>2

\* A run that ends by itself tells what its record tells, and ERROR and PLAN
\* mean that it has sent nothing.
THEOREM TrueReports == Spec => []EndsAsRecorded
<1>1. Init => EndsAsRecorded
  BY DEF Init, EndsAsRecorded
<1>2. ASSUME IInv, EndsAsRecorded, [Next]_vars
      PROVE  EndsAsRecorded'
  <2>1. CASE \E r \in Runs : Accept(r) \/ Reject(r) \/ Land(r)
    BY <1>2, <2>1
    DEF Accept, Reject, Land, EndsAsRecorded, IInv, TypeOK, process, disk
  <2>2. CASE Edit \/ Tick \/ UNCHANGED vars
    BY <1>2, <2>2
    DEF Edit, Tick, vars, EndsAsRecorded, process, disk, network
  <2>3. QED
    BY <1>2, <2>1, <2>2, StepEndsAsRecorded DEF Next, Environment
<1>3. QED
  BY <1>1, <1>2, Inductive, PTL DEF Spec

(* The operation records: every step of the engine is a step of            *)
(* OperationLog or leaves records and requests alone.                      *)

LEMMA LogInit == Init => Log!Init
  BY DEF Init, Log!Init

\* A record rewritten while no request moves is rewritten as OperationLog does.
LEMMA LogBecomes ==
  ASSUME NEW r \in Runs, NEW result, UNCHANGED wire,
         journal' = [journal EXCEPT ![r] = result]
  PROVE  Log!Becomes(r, result)
<1>1. [s \in Runs |-> wire'[s] # "idle"] = [s \in Runs |-> wire[s] # "idle"]
  OBVIOUS
<1>2. QED
  BY <1>1 DEF Log!Becomes

LEMMA LogStep ==
  ASSUME IInv, NEW r \in Runs, Step(r)
  PROVE  [Log!Next]_(Log!vars)
<1> USE DEF disk, network, Log!vars
<1>0. /\ Phase(r) /\ DOMAIN wire = Runs
      /\ journal \in [Runs -> Results]
  BY DEF IInv, TypeOK
<1>1. CASE Plan(r)
  BY <1>0, <1>1, LogBecomes
  DEF Plan, Phase, Unrecorded, Log!Next, Log!Record
<1>2. ASSUME NEW result \in Refusals, Refuse(r, result), pc[r] \in Recorded
      PROVE  Log!Next
<2>1. journal[r] = "PLANNED_NO_WRITE" /\ UNCHANGED wire
  BY <1>0, <1>2 DEF Refuse, Phase
<2>2. Log!Becomes(r, result)
  BY <1>2, <2>1, LogBecomes DEF Refuse
<2>3. Log!Refuse(r)
  BY <1>2, <2>1, <2>2 DEF Log!Refuse, Refusals, Log!Refusals
<2>4. QED
  BY <2>3 DEF Log!Next
<1>3. CASE Authorize(r) \/ RecheckIdentity(r) \/ RefetchFails(r) \/ CheckFresh(r)
  <2>1. CASE \E result \in Refusals : Refuse(r, result)
    <3>1. pc[r] \in Recorded
      BY <1>3 DEF Authorize, RecheckIdentity, RefetchFails, CheckFresh, Recorded
    <3>2. QED
      BY <1>2, <2>1, <3>1
  <2>2. CASE UNCHANGED <<disk, network>>
    BY <2>2
  <2>3. QED
    BY <1>3, <2>1, <2>2
    DEF Authorize, RecheckIdentity, RefetchFails, CheckFresh, Proceed, Refusals
<1>4. CASE RecordAttempt(r)
  <2>1. journal[r] = "PLANNED_NO_WRITE" /\ UNCHANGED wire
    BY <1>0, <1>4 DEF RecordAttempt, Phase, Recorded
  <2>2. Log!Becomes(r, "WRITE_ATTEMPTED")
    BY <1>4, <2>1, LogBecomes DEF RecordAttempt
  <2>3. QED
    BY <2>1, <2>2 DEF Log!Next, Log!Attempt
<1>5. CASE Send(r)
  <2>1. journal[r] = "WRITE_ATTEMPTED" /\ wire[r] = "idle" /\ UNCHANGED journal
    BY <1>0, <1>5 DEF Send, Phase
  <2>2. ~[s \in Runs |-> wire[s] # "idle"][r]
    BY <2>1
  <2>3. wire' = [wire EXCEPT ![r] = "sent"]
    BY <1>5 DEF Send
  <2>4. /\ wire'[r] # "idle"
        /\ \A s \in Runs \ {r} : wire'[s] = wire[s]
    BY <1>0, <2>3
  <2>5. [s \in Runs |-> wire'[s] # "idle"]
          = [[s \in Runs |-> wire[s] # "idle"] EXCEPT ![r] = TRUE]
    BY <2>4, Zenon
  <2>6. Log!Send(r)
    BY <2>1, <2>2, <2>5 DEF Log!Send
  <2>7. QED
    BY <2>6 DEF Log!Next
<1>6. CASE Complete(r)
  <2>1. /\ journal[r] = "WRITE_ATTEMPTED" /\ wire[r] # "idle"
        /\ UNCHANGED wire /\ journal' = [journal EXCEPT ![r] = Verdict(r)]
    BY <1>0, <1>6 DEF Complete, Phase, Sent
  <2>2. [s \in Runs |-> wire[s] # "idle"][r]
    BY <2>1
  <2>3. Verdict(r) \in Log!Verdicts
    BY DEF Verdict, Log!Verdicts
  <2>4. Log!Becomes(r, Verdict(r))
    BY <2>1, LogBecomes
  <2>5. Log!Conclude(r)
    BY <2>1, <2>2, <2>3, <2>4 DEF Log!Conclude
  <2>6. QED
    BY <2>5 DEF Log!Next
<1>7. CASE \/ Begin(r) \/ TakeLock(r) \/ ReadNext(r) \/ ReadFails(r)
          \/ Validate(r) \/ SaveSnapshot(r) \/ RefetchNext(r)
          \/ VerifyNext(r) \/ Judge(r) \/ VerifyFails(r)
  BY <1>7
  DEF Begin, TakeLock, ReadNext, ReadFails, Validate, SaveSnapshot, RefetchNext,
      VerifyNext, Judge, VerifyFails, Reconcile
<1>8. QED
  BY <1>1, <1>3, <1>4, <1>5, <1>6, <1>7 DEF Step

LEMMA LogOthers ==
  ASSUME IInv, (\E r \in Runs : Receive(r)) \/ Environment
  PROVE  UNCHANGED Log!vars
<1> USE DEF IInv, TypeOK, disk, network, Log!vars
<1>1. ASSUME NEW r \in Runs, Accept(r) \/ Reject(r) \/ Land(r)
      PROVE  UNCHANGED Log!vars
  BY <1>1, SMTT(30) DEF Accept, Reject, Land
<1>2. CASE (\E r \in Runs : Receive(r) \/ Crash(r)) \/ Edit \/ Tick
  BY <1>2 DEF Receive, Crash, Edit, Tick
<1>3. QED
  BY <1>1, <1>2 DEF Environment

\* The engine implements OperationLog, kills and other runs included.
THEOREM ImplementsLog == Spec => KeepsTheLog
<1>1. IInv /\ [Next]_vars => [Log!Next]_(Log!vars)
  <2>1. ASSUME IInv, Next
        PROVE  [Log!Next]_(Log!vars)
    BY <2>1, LogStep, LogOthers DEF Next
  <2>2. ASSUME UNCHANGED vars
        PROVE  UNCHANGED Log!vars
    BY <2>2 DEF vars, disk, network, Log!vars
  <2>3. QED
    BY <2>1, <2>2
<1>2. QED
  BY LogInit, <1>1, Inductive, PTL DEF Spec, KeepsTheLog, Log!Spec

-----------------------------------------------------------------------------
(* What a step leaves alone. *)

\* Everything a run has, in its process and on its disk, and its request.
Same(s) ==
    /\ pc'[s] = pc[s] /\ cmd'[s] = cmd[s] /\ mem'[s] = mem[s]
    /\ snap'[s] = snap[s] /\ journal'[s] = journal[s]
    /\ wire'[s] = wire[s] /\ body'[s] = body[s]

LEMMA OthersKeep ==
  ASSUME TypeOK, NEW r \in Runs, Step(r) \/ Receive(r) \/ Crash(r)
  PROVE  /\ \A s \in Runs \ {r} : Same(s)
         /\ UNCHANGED controller
<1> USE DEF TypeOK, Same, process, disk, network, controller
<1>1. CASE Begin(r)
  BY <1>1, SMTT(30) DEF Begin, Goto
<1>2. CASE TakeLock(r)
  BY <1>2, SMTT(30) DEF TakeLock, Goto, Exit
<1>3. CASE ReadNext(r)
  BY <1>3, SMTT(30) DEF ReadNext, Goto
<1>4. CASE ReadFails(r) \/ Crash(r)
  BY <1>4, SMTT(30) DEF ReadFails, Crash, Exit
<1>5. CASE Validate(r)
  BY <1>5, SMTT(30) DEF Validate, Goto, Exit
<1>6. CASE SaveSnapshot(r)
  BY <1>6, SMTT(30) DEF SaveSnapshot, Goto, Exit
<1>7. CASE Plan(r)
  BY <1>7, SMTT(30) DEF Plan, Goto, Exit
<1>8. CASE Authorize(r)
  BY <1>8, SMTT(30) DEF Authorize, Proceed, Refuse, Goto, Exit
<1>9. CASE RecheckIdentity(r)
  BY <1>9, SMTT(30) DEF RecheckIdentity, Proceed, Refuse, Goto, Exit
<1>10. CASE RefetchNext(r)
  BY <1>10, SMTT(30) DEF RefetchNext, Goto
<1>11. CASE RefetchFails(r)
  BY <1>11, SMTT(30) DEF RefetchFails, Refuse, Exit
<1>12. CASE CheckFresh(r)
  BY <1>12, SMTT(30) DEF CheckFresh, Proceed, Refuse, Goto, Exit
<1>13. CASE RecordAttempt(r)
  BY <1>13, SMTT(30) DEF RecordAttempt, Goto
<1>14. CASE Send(r)
  BY <1>14, SMTT(30) DEF Send, Goto
<1>15. CASE VerifyNext(r)
  BY <1>15, SMTT(30) DEF VerifyNext
<1>16. CASE Judge(r)
  BY <1>16, SMTT(30) DEF Judge, Reconcile, Goto
<1>17. CASE VerifyFails(r)
  BY <1>17, SMTT(30) DEF VerifyFails, Reconcile, Goto
<1>18. CASE Complete(r)
  BY <1>18, SMTT(30) DEF Complete, Exit
<1>19. CASE Receive(r)
  BY <1>19, SMTT(30) DEF Receive, Goto
<1>20. QED
  BY <1>1, <1>2, <1>3, <1>4, <1>5, <1>6, <1>7, <1>8, <1>9, <1>10, <1>11, <1>12,
     <1>13, <1>14, <1>15, <1>16, <1>17, <1>18, <1>19 DEF Step

\* A run that ends forgets everything; its command line and its request stay.
LEMMA ExitForgets ==
  ASSUME TypeOK, NEW r \in Runs, NEW where, NEW words, Exit(r, where, words)
  PROVE  pc'[r] = where /\ mem'[r] = Blank /\ cmd'[r] = cmd[r]
  BY SMTT(30) DEF TypeOK, Exit

-----------------------------------------------------------------------------
(* What the place of a run says of its memory, whatever the callbacks are.  *)

Planning == {"validating", "saving", "recording", "authorizing", "identifying"}
Committed == {"comparing", "attempting", "sending", "waiting"}

Memory(r) ==
    /\ DOMAIN mem[r].seen = Datasets
    /\ DOMAIN mem[r].fresh = Datasets
    /\ DOMAIN mem[r].found = Datasets
    /\ pc[r] \in {"idle", "locking"} \cup Ended => mem[r] = Blank
    /\ pc[r] \in {"reading"} \cup Planning => mem[r].fresh = Unread
    /\ pc[r] \in {"reading", "refetching"} \cup Planning \cup Committed =>
         mem[r].found = Unread
    /\ pc[r] \in Planning \cup Committed => mem[r].got = 0
    /\ pc[r] \in {"reading", "refetching"} =>
         mem[r].got < Len(ReadState(Op(r)))
    /\ pc[r] = "verifying" =>
         /\ mem[r].got <= Len(VerifyReads(Op(r)))
         /\ mem[r].got = 0 => mem[r].found = Unread
    /\ mem[r].verified => pc[r] = "completing"

LEMMA BlankShape ==
    /\ DOMAIN Unread = Datasets
    /\ Blank.seen = Unread /\ Blank.fresh = Unread /\ Blank.found = Unread
    /\ Blank.got = 0 /\ Blank.tries = 0 /\ ~Blank.verified
  BY DEF Blank, Unread

LEMMA InitMemory == Init => \A r \in Runs : Memory(r)
  BY BlankShape DEF Init, Memory, Planning, Committed

\* Nothing is known of a run that has ended.
LEMMA ExitMemory ==
  ASSUME TypeOK, NEW r \in Runs, NEW where \in Ended, NEW words, Exit(r, where, words)
  PROVE  Memory(r)'
  BY ExitForgets, BlankShape, SMTT(30) DEF Memory, Ended, Planning, Committed

LEMMA MemoryStep ==
  ASSUME TypeOK, NEW r \in Runs, Memory(r), Step(r) \/ Receive(r) \/ Crash(r)
  PROVE  Memory(r)'
<1>0. /\ Len(ReadState(Op(r))) \in Nat \ {0} /\ Len(VerifyReads(Op(r))) \in Nat \ {0}
      /\ mem[r].got \in Nat /\ DOMAIN mem = Runs /\ r \in DOMAIN pc
      /\ DOMAIN mem[r] = DOMAIN Blank
  BY ReadAssumption DEF TypeOK, Op
<1>1. ASSUME Exit(r, "done", "ERROR") \/ Exit(r, "done", "PLAN")
             \/ Exit(r, "done", Verdict(r)) \/ Exit(r, "crashed", "none")
      PROVE  Memory(r)'
  BY <1>1, ExitMemory DEF Ended
<1>2. CASE Begin(r)
  <2>1. pc[r] = "idle" /\ mem' = mem /\ pc'[r] = "locking"
    BY <1>0, <1>2 DEF Begin, Goto
  <2>2. QED
    BY <2>1, BlankShape DEF Memory, Planning, Committed, Ended
<1>3. CASE TakeLock(r)
  <2>1. CASE Goto(r, "reading") /\ UNCHANGED <<cmd, mem>>
    BY <1>0, <1>3, <2>1, BlankShape, SMTT(30)
    DEF TakeLock, Goto, Memory, Planning, Committed, Ended, Op
  <2>2. QED
    BY <1>1, <1>3, <2>1 DEF TakeLock
<1>4. CASE ReadNext(r)
  <2> DEFINE d == ReadState(Op(r))[mem[r].got + 1]
             last == mem[r].got + 1 >= Len(ReadState(Op(r)))
  <2>1. /\ pc[r] = "reading" /\ pc'[r] = IF last THEN "validating" ELSE "reading"
        /\ DOMAIN mem'[r].seen = DOMAIN mem[r].seen
        /\ mem'[r].fresh = mem[r].fresh /\ mem'[r].found = mem[r].found
        /\ mem'[r].got = IF last THEN 0 ELSE mem[r].got + 1
        /\ mem'[r].verified = mem[r].verified /\ cmd' = cmd
    BY <1>0, <1>4, SMTT(30) DEF ReadNext, Goto, Blank
  <2>2. QED
    BY <1>0, <2>1, SMTT(30) DEF Memory, Planning, Committed, Ended, Op
<1>5. CASE Validate(r)
  <2>1. CASE Goto(r, "saving") /\ UNCHANGED <<cmd, mem>>
    BY <1>0, <1>5, <2>1, SMTT(30) DEF Validate, Goto, Memory, Planning, Committed, Ended, Op
  <2>2. QED
    BY <1>1, <1>5, <2>1 DEF Validate
<1>6. CASE SaveSnapshot(r)
  <2>1. CASE Goto(r, "recording") /\ UNCHANGED <<cmd, mem>>
    BY <1>0, <1>6, <2>1, SMTT(30) DEF SaveSnapshot, Goto, Memory, Planning, Committed, Ended, Op
  <2>2. QED
    BY <1>1, <1>6, <2>1 DEF SaveSnapshot
<1>7. CASE Plan(r)
  <2>1. CASE Goto(r, "authorizing") /\ UNCHANGED <<cmd, mem>>
    BY <1>0, <1>7, <2>1, SMTT(30) DEF Plan, Goto, Memory, Planning, Committed, Ended, Op
  <2>2. QED
    BY <1>1, <1>7, <2>1 DEF Plan
<1>8. CASE Authorize(r) \/ RecheckIdentity(r)
  <2>1. CASE Goto(r, "identifying") /\ UNCHANGED <<cmd, mem>> /\ pc[r] = "authorizing"
    BY <1>0, <2>1, SMTT(30) DEF Goto, Memory, Planning, Committed, Ended, Op
  <2>2. CASE Goto(r, "refetching") /\ UNCHANGED <<cmd, mem>> /\ pc[r] = "identifying"
    BY <1>0, <2>2, SMTT(30) DEF Goto, Memory, Planning, Committed, Ended, Op
  <2>3. QED
    BY <1>1, <1>8, <2>1, <2>2 DEF Authorize, RecheckIdentity, Proceed, Refuse
<1>9. CASE RefetchNext(r)
  <2> DEFINE d == ReadState(Op(r))[mem[r].got + 1]
             last == mem[r].got + 1 >= Len(ReadState(Op(r)))
  <2>1. /\ pc[r] = "refetching" /\ pc'[r] = IF last THEN "comparing" ELSE "refetching"
        /\ DOMAIN mem'[r].fresh = DOMAIN mem[r].fresh
        /\ mem'[r].seen = mem[r].seen /\ mem'[r].found = mem[r].found
        /\ mem'[r].got = IF last THEN 0 ELSE mem[r].got + 1
        /\ mem'[r].verified = mem[r].verified /\ cmd' = cmd
    BY <1>0, <1>9, SMTT(30) DEF RefetchNext, Goto, Blank
  <2>2. QED
    BY <1>0, <2>1, SMTT(30) DEF Memory, Planning, Committed, Ended, Op
<1>10. CASE ReadFails(r) \/ RefetchFails(r) \/ Complete(r) \/ Crash(r)
  BY <1>1, <1>10 DEF ReadFails, RefetchFails, Complete, Crash, Refuse
<1>11. CASE CheckFresh(r)
  <2>1. CASE Goto(r, "attempting") /\ UNCHANGED <<cmd, mem>> /\ pc[r] = "comparing"
    BY <1>0, <2>1, SMTT(30) DEF Goto, Memory, Planning, Committed, Ended, Op
  <2>2. QED
    BY <1>1, <1>11, <2>1 DEF CheckFresh, Proceed, Refuse
<1>12. CASE RecordAttempt(r)
  BY <1>0, <1>12, SMTT(30) DEF RecordAttempt, Goto, Memory, Planning, Committed, Ended, Op
<1>13. CASE Send(r)
  BY <1>0, <1>13, SMTT(30) DEF Send, Goto, Memory, Planning, Committed, Ended, Op
<1>14. CASE Receive(r)
  <2>1. /\ pc[r] = "waiting" /\ pc'[r] = "verifying" /\ cmd' = cmd
        /\ mem'[r].seen = mem[r].seen /\ mem'[r].fresh = mem[r].fresh
        /\ mem'[r].found = mem[r].found /\ mem'[r].got = mem[r].got
        /\ mem'[r].verified = mem[r].verified
    BY <1>0, <1>14, SMTT(30) DEF Receive, Goto, Blank
  <2>2. QED
    BY <1>0, <2>1, SMTT(30) DEF Memory, Planning, Committed, Ended, Op
<1>15. CASE VerifyNext(r)
  <2>1. /\ pc[r] = "verifying" /\ pc'[r] = "verifying" /\ cmd' = cmd
        /\ mem[r].got < Len(VerifyReads(Op(r)))
        /\ mem'[r].seen = mem[r].seen /\ mem'[r].fresh = mem[r].fresh
        /\ DOMAIN mem'[r].found = DOMAIN mem[r].found
        /\ mem'[r].got = mem[r].got + 1 /\ mem'[r].verified = mem[r].verified
    BY <1>0, <1>15, SMTT(30) DEF VerifyNext, Blank
  <2>2. QED
    BY <1>0, <2>1, SMTT(30) DEF Memory, Planning, Committed, Ended, Op
<1>16. ASSUME pc[r] = "verifying",
              NEW verified, NEW several, Reconcile(r, verified, several)
       PROVE  Memory(r)'
  <2>1. /\ pc'[r] \in {"verifying", "completing"} /\ cmd' = cmd
        /\ mem'[r].seen = mem[r].seen /\ mem'[r].fresh = mem[r].fresh
        /\ mem'[r].found = Unread /\ mem'[r].got = 0
        /\ mem'[r].verified = verified
    BY <1>0, <1>16, SMTT(30) DEF Reconcile, Goto, Blank
  <2>2. verified => pc'[r] = "completing"
    BY <1>0, <1>16, SMTT(30) DEF Reconcile, Goto
  <2>3. QED
    BY <1>0, <2>1, <2>2, BlankShape, SMTT(30) DEF Memory, Planning, Committed, Ended, Op
<1>17. CASE Judge(r) \/ VerifyFails(r)
  BY <1>16, <1>17 DEF Judge, VerifyFails
<1>18. QED
  BY <1>2, <1>3, <1>4, <1>5, <1>6, <1>7, <1>8, <1>9, <1>10, <1>11, <1>12, <1>13,
     <1>14, <1>15, <1>17 DEF Step

-----------------------------------------------------------------------------
(* What a step does to the run that takes it, from place to place.          *)

Ready == {"attempting", "sending"}
InFlight(r) == wire[r] \in {"sent", "accepted"}

KeepsRequest(r) == wire'[r] = wire[r] /\ body'[r] = body[r]
KeepsReads(r) ==
    /\ cmd'[r] = cmd[r]
    /\ mem'[r].seen = mem[r].seen /\ mem'[r].fresh = mem[r].fresh

\* The run begins, or it ends; its request stays as it is.
Elsewhere(r) ==
    /\ pc'[r] \in {"locking"} \cup Ended /\ KeepsRequest(r)
    /\ wire[r] # "idle" => cmd'[r] = cmd[r]

BeginsReading(r) ==
    /\ pc[r] = "locking" /\ pc'[r] = "reading" /\ wire[r] = "idle"
    /\ mem'[r].got = 0 /\ KeepsRequest(r)

ReadsOn(r) ==
    LET n == mem[r].got
        d == ReadState(Op(r))[n + 1]
        last == n + 1 = Len(ReadState(Op(r)))
        view == View(Op(r), d, ctl, mem[r].seen)
    IN  /\ pc[r] = "reading" /\ wire[r] = "idle"
        /\ n \in Nat /\ n < Len(ReadState(Op(r))) /\ d \in Datasets
        /\ DOMAIN mem[r].seen = Datasets /\ view # NoView
        /\ mem'[r].seen = [mem[r].seen EXCEPT ![d] = view]
        /\ cmd'[r] = cmd[r] /\ KeepsRequest(r)
        /\ \/ last /\ pc'[r] = "validating" /\ mem'[r].got = 0
           \/ ~last /\ pc'[r] = "reading" /\ mem'[r].got = n + 1

Plans(r) ==
    /\ \/ pc[r] = "validating" /\ pc'[r] = "saving" /\ Validated(Op(r), mem[r].seen)
       \/ pc[r] = "saving" /\ pc'[r] = "recording"
       \/ pc[r] = "recording" /\ pc'[r] = "authorizing" /\ HasDiff(Op(r), mem[r].seen)
       \/ pc[r] = "authorizing" /\ pc'[r] = "identifying" /\ Authorized(r)
    /\ wire[r] = "idle" /\ KeepsReads(r) /\ KeepsRequest(r)

BeginsRefetch(r) ==
    /\ pc[r] = "identifying" /\ pc'[r] = "refetching" /\ wire[r] = "idle"
    /\ mem[r].got = 0 /\ mem[r].fresh = Unread /\ mem'[r].got = 0
    /\ KeepsReads(r) /\ KeepsRequest(r)

Refetches(r) ==
    LET n == mem[r].got
        d == ReadState(Op(r))[n + 1]
        last == n + 1 = Len(ReadState(Op(r)))
        view == View(Op(r), d, ctl, mem[r].fresh)
    IN  /\ pc[r] = "refetching" /\ wire[r] = "idle"
        /\ n \in Nat /\ n < Len(ReadState(Op(r))) /\ d \in Datasets
        /\ DOMAIN mem[r].fresh = Datasets /\ view # NoView
        /\ mem'[r].fresh = [mem[r].fresh EXCEPT ![d] = view]
        /\ mem'[r].fresh # Unread
        /\ mem'[r].seen = mem[r].seen /\ cmd'[r] = cmd[r] /\ KeepsRequest(r)
        /\ \/ last /\ pc'[r] = "comparing" /\ mem'[r].got = 0
           \/ ~last /\ pc'[r] = "refetching" /\ mem'[r].got = n + 1

Passes(r) ==
    /\ pc[r] = "comparing" /\ pc'[r] = "attempting" /\ wire[r] = "idle"
    /\ Unchanged(r) /\ RuntimeSafe(Op(r), mem[r].seen, mem[r].fresh)
    /\ KeepsReads(r) /\ KeepsRequest(r)

RecordsAttempt(r) ==
    /\ pc[r] = "attempting" /\ pc'[r] = "sending" /\ wire[r] = "idle"
    /\ KeepsReads(r) /\ KeepsRequest(r)

Sends(r) ==
    /\ pc[r] = "sending" /\ pc'[r] = "waiting"
    /\ wire[r] = "idle" /\ wire'[r] = "sent"
    /\ body'[r] = Request(Op(r), mem[r].seen, mem[r].fresh)
    /\ KeepsReads(r)

Hears(r) ==
    /\ pc[r] = "waiting" /\ pc'[r] = "verifying"
    /\ mem'[r].got = 0 /\ KeepsReads(r) /\ KeepsRequest(r)

Verifies(r) ==
    LET n == mem[r].got
        d == VerifyReads(Op(r))[n + 1]
    IN  /\ pc[r] = "verifying" /\ pc'[r] = "verifying"
        /\ n \in Nat /\ n < Len(VerifyReads(Op(r))) /\ d \in Datasets
        /\ DOMAIN mem[r].found = Datasets
        /\ mem'[r].found =
             [mem[r].found EXCEPT ![d] = View(Op(r), d, ctl, mem[r].found)]
        /\ mem'[r].got = n + 1 /\ KeepsReads(r) /\ KeepsRequest(r)

\* A verdict is drawn, or another verification follows.
Concludes(r) ==
    /\ pc[r] = "verifying" /\ pc'[r] \in {"verifying", "completing"}
    /\ mem'[r].got = 0 /\ KeepsReads(r) /\ KeepsRequest(r)
    /\ mem'[r].verified =>
         /\ mem[r].got = Len(VerifyReads(Op(r)))
         /\ Verified(Op(r), mem[r].seen, mem[r].fresh, mem[r].found, AnsweredId(r))

LEMMA OwnStep ==
  ASSUME IInv, NEW r \in Runs, Memory(r), Step(r) \/ Receive(r) \/ Crash(r)
  PROVE  \/ Elsewhere(r) \/ BeginsReading(r) \/ ReadsOn(r) \/ Plans(r)
         \/ BeginsRefetch(r) \/ Refetches(r) \/ Passes(r)
         \/ RecordsAttempt(r) \/ Sends(r) \/ Hears(r) \/ Verifies(r) \/ Concludes(r)
<1>0. /\ mem[r].got \in Nat /\ DOMAIN mem = Runs /\ r \in DOMAIN pc
      /\ r \in DOMAIN wire /\ DOMAIN body = Runs
      /\ DOMAIN mem[r] = DOMAIN Blank /\ TypeOK /\ Op(r) \in Operations
      /\ Phase(r)
      /\ Len(ReadState(Op(r))) \in Nat \ {0} /\ Len(VerifyReads(Op(r))) \in Nat \ {0}
  BY ReadAssumption DEF IInv, TypeOK, Op
<1>1. ASSUME NEW where \in Ended, NEW words, Exit(r, where, words), UNCHANGED network
      PROVE  Elsewhere(r)
  <2>1. pc'[r] = where /\ cmd'[r] = cmd[r]
    BY <1>0, <1>1, ExitForgets
  <2>2. QED
    BY <1>1, <2>1 DEF Elsewhere, KeepsRequest, network
<1>2. CASE Begin(r)
  BY <1>0, <1>2 DEF Begin, Goto, Phase, Unrecorded, Elsewhere, KeepsRequest, network
<1>3. CASE TakeLock(r) \/ Validate(r) \/ SaveSnapshot(r) \/ Plan(r)
  <2>1. ASSUME NEW words, Exit(r, "done", words)
        PROVE  Elsewhere(r)
    BY <1>1, <1>3, <2>1 DEF TakeLock, Validate, SaveSnapshot, Plan, Ended
  <2>2. CASE TakeLock(r) /\ ~\E words : Exit(r, "done", words)
    <3>1. pc[r] = "locking" /\ pc'[r] = "reading" /\ mem' = mem /\ UNCHANGED network
      BY <1>0, <2>2 DEF TakeLock, Goto
    <3>2. QED
      BY <1>0, <3>1, BlankShape
      DEF BeginsReading, KeepsRequest, network, Memory, Phase, Unrecorded
  <2>3. CASE Validate(r) /\ ~\E words : Exit(r, "done", words)
    BY <1>0, <2>3
    DEF Validate, Goto, Plans, KeepsReads, KeepsRequest, network, Phase, Unrecorded
  <2>4. CASE SaveSnapshot(r) /\ ~\E words : Exit(r, "done", words)
    BY <1>0, <2>4
    DEF SaveSnapshot, Goto, Plans, KeepsReads, KeepsRequest, network, Phase, Unrecorded
  <2>5. CASE Plan(r) /\ ~\E words : Exit(r, "done", words)
    BY <1>0, <2>5
    DEF Plan, Goto, Plans, KeepsReads, KeepsRequest, network, Phase, Unrecorded
  <2>6. QED
    BY <1>3, <2>1, <2>2, <2>3, <2>4, <2>5
<1>4. CASE ReadNext(r)
  <2> DEFINE n == mem[r].got
             d == ReadState(Op(r))[n + 1]
             last == n + 1 = Len(ReadState(Op(r)))
             view == View(Op(r), d, ctl, mem[r].seen)
  <2>1. /\ pc[r] = "reading" /\ view # NoView /\ wire[r] = "idle"
        /\ n < Len(ReadState(Op(r))) /\ DOMAIN mem[r].seen = Datasets
    BY <1>0, <1>4 DEF ReadNext, Memory, Phase, Unrecorded
  <2>2. d \in Datasets
    BY <1>0, <2>1, ReadAssumption
  <2>3. last <=> n + 1 >= Len(ReadState(Op(r)))
    BY <1>0, <2>1
  <2>4. /\ mem'[r].seen = [mem[r].seen EXCEPT ![d] = view]
        /\ cmd'[r] = cmd[r] /\ KeepsRequest(r)
        /\ pc'[r] = IF last THEN "validating" ELSE "reading"
        /\ mem'[r].got = IF last THEN 0 ELSE n + 1
    BY <1>0, <1>4, <2>3, SMTT(30) DEF ReadNext, Goto, Blank, network, KeepsRequest
  <2> HIDE DEF view
  <2>5. QED
    BY <1>0, <2>1, <2>2, <2>4 DEF ReadsOn, view
<1>5. CASE ReadFails(r) \/ RefetchFails(r) \/ Complete(r) \/ Crash(r)
  BY <1>1, <1>5 DEF ReadFails, RefetchFails, Complete, Crash, Refuse, Ended
<1>6. CASE Authorize(r)
  <2>1. CASE Authorized(r) /\ Proceed(r, "identifying") /\ pc[r] = "authorizing"
    BY <1>0, <2>1
    DEF Proceed, Goto, Plans, KeepsReads, KeepsRequest, network, Phase, Recorded
  <2>2. QED
    BY <1>1, <1>6, <2>1 DEF Authorize, Refuse, Ended
<1>7. CASE RecheckIdentity(r)
  <2>1. CASE Proceed(r, "refetching") /\ pc[r] = "identifying"
    BY <1>0, <2>1
    DEF Proceed, Goto, BeginsRefetch, KeepsReads, KeepsRequest, network, Memory,
        Planning, Phase, Recorded
  <2>2. QED
    BY <1>1, <1>7, <2>1 DEF RecheckIdentity, Refuse, Ended
<1>8. CASE RefetchNext(r)
  <2> DEFINE n == mem[r].got
             d == ReadState(Op(r))[n + 1]
             last == n + 1 = Len(ReadState(Op(r)))
             view == View(Op(r), d, ctl, mem[r].fresh)
  <2>1. /\ pc[r] = "refetching" /\ view # NoView /\ wire[r] = "idle"
        /\ n < Len(ReadState(Op(r))) /\ DOMAIN mem[r].fresh = Datasets
    BY <1>0, <1>8 DEF RefetchNext, Memory, Phase, Recorded
  <2>2. d \in Datasets
    BY <1>0, <2>1, ReadAssumption
  <2>3. last <=> n + 1 >= Len(ReadState(Op(r)))
    BY <1>0, <2>1
  <2>4. /\ mem'[r].fresh = [mem[r].fresh EXCEPT ![d] = view]
        /\ mem'[r].seen = mem[r].seen /\ cmd'[r] = cmd[r] /\ KeepsRequest(r)
        /\ pc'[r] = IF last THEN "comparing" ELSE "refetching"
        /\ mem'[r].got = IF last THEN 0 ELSE n + 1
    BY <1>0, <1>8, <2>3, SMTT(30) DEF RefetchNext, Goto, Blank, network, KeepsRequest
  <2> HIDE DEF view
  <2>5. mem'[r].fresh # Unread
    <3>1. Unread[d] = NoView
      BY <2>2 DEF Unread
    <3>2. mem'[r].fresh[d] = view
      BY <2>1, <2>2, <2>4
    <3>3. QED
      BY <2>1, <3>1, <3>2
  <2>6. QED
    BY <1>0, <2>1, <2>2, <2>4, <2>5 DEF Refetches, view
<1>9. CASE CheckFresh(r)
  <2>1. CASE Unchanged(r) /\ RuntimeSafe(Op(r), mem[r].seen, mem[r].fresh)
             /\ Proceed(r, "attempting") /\ pc[r] = "comparing"
    BY <1>0, <2>1
    DEF Proceed, Goto, Passes, KeepsReads, KeepsRequest, network, Phase, Recorded
  <2>2. QED
    BY <1>1, <1>9, <2>1 DEF CheckFresh, Refuse, Ended
<1>10. CASE RecordAttempt(r)
  BY <1>0, <1>10
  DEF RecordAttempt, Goto, RecordsAttempt, KeepsReads, KeepsRequest, network, Phase,
      Recorded
<1>11. CASE Send(r)
  BY <1>0, <1>11 DEF Send, Goto, Sends, KeepsReads, Phase
<1>12. CASE Receive(r)
  <2>1. /\ pc[r] = "waiting" /\ pc'[r] = "verifying" /\ mem[r].got = 0
        /\ mem'[r].seen = mem[r].seen /\ mem'[r].fresh = mem[r].fresh
        /\ mem'[r].got = mem[r].got /\ cmd' = cmd /\ UNCHANGED network
    BY <1>0, <1>12, SMTT(30) DEF Receive, Goto, Blank, Memory, Committed
  <2>2. QED
    BY <2>1 DEF Hears, KeepsReads, KeepsRequest, network
<1>13. CASE VerifyNext(r)
  <2> DEFINE n == mem[r].got
             d == VerifyReads(Op(r))[n + 1]
             view == View(Op(r), d, ctl, mem[r].found)
  <2>1. /\ pc[r] = "verifying" /\ pc'[r] = "verifying"
        /\ n < Len(VerifyReads(Op(r))) /\ DOMAIN mem[r].found = Datasets
    BY <1>13 DEF VerifyNext, Memory
  <2>2. d \in Datasets
    BY <1>0, <2>1, ReadAssumption
  <2>3. /\ mem'[r].found = [mem[r].found EXCEPT ![d] = view]
        /\ mem'[r].seen = mem[r].seen /\ mem'[r].fresh = mem[r].fresh
        /\ mem'[r].got = n + 1 /\ cmd' = cmd /\ UNCHANGED network
    BY <1>0, <1>13, SMTT(30) DEF VerifyNext, Blank
  <2> HIDE DEF view
  <2>4. QED
    BY <1>0, <2>1, <2>2, <2>3 DEF Verifies, KeepsReads, KeepsRequest, network, view
<1>14. ASSUME pc[r] = "verifying",
              NEW verified, NEW several, Reconcile(r, verified, several),
              verified =>
                /\ mem[r].got = Len(VerifyReads(Op(r)))
                /\ Verified(Op(r), mem[r].seen, mem[r].fresh, mem[r].found, AnsweredId(r))
       PROVE  Concludes(r)
  <2>1. /\ pc'[r] \in {"verifying", "completing"} /\ cmd' = cmd /\ UNCHANGED network
        /\ mem'[r].seen = mem[r].seen /\ mem'[r].fresh = mem[r].fresh
        /\ mem'[r].got = 0 /\ mem'[r].verified = verified
    BY <1>0, <1>14, SMTT(30) DEF Reconcile, Goto, Blank
  <2>2. QED
    BY <1>14, <2>1 DEF Concludes, KeepsReads, KeepsRequest, network
<1>15. CASE Judge(r) \/ VerifyFails(r)
  BY <1>14, <1>15 DEF Judge, VerifyFails
<1>16. QED
  BY <1>2, <1>3, <1>4, <1>5, <1>6, <1>7, <1>8, <1>9, <1>10, <1>11, <1>12, <1>13, <1>15 DEF Step

\* What a run has checked still holds of what it remembers, and what it has
\* sent is made of that: nothing it reads later replaces what it has checked.
Checks(r) ==
    /\ pc[r] \in {"saving", "recording", "authorizing"} \cup Approved =>
         Validated(Op(r), mem[r].seen)
    /\ pc[r] \in {"authorizing"} \cup Approved => HasDiff(Op(r), mem[r].seen)
    /\ pc[r] \in Ready \cup Sent =>
         Unchanged(r) /\ RuntimeSafe(Op(r), mem[r].seen, mem[r].fresh)
    /\ pc[r] \in Sent => body[r] = Request(Op(r), mem[r].seen, mem[r].fresh)

LEMMA ChecksStep ==
  ASSUME IInv, NEW r \in Runs, Memory(r), Checks(r), Step(r) \/ Receive(r) \/ Crash(r)
  PROVE  Checks(r)'
<1>1. CASE Elsewhere(r) \/ BeginsReading(r) \/ ReadsOn(r)
  BY <1>1
  DEF Elsewhere, BeginsReading, ReadsOn, Checks, Ended, Ready, Approved, Recorded, Sent
<1>2. CASE Plans(r)
  BY <1>2 DEF Plans, KeepsReads, Checks, Op, Ready, Approved, Recorded, Sent
<1>3. CASE Refetches(r)
  BY <1>3 DEF Refetches, Checks, Op, Approved, Recorded, Sent, Ready
<1>4. CASE BeginsRefetch(r) \/ Passes(r) \/ RecordsAttempt(r) \/ Sends(r) \/ Hears(r)
           \/ Verifies(r) \/ Concludes(r)
  BY <1>4
  DEF BeginsRefetch, Passes, RecordsAttempt, Sends, Hears, Verifies, Concludes,
      KeepsReads, KeepsRequest, Checks, Unchanged, Op, Approved, Recorded, Sent, Ready
<1>5. QED
  BY <1>1, <1>2, <1>3, <1>4, OwnStep

LInv == IInv /\ \A r \in Runs : Memory(r) /\ Checks(r)

LEMMA InitChecks == Init => LInv
<1>1. Init => \A r \in Runs : Checks(r)
  BY DEF Init, Checks, Approved, Recorded, Sent, Ready
<1>2. QED
  BY <1>1, InitInv, InitMemory DEF LInv

LEMMA NextChecks ==
  ASSUME LInv, [Next]_vars
  PROVE  LInv'
<1>1. IInv'
  BY NextInv DEF LInv
<1>2. ASSUME NEW s \in Runs, Memory(s), Checks(s),
             pc'[s] = pc[s], cmd'[s] = cmd[s], mem'[s] = mem[s], body'[s] = body[s]
      PROVE  Memory(s)' /\ Checks(s)'
  BY <1>2 DEF Memory, Checks, Unchanged, Op
<1>3. ASSUME NEW r \in Runs, Step(r) \/ Receive(r) \/ Crash(r), NEW s \in Runs
      PROVE  Memory(s)' /\ Checks(s)'
  <2>1. CASE s = r
    BY <1>3, <2>1, MemoryStep, ChecksStep DEF LInv, IInv
  <2>2. CASE s # r
    BY <1>2, <1>3, <2>2, OthersKeep DEF LInv, IInv, Same
  <2>3. QED
    BY <2>1, <2>2
<1>4. CASE \/ \E r \in Runs : Accept(r) \/ Reject(r) \/ Land(r)
           \/ Edit \/ Tick \/ UNCHANGED vars
  <2>1. UNCHANGED <<process, body>>
    BY <1>4 DEF Accept, Reject, Land, Edit, Tick, vars, network
  <2>2. QED
    BY <1>1, <1>2, <2>1 DEF LInv, process
<1>5. QED
  BY <1>1, <1>3, <1>4 DEF Next, Environment, LInv

LEMMA ChecksInvariant == Spec => []LInv
  BY InitChecks, NextChecks, PTL DEF Spec

\* The step by which a request takes effect.
LEMMA TakesEffect ==
  ASSUME IInv, Next, NEW r \in Runs, wire[r] # "applied", wire'[r] = "applied"
  PROVE  Land(r)
<1>0. TypeOK /\ \A s \in Runs : Phase(s)
  BY DEF IInv
<1>1. ASSUME NEW s \in Runs, Step(s) \/ Receive(s) \/ Crash(s)
      PROVE  FALSE
  <2>1. CASE s # r
    BY <1>0, <1>1, <2>1, OthersKeep DEF Same
  <2>2. CASE s = r
    <3>1. CASE Send(r)
      BY <1>0, <3>1 DEF Send, TypeOK
    <3>2. CASE ~Send(r)
      <4>1. UNCHANGED wire
        BY <1>1, <2>2, <3>2
        DEF Step, Receive, Crash, Begin, TakeLock, ReadNext, ReadFails, Validate,
            SaveSnapshot, Plan, Authorize, RecheckIdentity, RefetchNext,
            RefetchFails, CheckFresh, RecordAttempt, VerifyNext, Judge, VerifyFails,
            Reconcile, Complete, Proceed, Refuse, network
      <4>2. QED
        BY <4>1
    <3>3. QED
      BY <3>1, <3>2
  <2>3. QED
    BY <2>1, <2>2
<1>2. CASE Edit \/ Tick
  BY <1>2 DEF Edit, Tick, network
<1>3. ASSUME NEW s \in Runs, Accept(s) \/ Reject(s) \/ (Land(s) /\ s # r)
      PROVE  FALSE
  BY <1>0, <1>3, SMTT(30) DEF Accept, Reject, Land, TypeOK
<1>4. QED
  BY <1>1, <1>2, <1>3 DEF Next, Environment

\* The step by which a run records APPLIED.
LEMMA AppliedIsVerified ==
  ASSUME IInv, Next, NEW r \in Runs,
         journal[r] = "WRITE_ATTEMPTED", journal'[r] = "APPLIED"
  PROVE  pc[r] = "completing" /\ mem[r].verified
<1>0. TypeOK
  BY DEF IInv
<1>1. ASSUME NEW s \in Runs, Step(s) \/ Receive(s) \/ Crash(s)
      PROVE  s = r /\ Complete(r)
  <2>1. s = r
    BY <1>0, <1>1, OthersKeep DEF Same
  <2>2. ASSUME NEW result, journal' = [journal EXCEPT ![r] = result]
        PROVE  result = "APPLIED"
    BY <1>0, <2>2 DEF TypeOK
  <2>3. CASE Plan(r) \/ Authorize(r) \/ RecheckIdentity(r) \/ RefetchFails(r)
             \/ CheckFresh(r) \/ RecordAttempt(r)
    <3>1. CASE UNCHANGED journal
      BY <3>1
    <3>2. CASE ~UNCHANGED journal
      BY <2>2, <2>3, <3>2
      DEF Plan, Authorize, RecheckIdentity, RefetchFails, CheckFresh, RecordAttempt,
          Proceed, Refuse, disk
    <3>3. QED
      BY <3>1, <3>2
  <2>4. CASE \/ Begin(r) \/ TakeLock(r) \/ ReadNext(r) \/ ReadFails(r) \/ Validate(r)
             \/ SaveSnapshot(r) \/ RefetchNext(r) \/ Send(r) \/ VerifyNext(r)
             \/ Judge(r) \/ VerifyFails(r) \/ Receive(r) \/ Crash(r)
    <3>1. UNCHANGED journal
      BY <2>4
      DEF Begin, TakeLock, ReadNext, ReadFails, Validate, SaveSnapshot, RefetchNext,
          Send, VerifyNext, Judge, VerifyFails, Reconcile, Receive, Crash, disk
    <3>2. QED
      BY <3>1
  <2>5. QED
    BY <1>1, <2>1, <2>3, <2>4 DEF Step
<1>2. ASSUME \/ \E s \in Runs : Accept(s) \/ Reject(s) \/ Land(s)
             \/ Edit \/ Tick
      PROVE  FALSE
  <2>1. UNCHANGED journal
    BY <1>2 DEF Accept, Reject, Land, Edit, Tick, disk
  <2>2. QED
    BY <2>1
<1>3. Complete(r)
  BY <1>1, <1>2 DEF Next, Environment
<1>4. Verdict(r) = "APPLIED"
  BY <1>0, <1>3 DEF Complete, TypeOK
<1>5. QED
  BY <1>3, <1>4 DEF Complete, Verdict

-----------------------------------------------------------------------------
(* What a request in flight was approved for, in every family of operations *)
(* whose precondition covers what its approval and its snapshot are made    *)
(* of, and none of whose fields move by themselves.                         *)

Covering ==
    /\ \A op \in Operations, d \in Datasets : \A c, s :
         View(op, d, c, s) = View(op, d, c, Unread)
    /\ \A op \in Operations : \A s, t :
         Precondition(op, s) = Precondition(op, t) =>
           /\ ApprovalMaterial(op, s) = ApprovalMaterial(op, t)
           /\ SnapshotValue(op, s) = SnapshotValue(op, t)
    /\ \A c : Ticks(c) = {}

\* What the first n GETs of read_state give if the configuration rests.
Gathered(op, n, c) ==
    [d \in Datasets |->
        IF \E i \in 1 .. n : ReadState(op)[i] = d
        THEN View(op, d, c, Unread) ELSE NoView]

\* The run has what its approval and its snapshot are about.
Saved(r, looked) == snap[r] = SnapshotValue(Op(r), looked)
Granted(r, looked) ==
    cmd[r].approval = ApprovalToken(Op(r), cmd[r].identity, looked)

\* The refetch of a run nobody has disturbed is the configuration there is.
UpToDate(r) ==
    /\ pc[r] = "refetching" =>
         /\ mem[r].fresh = Gathered(Op(r), mem[r].got, ctl)
         /\ mem[r].got > 0 => mem[r].fresh # Unread
    /\ pc[r] = "comparing" => mem[r].fresh = Look(Op(r), ctl)
    /\ pc[r] \in {"comparing", "attempting", "sending"} => mem[r].fresh # Unread
    /\ pc[r] \in {"attempting", "sending"} \/ wire[r] \in {"sent", "accepted"} =>
         Granted(r, Look(Op(r), ctl)) /\ Saved(r, Look(Op(r), ctl))

Course(r) ==
    /\ pc[r] \in {"recording", "authorizing"} \cup Approved => Saved(r, mem[r].seen)
    /\ pc[r] \in Approved => Granted(r, mem[r].seen)
    /\ "freshness" \notin touched[r] => UpToDate(r)

LEMMA GatheredNone ==
  ASSUME NEW op, NEW c
  PROVE  Gathered(op, 0, c) = Unread
  BY DEF Gathered, Unread

LEMMA GatheredNext ==
  ASSUME NEW op \in Operations, NEW n \in Nat, n < Len(ReadState(op)), NEW c
  PROVE  /\ Gathered(op, n + 1, c) =
              [Gathered(op, n, c) EXCEPT
                 ![ReadState(op)[n + 1]] = View(op, ReadState(op)[n + 1], c, Unread)]
         /\ n + 1 = Len(ReadState(op)) => Gathered(op, n + 1, c) = Look(op, c)
         /\ ReadState(op)[n + 1] \in Datasets
<1>2. ReadState(op)[n + 1] \in Datasets
  BY ReadAssumption
<1>3. \A d \in Datasets : (\E i \in 1 .. n + 1 : ReadState(op)[i] = d) <=>
        (d = ReadState(op)[n + 1] \/ \E i \in 1 .. n : ReadState(op)[i] = d)
  OBVIOUS
<1>4. QED
  BY <1>2, <1>3 DEF Gathered, Look

LEMMA InitCourse == Init => \A r \in Runs : Course(r)
  BY DEF Init, Course, UpToDate, Approved, Recorded, Sent

LEMMA CourseKept ==
  ASSUME NEW s \in Runs, Course(s), Same(s), UNCHANGED controller
  PROVE  Course(s)'
  BY DEF Same, controller, Course, UpToDate, Saved, Granted, Op

\* The end of a process leaves the request with what it was approved for.
LEMMA CourseEnds ==
  ASSUME TypeOK, NEW r \in Runs, Course(r), NEW where \in Ended, NEW words,
         Exit(r, where, words), snap'[r] = snap[r], wire'[r] = wire[r],
         UNCHANGED controller
  PROVE  Course(r)'
<1>1. pc'[r] = where /\ cmd'[r] = cmd[r]
  BY ExitForgets
<1>2. QED
  BY <1>1 DEF controller, Course, UpToDate, Saved, Granted, Op, Ended, Approved,
              Recorded, Sent

LEMMA CourseStep ==
  ASSUME Covering, IInv, NEW r \in Runs, Memory(r), Course(r),
         Step(r) \/ Receive(r) \/ Crash(r)
  PROVE  Course(r)'
<1>0. /\ mem[r].got \in Nat /\ DOMAIN mem = Runs /\ r \in DOMAIN pc
      /\ DOMAIN snap = Runs /\ r \in DOMAIN journal /\ r \in DOMAIN wire
      /\ DOMAIN mem[r] = DOMAIN Blank /\ TypeOK /\ Op(r) \in Operations
      /\ Phase(r)
  BY DEF IInv, TypeOK, Op
<1>x. UNCHANGED controller
  BY <1>0, OthersKeep
<1>1. ASSUME \/ Exit(r, "done", "ERROR") \/ Exit(r, "done", "PLAN")
             \/ Exit(r, "done", Verdict(r)) \/ Exit(r, "crashed", "none"),
             snap' = snap, wire' = wire
      PROVE  Course(r)'
  BY <1>0, <1>1, <1>x, CourseEnds DEF Ended
<1>2. CASE Begin(r)
  BY <1>0, <1>2, <1>x, SMTT(30)
  DEF Begin, Goto, Course, UpToDate, Phase, Unrecorded, Approved, Recorded, Sent, network
<1>3. CASE TakeLock(r)
  <2>1. CASE Goto(r, "reading") /\ UNCHANGED <<cmd, mem, snap, wire>>
    BY <1>0, <1>3, <1>x, <2>1, SMTT(30)
    DEF TakeLock, Goto, Course, UpToDate, Phase, Unrecorded, Approved, Recorded, Sent
  <2>2. QED
    BY <1>1, <1>3, <2>1 DEF TakeLock, disk, network
<1>4. CASE ReadNext(r)
  <2>1. pc[r] = "reading" /\ pc'[r] \in {"reading", "validating"} /\ wire' = wire
    BY <1>0, <1>4, SMTT(30) DEF ReadNext, Goto, network
  <2>2. QED
    BY <1>0, <1>x, <2>1 DEF Course, UpToDate, Phase, Unrecorded, Approved, Recorded, Sent
<1>5. CASE Validate(r)
  <2>1. CASE Goto(r, "saving") /\ UNCHANGED <<wire>> /\ pc[r] = "validating"
    BY <1>0, <1>x, <2>1 DEF Goto, Course, UpToDate, Phase, Unrecorded, Approved, Recorded, Sent
  <2>2. QED
    BY <1>1, <1>5, <2>1 DEF Validate, disk, network
<1>6. CASE SaveSnapshot(r)
  <2>1. CASE /\ snap' = [snap EXCEPT ![r] = SnapshotValue(Op(r), mem[r].seen)]
             /\ Goto(r, "recording") /\ UNCHANGED <<cmd, mem, wire>> /\ pc[r] = "saving"
    BY <1>0, <1>x, <2>1
    DEF Goto, Course, UpToDate, Phase, Unrecorded, Approved, Recorded, Sent, Saved, Op
  <2>2. QED
    BY <1>1, <1>6, <2>1 DEF SaveSnapshot, network
<1>7. CASE Plan(r)
  <2>1. CASE /\ Goto(r, "authorizing") /\ UNCHANGED <<cmd, mem, wire, snap>>
             /\ pc[r] = "recording"
    BY <1>0, <1>x, <2>1
    DEF Goto, Course, UpToDate, Phase, Unrecorded, Approved, Recorded, Sent, Saved, Op
  <2>2. QED
    BY <1>1, <1>7, <2>1 DEF Plan, network
<1>8. CASE Authorize(r)
  <2>1. CASE Authorized(r) /\ Proceed(r, "identifying")
    <3>1. pc[r] = "authorizing" /\ Granted(r, mem[r].seen)
      BY <1>8, <2>1 DEF Authorize, Authorized, Granted
    <3>2. QED
      BY <1>0, <1>x, <2>1, <3>1
      DEF Proceed, Goto, Course, UpToDate, Phase, Approved, Recorded, Sent, Saved,
          Granted, Op, disk, network
  <2>2. QED
    BY <1>1, <1>8, <2>1 DEF Authorize, Refuse, network
<1>9. CASE RecheckIdentity(r)
  <2>1. CASE Proceed(r, "refetching") /\ pc[r] = "identifying"
    <3>1. /\ mem[r].fresh = Gathered(Op(r), 0, ctl) /\ mem[r].got = 0
      BY <2>1, GatheredNone DEF Memory, Planning
    <3>2. QED
      BY <1>0, <1>x, <2>1, <3>1
      DEF Proceed, Goto, Course, UpToDate, Phase, Approved, Recorded, Sent, Saved,
          Granted, Op, disk, network, controller
  <2>2. QED
    BY <1>1, <1>9, <2>1 DEF RecheckIdentity, Refuse, network
<1>10. CASE RefetchNext(r)
  <2> DEFINE d == ReadState(Op(r))[mem[r].got + 1]
             n == mem[r].got
             last == mem[r].got + 1 >= Len(ReadState(Op(r)))
             view == View(Op(r), d, ctl, mem[r].fresh)
  <2>0. n < Len(ReadState(Op(r))) /\ n \in Nat /\ pc[r] = "refetching"
    BY <1>0, <1>10 DEF Memory, RefetchNext
  <2>1. d \in Datasets /\ view = View(Op(r), d, ctl, Unread) /\ view # NoView
    BY <1>0, <1>10, <2>0, GatheredNext DEF RefetchNext, Covering
  <2>2. /\ pc'[r] = IF last THEN "comparing" ELSE "refetching"
        /\ mem'[r].fresh = [mem[r].fresh EXCEPT ![d] = view]
        /\ mem'[r].got = IF last THEN 0 ELSE n + 1
        /\ mem'[r].seen = mem[r].seen
        /\ cmd' = cmd /\ snap' = snap /\ wire' = wire
    BY <1>0, <1>10, SMTT(30) DEF RefetchNext, Goto, Blank, disk, network
  <2>3. mem'[r].fresh # Unread
    BY <2>1, <2>2 DEF Memory, Unread
  <2>4. CASE "freshness" \in touched[r]
    BY <1>0, <1>x, <2>0, <2>2, <2>4
    DEF controller, Course, Approved, Recorded, Sent, Saved, Granted, Op
  <2>5. CASE "freshness" \notin touched[r]
    <3>1. mem[r].fresh = Gathered(Op(r), n, ctl)
      BY <2>0, <2>5 DEF Course, UpToDate
    <3>2. mem'[r].fresh = Gathered(Op(r), n + 1, ctl)
      <4>1. Gathered(Op(r), n + 1, ctl) =
              [Gathered(Op(r), n, ctl) EXCEPT ![d] = View(Op(r), d, ctl, Unread)]
        BY <1>0, <2>0, GatheredNext
      <4> HIDE DEF d, view, last
      <4>2. QED
        BY <2>1, <2>2, <3>1, <4>1
    <3>3. last => mem'[r].fresh = Look(Op(r), ctl)
      <4>1. Len(ReadState(Op(r))) \in Nat
        BY <1>0, ReadAssumption
      <4>2. last => n + 1 = Len(ReadState(Op(r)))
        BY <2>0, <4>1
      <4>3. QED
        BY <1>0, <2>0, <3>2, <4>2, GatheredNext
    <3>4. wire[r] = "idle"
      BY <1>0, <2>0 DEF Phase, Recorded
    <3> HIDE DEF last, d, view
    <3>5. UpToDate(r)'
      BY <1>x, <2>0, <2>2, <2>3, <3>2, <3>3, <3>4 DEF controller, UpToDate, Op
    <3>6. QED
      BY <1>x, <2>0, <2>2, <3>5
      DEF controller, Course, Approved, Recorded, Sent, Saved, Granted, Op
  <2>6. QED
    BY <2>4, <2>5
<1>11. CASE ReadFails(r) \/ RefetchFails(r) \/ Complete(r) \/ Crash(r)
  BY <1>1, <1>11 DEF ReadFails, RefetchFails, Complete, Crash, Refuse, disk, network
<1>12. CASE CheckFresh(r)
  <2>1. CASE Unchanged(r) /\ Proceed(r, "attempting") /\ pc[r] = "comparing"
    <3>1. Granted(r, mem[r].seen) /\ Saved(r, mem[r].seen)
      BY <2>1 DEF Course, Approved, Recorded
    <3>2. Granted(r, mem[r].fresh) /\ Saved(r, mem[r].fresh)
      BY <1>0, <2>1, <3>1 DEF Covering, Unchanged, Granted, Saved, ApprovalToken
    <3>3. wire[r] = "idle"
      BY <1>0, <2>1 DEF Phase, Recorded
    <3>4. /\ pc'[r] = "attempting"
          /\ UNCHANGED <<cmd, mem, snap, wire>>
      BY <1>0, <2>1 DEF Proceed, Goto, disk, network
    <3>5. "freshness" \notin touched[r] => UpToDate(r)'
      BY <1>x, <2>1, <3>2, <3>3, <3>4 DEF controller, Course, UpToDate, Op, Granted, Saved
    <3>6. QED
      BY <1>x, <3>1, <3>4, <3>5
      DEF controller, Course, Approved, Recorded, Sent, Saved, Granted, Op
  <2>2. QED
    BY <1>1, <1>12, <2>1 DEF CheckFresh, Refuse, network
<1>13. CASE RecordAttempt(r)
  BY <1>0, <1>13, <1>x, SMTT(30)
  DEF RecordAttempt, Goto, Course, UpToDate, Phase, Approved, Recorded, Sent, Saved,
      Granted, Op, network, controller
<1>14. CASE Send(r)
  <2>1. /\ pc[r] = "sending" /\ pc'[r] = "waiting" /\ wire'[r] = "sent"
        /\ UNCHANGED <<cmd, mem, snap>>
    BY <1>0, <1>14 DEF Send, Goto, disk
  <2>2. QED
    BY <1>x, <2>1
    DEF Course, UpToDate, Approved, Recorded, Sent, Saved, Granted, Op, controller
<1>15. CASE Receive(r)
  <2>1. /\ pc[r] = "waiting" /\ pc'[r] = "verifying"
        /\ mem'[r].seen = mem[r].seen /\ UNCHANGED <<cmd, snap, wire>>
    BY <1>0, <1>15, SMTT(30) DEF Receive, Goto, Blank, disk, network
  <2>2. QED
    BY <1>x, <2>1
    DEF Course, UpToDate, Approved, Recorded, Sent, Saved, Granted, Op, controller
<1>16. CASE VerifyNext(r) \/ Judge(r) \/ VerifyFails(r)
  <2>1. /\ pc[r] = "verifying" /\ pc'[r] \in {"verifying", "completing"}
        /\ mem'[r].seen = mem[r].seen /\ UNCHANGED <<cmd, snap, wire>>
    BY <1>0, <1>16, SMTT(30)
    DEF VerifyNext, Judge, VerifyFails, Reconcile, Goto, Blank, disk, network
  <2>2. QED
    BY <1>x, <2>1
    DEF Course, UpToDate, Approved, Recorded, Sent, Saved, Granted, Op, controller
<1>17. QED
  BY <1>2, <1>3, <1>4, <1>5, <1>6, <1>7, <1>8, <1>9, <1>10, <1>11, <1>12, <1>13,
     <1>14, <1>15, <1>16 DEF Step

\* An edit, and a request of another run that takes effect, mark the run as
\* disturbed if it has begun its refetch.
LEMMA CourseDisturbed ==
  ASSUME TypeOK, NEW s \in Runs, Memory(s), Phase(s), Course(s), Same(s),
         NEW others \in SUBSET Runs, s \in others, Disturb(others)
  PROVE  Course(s)'
<1>1. touched'[s] = touched[s]
         \cup (IF ReadBegun(s) THEN {"read_state"} ELSE {})
         \cup (IF RefetchBegun(s) THEN {"freshness"} ELSE {})
  BY DEF Disturb
<1>2. CASE "freshness" \in touched'[s]
  BY <1>2 DEF Same, Course, Saved, Granted, Op
<1>3. CASE "freshness" \notin touched'[s]
  <2>1. "freshness" \notin touched[s] /\ ~RefetchBegun(s) /\ UpToDate(s)
    BY <1>1, <1>3 DEF Course
  <2>2. /\ wire[s] \notin {"sent", "accepted"}
        /\ pc[s] \notin {"comparing", "attempting", "sending"}
        /\ pc[s] = "refetching" => mem[s].fresh = Unread /\ mem[s].got = 0
    <3>1. pc[s] \in {"refetching", "comparing", "attempting", "sending"} =>
            mem[s].fresh = Unread
      BY <2>1 DEF RefetchBegun, Working
    <3>2. mem[s].got \in Nat
      BY DEF TypeOK
    <3>3. QED
      BY <2>1, <3>1, <3>2 DEF RefetchBegun, UpToDate
  <2>3. \A c : Gathered(Op(s), 0, c) = Unread
    BY GatheredNone
  <2>4. UpToDate(s)'
    BY <2>2, <2>3 DEF Same, UpToDate, Op
  <2>5. QED
    BY <2>4 DEF Same, Course, Saved, Granted, Op
<1>4. QED
  BY <1>2, <1>3

LEMMA CourseOutside ==
  ASSUME Covering, IInv, \A s \in Runs : Memory(s) /\ Course(s),
         \/ \E r \in Runs : Accept(r) \/ Reject(r) \/ Land(r)
         \/ Edit \/ Tick
  PROVE  \A s \in Runs : Memory(s)' /\ Course(s)'
<1>0. TypeOK /\ \A s \in Runs : Phase(s)
  BY DEF IInv
<1>1. UNCHANGED <<process, disk>>
  BY DEF Accept, Reject, Land, Edit, Tick
<1>2. \A s \in Runs : Memory(s)'
  BY <1>1 DEF process, Memory, Op
<1>3. ASSUME NEW r \in Runs, Accept(r) \/ Reject(r), NEW s \in Runs
      PROVE  Course(s)'
  <2>1. /\ wire'[s] \in {"sent", "accepted"} => wire[s] \in {"sent", "accepted"}
        /\ UNCHANGED <<process, disk, controller>>
    BY <1>0, <1>3, SMTT(30) DEF Accept, Reject, TypeOK
  <2>2. QED
    BY <2>1 DEF process, disk, controller, Course, UpToDate, Saved, Granted, Op
<1>4. ASSUME NEW r \in Runs, Land(r), NEW s \in Runs
      PROVE  Course(s)'
  <2>1. CASE s = r
    <3>1. wire[r] = "accepted" /\ wire'[r] = "applied" /\ touched'[r] = touched[r]
      BY <1>0, <1>4, SMTT(30) DEF Land, Disturb, TypeOK
    <3>2. pc[r] \notin {"refetching", "comparing", "attempting", "sending"}
      BY <1>0, <3>1 DEF Phase, Recorded
    <3>3. QED
      BY <1>1, <2>1, <3>1, <3>2
      DEF process, disk, Course, UpToDate, Saved, Granted, Op
  <2>2. CASE s # r
    <3>1. Same(s)
      BY <1>0, <1>1, <1>4, <2>2, SMTT(30) DEF Same, Land, TypeOK, process, disk
    <3>2. QED
      BY <1>0, <1>4, <2>2, <3>1, CourseDisturbed DEF Land
  <2>3. QED
    BY <2>1, <2>2
<1>5. ASSUME Edit, NEW s \in Runs
      PROVE  Course(s)'
  <2>1. Same(s)
    BY <1>1, <1>5 DEF Same, Edit, process, disk, network
  <2>2. CASE Disturb(Runs)
    BY <1>0, <2>1, <2>2, CourseDisturbed
  <2>3. CASE UNCHANGED <<ctl, touched>>
    BY <2>1, <2>3 DEF Same, Course, UpToDate, Saved, Granted, Op
  <2>4. QED
    BY <1>5, <2>2, <2>3 DEF Edit
<1>6. CASE Tick
  BY <1>6 DEF Tick, Covering
<1>7. QED
  BY <1>2, <1>3, <1>4, <1>5, <1>6

\* Memory and course of every run, next to the invariant of the engine.
CInv == IInv /\ \A r \in Runs : Memory(r) /\ Course(r)

LEMMA NextCourse ==
  ASSUME Covering, CInv, [Next]_vars
  PROVE  CInv'
<1>1. IInv'
  BY NextInv DEF CInv
<1>2. ASSUME NEW r \in Runs, Step(r) \/ Receive(r) \/ Crash(r), NEW s \in Runs
      PROVE  Memory(s)' /\ Course(s)'
  <2>1. CASE s = r
    BY <1>2, <2>1, MemoryStep, CourseStep DEF CInv, IInv
  <2>2. CASE s # r
    <3>1. Same(s) /\ UNCHANGED controller
      BY <1>2, <2>2, OthersKeep DEF CInv, IInv
    <3>2. Memory(s)'
      BY <3>1 DEF CInv, Same, Memory, Op
    <3>3. QED
      BY <3>1, <3>2, CourseKept DEF CInv
  <2>3. QED
    BY <2>1, <2>2
<1>3. CASE UNCHANGED vars
  <2>1. ASSUME NEW s \in Runs
        PROVE  Same(s) /\ UNCHANGED controller
    BY <1>3 DEF Same, vars, process, disk, network, controller
  <2>2. ASSUME NEW s \in Runs
        PROVE  Memory(s)' /\ Course(s)'
    <3>1. Memory(s) /\ Course(s)
      BY DEF CInv
    <3>2. Memory(s)'
      BY <2>1, <3>1 DEF Same, Memory, Op
    <3>3. QED
      BY <2>1, <3>1, <3>2, CourseKept
  <2>3. QED
    BY <1>1, <2>2 DEF CInv
<1>4. QED
  BY <1>1, <1>2, <1>3, CourseOutside DEF Next, Environment, CInv

LEMMA CourseSuffices == CInv => WritesWhatWasApproved /\ SnapshotIsWhatIsReplaced
  BY DEF CInv, Course, UpToDate, Saved, Granted, WritesWhatWasApproved,
         SnapshotIsWhatIsReplaced

LEMMA CourseInvariant ==
  ASSUME Covering
  PROVE  Spec => []CInv
<1>1. Init => CInv
  BY InitInv, InitMemory, InitCourse DEF CInv
<1>2. CInv /\ [Next]_vars => CInv'
  BY NextCourse
<1>3. QED
  BY <1>1, <1>2, PTL DEF Spec

\* In a family whose precondition covers approval and snapshot, a request that
\* nobody disturbs changes the configuration its token approves and its
\* snapshot has saved, with any number of runs, edits and kills.
THEOREM CoveredCourse ==
  ASSUME Covering
  PROVE  Spec => [](WritesWhatWasApproved /\ SnapshotIsWhatIsReplaced)
  BY CourseInvariant, CourseSuffices, PTL

-----------------------------------------------------------------------------
(* How many steps a run can still take.                                     *)

\* The verifications a run has tried, and what it has read in the current one.
Counted(r) ==
    /\ pc[r] \notin {"verifying", "completing"} => mem[r].tries = 0
    /\ pc[r] = "verifying" => mem[r].tries < Polls(Op(r))

\* Where a run that has begun goes, and how it counts its verifications.
Onward(r) ==
    \/ pc'[r] \in Ended
    \/ pc[r] = "locking" /\ pc'[r] = "reading"
    \/ pc'[r] \notin {"locking"} \cup Ended /\ pc[r] # "locking"

Tallies(r) ==
    \/ /\ mem'[r].tries = mem[r].tries /\ cmd'[r] = cmd[r]
       /\ pc[r] # "completing" /\ pc'[r] # "completing"
       /\ pc'[r] = "verifying" => pc[r] \in {"waiting", "verifying"}
       /\ pc[r] = "verifying" => pc'[r] = "verifying" /\ mem'[r].got = mem[r].got + 1
    \/ /\ pc[r] = "verifying" /\ mem'[r].tries = mem[r].tries + 1
       /\ mem'[r].got = 0 /\ cmd'[r] = cmd[r]
       /\ \/ pc'[r] = "completing"
          \/ pc'[r] = "verifying" /\ mem[r].tries + 1 < Attempts(Op(r))

LEMMA OwnMoves ==
  ASSUME IInv, NEW r \in Runs, pc[r] # "idle", Step(r) \/ Receive(r) \/ Crash(r)
  PROVE  Onward(r) /\ (pc'[r] \in Ended \/ Tallies(r))
<1> USE DEF Ended
<1>0. /\ TypeOK /\ DOMAIN mem = Runs /\ r \in DOMAIN pc
      /\ DOMAIN mem[r] = DOMAIN Blank
      /\ mem[r].got \in Nat /\ mem[r].tries \in Nat
  BY DEF IInv, TypeOK
<1>1. ASSUME NEW where \in Ended, NEW words, Exit(r, where, words)
      PROVE  pc'[r] \in Ended
  BY <1>0, <1>1, ExitForgets
<1>2. CASE ReadFails(r) \/ RefetchFails(r) \/ Complete(r) \/ Crash(r)
  BY <1>1, <1>2 DEF ReadFails, RefetchFails, Refuse, Complete, Crash, Onward
<1>3. ASSUME NEW where, Goto(r, where), UNCHANGED <<cmd, mem>>,
             where \notin {"idle", "locking", "verifying", "completing"} \cup Ended,
             pc[r] \notin {"verifying", "completing"},
             pc[r] = "locking" => where = "reading"
      PROVE  Onward(r) /\ Tallies(r)
  BY <1>0, <1>3 DEF Goto, Onward, Tallies
<1>4. CASE TakeLock(r)
  BY <1>1, <1>3, <1>4 DEF TakeLock, Onward
<1>5. CASE ReadNext(r)
  <2>1. /\ pc[r] = "reading" /\ pc'[r] \in {"reading", "validating"}
        /\ mem'[r].tries = mem[r].tries /\ cmd' = cmd
    BY <1>0, <1>5, SMTT(30) DEF ReadNext, Goto, Blank
  <2>2. QED
    BY <2>1 DEF Onward, Tallies
<1>6. CASE Validate(r) \/ SaveSnapshot(r)
  BY <1>1, <1>3, <1>6 DEF Validate, SaveSnapshot, Onward
<1>7. CASE Plan(r)
  BY <1>1, <1>3, <1>7 DEF Plan, Onward
<1>8. CASE Authorize(r) \/ RecheckIdentity(r) \/ CheckFresh(r) \/ RecordAttempt(r) \/ Send(r)
  BY <1>1, <1>3, <1>8
  DEF Authorize, RecheckIdentity, CheckFresh, RecordAttempt, Send, Proceed, Refuse, Onward
<1>9. CASE RefetchNext(r)
  <2>1. /\ pc[r] = "refetching" /\ pc'[r] \in {"refetching", "comparing"}
        /\ mem'[r].tries = mem[r].tries /\ cmd' = cmd
    BY <1>0, <1>9, SMTT(30) DEF RefetchNext, Goto, Blank
  <2>2. QED
    BY <2>1 DEF Onward, Tallies
<1>10. CASE Receive(r)
  <2>1. /\ pc[r] = "waiting" /\ pc'[r] = "verifying"
        /\ mem'[r].tries = mem[r].tries /\ cmd' = cmd
    BY <1>0, <1>10, SMTT(30) DEF Receive, Goto, Blank
  <2>2. QED
    BY <2>1 DEF Onward, Tallies
<1>11. CASE VerifyNext(r)
  <2>1. /\ pc[r] = "verifying" /\ pc'[r] = "verifying"
        /\ mem'[r].tries = mem[r].tries /\ mem'[r].got = mem[r].got + 1 /\ cmd' = cmd
    BY <1>0, <1>11, SMTT(30) DEF VerifyNext, Blank
  <2>2. QED
    BY <2>1 DEF Onward, Tallies
<1>12. CASE Judge(r) \/ VerifyFails(r)
  <2>1. PICK verified, several : Reconcile(r, verified, several)
    BY <1>12 DEF Judge, VerifyFails
  <2>2. /\ pc[r] = "verifying" /\ cmd' = cmd
        /\ mem'[r].tries = mem[r].tries + 1 /\ mem'[r].got = 0
        /\ pc'[r] \in {"verifying", "completing"}
        /\ pc'[r] = "verifying" => ~(mem[r].tries + 1 >= Attempts(Op(r)))
    BY <1>0, <1>12, <2>1, SMTT(30) DEF Judge, VerifyFails, Reconcile, Goto, Blank
  <2>3. Attempts(Op(r)) \in Nat
    BY <1>0, ReadAssumption DEF TypeOK, Op
  <2>4. QED
    BY <1>0, <2>2, <2>3 DEF Onward, Tallies
<1>13. ~Begin(r)
  BY DEF Begin
<1>14. QED
  BY <1>2, <1>4, <1>5, <1>6, <1>7, <1>8, <1>9, <1>10, <1>11, <1>12, <1>13 DEF Step

LEMMA CountedStep ==
  ASSUME IInv, NEW r \in Runs, Memory(r), Counted(r), Step(r) \/ Receive(r) \/ Crash(r)
  PROVE  Counted(r)'
<1>1. Memory(r)' /\ TypeOK
  BY MemoryStep DEF IInv
<1>2. CASE pc[r] = "idle"
  <2>1. pc'[r] \in {"locking"} \cup Ended
    BY <1>1, <1>2
    DEF Step, Receive, Crash, Begin, TakeLock, ReadNext, ReadFails, Validate, SaveSnapshot,
        Plan, Authorize, RecheckIdentity, RefetchNext, RefetchFails, CheckFresh,
        RecordAttempt, Send, VerifyNext, Judge, VerifyFails, Complete, Goto, Exit, TypeOK,
        Working, Ended
  <2>2. QED
    BY <1>1, <2>1, BlankShape DEF Counted, Memory, Ended
<1>3. CASE pc[r] # "idle"
  <2>1. CASE pc'[r] \in Ended
    BY <1>1, <2>1, BlankShape DEF Counted, Memory, Ended
  <2>2. CASE pc'[r] \notin Ended
    <3>1. Tallies(r) /\ Op(r) \in Operations /\ mem[r].tries \in Nat
      BY <1>1, <1>3, <2>2, OwnMoves DEF TypeOK, Op
    <3>2. Attempts(Op(r)) \in Nat
      BY <3>1, ReadAssumption
    <3>3. Op(r)' = Op(r)
      BY <3>1 DEF Tallies, Op
    <3>4. QED
      BY <3>1, <3>2, <3>3 DEF Tallies, Counted, Polls
  <2>3. QED
    BY <2>1, <2>2
<1>4. QED
  BY <1>2, <1>3

NInv == IInv /\ \A r \in Runs : Memory(r) /\ Counted(r)

LEMMA NextCounted ==
  ASSUME NInv, [Next]_vars
  PROVE  NInv'
<1>1. IInv'
  BY NextInv DEF NInv
<1>2. ASSUME NEW s \in Runs, pc'[s] = pc[s], cmd'[s] = cmd[s], mem'[s] = mem[s]
      PROVE  Memory(s)' /\ Counted(s)'
  BY <1>2 DEF NInv, Memory, Counted, Op
<1>3. ASSUME NEW r \in Runs, Step(r) \/ Receive(r) \/ Crash(r), NEW s \in Runs
      PROVE  Memory(s)' /\ Counted(s)'
  <2>1. CASE s = r
    BY <1>3, <2>1, MemoryStep, CountedStep DEF NInv, IInv
  <2>2. CASE s # r
    BY <1>2, <1>3, <2>2, OthersKeep DEF NInv, IInv, Same
  <2>3. QED
    BY <2>1, <2>2
<1>4. CASE \/ \E r \in Runs : Accept(r) \/ Reject(r) \/ Land(r)
           \/ Edit \/ Tick \/ UNCHANGED vars
  <2>1. UNCHANGED process
    BY <1>4 DEF Accept, Reject, Land, Edit, Tick, vars
  <2>2. QED
    BY <1>1, <1>2, <2>1 DEF NInv, process
<1>5. QED
  BY <1>1, <1>3, <1>4 DEF Next, Environment, NInv

\* The steps of the verifications that are left.
LEMMA PollsLeft ==
  ASSUME NEW n \in Nat, NEW t \in Nat, NEW p \in Nat, t < n
  PROVE  /\ (n - t) * p \in Nat /\ (n - t) * p >= p
         /\ (n - (t + 1)) * p = (n - t) * p - p
         /\ (n - 0) * p = n * p
<1>1. PICK k \in Nat : n - t = k + 1
  BY n - t - 1 \in Nat
<1>2. (k + 1) * p = k * p + p /\ k * p \in Nat
  OBVIOUS
<1>3. n - (t + 1) = k
  BY <1>1
<1>4. QED
  BY <1>1, <1>2, <1>3

ReadCount(op) == Len(ReadState(op))
Poll(op) == Len(VerifyReads(op)) + 1
AllPolls(op) == Polls(op) * Poll(op)
PollsToGo(op, got, tries) == (Polls(op) - tries) * Poll(op) - got

LEMMA ByPlace ==
  ASSUME NEW op, NEW got, NEW tries
  PROVE  /\ Distance(op, "locking", got, tries) = 2 * ReadCount(op) + AllPolls(op) + 11
         /\ Distance(op, "reading", got, tries) =
              2 * ReadCount(op) - got + AllPolls(op) + 10
         /\ Distance(op, "validating", got, tries) = ReadCount(op) + AllPolls(op) + 10
         /\ Distance(op, "saving", got, tries) = ReadCount(op) + AllPolls(op) + 9
         /\ Distance(op, "recording", got, tries) = ReadCount(op) + AllPolls(op) + 8
         /\ Distance(op, "authorizing", got, tries) = ReadCount(op) + AllPolls(op) + 7
         /\ Distance(op, "identifying", got, tries) = ReadCount(op) + AllPolls(op) + 6
         /\ Distance(op, "refetching", got, tries) = ReadCount(op) - got + AllPolls(op) + 5
         /\ Distance(op, "comparing", got, tries) = AllPolls(op) + 5
         /\ Distance(op, "attempting", got, tries) = AllPolls(op) + 4
         /\ Distance(op, "sending", got, tries) = AllPolls(op) + 3
         /\ Distance(op, "waiting", got, tries) = AllPolls(op) + 2
         /\ Distance(op, "verifying", got, tries) = PollsToGo(op, got, tries) + 1
         /\ Distance(op, "completing", got, tries) = 1
<1>1. /\ DOMAIN BeforeRefetch =
           {"validating", "saving", "recording", "authorizing", "identifying"}
      /\ DOMAIN BeforeAnswer = {"comparing", "attempting", "sending", "waiting"}
      /\ BeforeRefetch["validating"] = 10 /\ BeforeRefetch["saving"] = 9
      /\ BeforeRefetch["recording"] = 8 /\ BeforeRefetch["authorizing"] = 7
      /\ BeforeRefetch["identifying"] = 6
      /\ BeforeAnswer["comparing"] = 5 /\ BeforeAnswer["attempting"] = 4
      /\ BeforeAnswer["sending"] = 3 /\ BeforeAnswer["waiting"] = 2
  BY DEF BeforeRefetch, BeforeAnswer
<1>2. QED
  BY <1>1 DEF Distance, ReadCount, Poll, AllPolls, PollsToGo

LEMMA AtRest ==
  ASSUME NEW op, NEW got, NEW tries, NEW place \in {"idle"} \cup Ended
  PROVE  Distance(op, place, got, tries) = 0
<1>1. /\ DOMAIN BeforeRefetch =
           {"validating", "saving", "recording", "authorizing", "identifying"}
      /\ DOMAIN BeforeAnswer = {"comparing", "attempting", "sending", "waiting"}
  BY DEF BeforeRefetch, BeforeAnswer
<1>2. QED
  BY <1>1 DEF Distance, Ended

LEMMA Distances ==
  ASSUME TypeOK, NEW r \in Runs
  PROVE  /\ Op(r) \in Operations /\ mem[r].got \in Nat /\ mem[r].tries \in Nat
         /\ ReadCount(Op(r)) \in Nat \ {0} /\ Poll(Op(r)) \in Nat \ {0}
         /\ Polls(Op(r)) \in Nat \ {0} /\ AllPolls(Op(r)) \in Nat
<1>1. Op(r) \in Operations /\ mem[r].got \in Nat /\ mem[r].tries \in Nat
  BY DEF TypeOK, Op
<1>2. /\ ReadCount(Op(r)) \in Nat \ {0} /\ Poll(Op(r)) \in Nat \ {0}
      /\ Polls(Op(r)) \in Nat \ {0}
  BY <1>1, ReadAssumption DEF Polls, ReadCount, Poll
<1>3. QED
  BY <1>1, <1>2 DEF AllPolls

LEMMA VerifyingToGo ==
  ASSUME TypeOK, NEW r \in Runs, Memory(r), Counted(r), pc[r] = "verifying"
  PROVE  PollsToGo(Op(r), mem[r].got, mem[r].tries) \in Nat
<1>1. /\ (Polls(Op(r)) - mem[r].tries) * Poll(Op(r)) \in Nat
      /\ (Polls(Op(r)) - mem[r].tries) * Poll(Op(r)) >= Poll(Op(r))
  BY Distances, PollsLeft DEF Counted
<1>2. /\ mem[r].got <= Len(VerifyReads(Op(r))) /\ Len(VerifyReads(Op(r))) \in Nat
      /\ Poll(Op(r)) = Len(VerifyReads(Op(r))) + 1
  BY Distances, ReadAssumption DEF Memory, Poll
<1>3. QED
  BY <1>1, <1>2, Distances DEF PollsToGo

\* A run that has begun and not ended has a step to take.
LEMMA StillToGo ==
  ASSUME TypeOK, NEW r \in Runs, Memory(r), Counted(r)
  PROVE  StepsLeft(r) \in Nat /\ (pc[r] \in Working => StepsLeft(r) >= 1)
<1>1. CASE pc[r] = "verifying"
  BY <1>1, VerifyingToGo, ByPlace DEF StepsLeft
<1>2. CASE pc[r] # "verifying"
  <2>1. /\ pc[r] \in {"reading", "refetching"} => mem[r].got < ReadCount(Op(r))
        /\ pc[r] \in {"idle"} \cup Working \cup Ended
    BY DEF Memory, TypeOK, ReadCount
  <2>2. StepsLeft(r) = Distance(Op(r), pc[r], mem[r].got, mem[r].tries)
    BY DEF StepsLeft
  <2>3. CASE pc[r] \in {"reading", "refetching"}
    BY <2>1, <2>2, <2>3, Distances, ByPlace
  <2>4. CASE pc[r] \in {"locking", "validating", "saving", "recording", "authorizing",
                        "identifying"}
    BY <2>2, <2>4, Distances, ByPlace
  <2>5. CASE pc[r] \in {"comparing", "attempting", "sending", "waiting", "completing"}
    BY <2>2, <2>5, Distances, ByPlace
  <2>6. CASE pc[r] \in {"idle"} \cup Ended
    <3>1. StepsLeft(r) = 0 /\ pc[r] \notin Working
      BY <2>2, <2>6, AtRest DEF Working, Ended
    <3>2. QED
      BY <3>1
  <2>7. QED
    BY <1>2, <2>1, <2>3, <2>4, <2>5, <2>6 DEF Working
<1>3. QED
  BY <1>1, <1>2

\* A step of a run that has begun brings it nearer to its end.
LEMMA OwnStepCounts ==
  ASSUME NInv, NEW r \in Runs, pc[r] # "idle", Step(r) \/ Receive(r) \/ Crash(r),
         StepsLeft(r)' \in Nat
  PROVE  StepsLeft(r)' < StepsLeft(r)
<1>0. /\ IInv /\ TypeOK /\ Memory(r) /\ Counted(r)
      /\ StepsLeft(r) \in Nat /\ (pc[r] \in Working => StepsLeft(r) >= 1)
  BY StillToGo DEF NInv, IInv
<1>1. pc[r] \in Working
  BY <1>0
  DEF Step, Receive, Crash, Begin, TakeLock, ReadNext, ReadFails, Validate, SaveSnapshot,
      Plan, Authorize, RecheckIdentity, RefetchNext, RefetchFails, CheckFresh,
      RecordAttempt, Send, VerifyNext, Judge, VerifyFails, Complete, Working
<1>2. CASE pc'[r] \in Ended
  <2>1. StepsLeft(r)' = Distance(Op(r)', pc'[r], mem'[r].got, mem'[r].tries)
    BY DEF StepsLeft
  <2>2. StepsLeft(r)' = 0
    BY <1>2, <2>1, AtRest
  <2>3. QED
    BY <1>0, <1>1, <2>2
<1>3. CASE pc'[r] \notin Ended
  <2> DEFINE op == Op(r)
             got == mem[r].got
             tries == mem[r].tries
  <2>1. Onward(r) /\ Tallies(r)
    BY <1>0, <1>3, OwnMoves
  <2>2. Op(r)' = op /\ cmd'[r] = cmd[r]
    BY <2>1 DEF Tallies, Op
  <2>3. /\ StepsLeft(r) = Distance(op, pc[r], got, tries)
        /\ StepsLeft(r)' = Distance(op, pc'[r], mem'[r].got, mem'[r].tries)
    BY <2>2 DEF StepsLeft
  <2>4. /\ op \in Operations /\ got \in Nat /\ tries \in Nat
        /\ ReadCount(op) \in Nat \ {0} /\ Poll(op) \in Nat \ {0}
        /\ Polls(op) \in Nat \ {0} /\ AllPolls(op) \in Nat
    BY <1>0, Distances
  <2>5. CASE pc[r] = "locking"
    <3>1. pc'[r] = "reading"
      BY <1>3, <2>1, <2>5 DEF Onward
    <3>2. mem'[r].got = 0
      BY <1>0, <2>5, <3>1, OwnStep
      DEF Elsewhere, BeginsReading, ReadsOn, Plans, BeginsRefetch, Refetches, Passes,
          RecordsAttempt, Sends, Hears, Verifies, Concludes, Ended
    <3>3. QED
      BY <2>3, <2>4, <2>5, <3>1, <3>2, ByPlace
  <2>6. CASE ReadsOn(r)
    <3>1. /\ pc[r] = "reading" /\ got < ReadCount(op)
          /\ \/ got + 1 = ReadCount(op) /\ pc'[r] = "validating"
             \/ pc'[r] = "reading" /\ mem'[r].got = got + 1
      BY <2>6 DEF ReadsOn, ReadCount
    <3>2. QED
      BY <2>3, <2>4, <3>1, ByPlace
  <2>7. CASE Plans(r) \/ BeginsRefetch(r)
    <3>1. \/ pc[r] = "validating" /\ pc'[r] = "saving"
          \/ pc[r] = "saving" /\ pc'[r] = "recording"
          \/ pc[r] = "recording" /\ pc'[r] = "authorizing"
          \/ pc[r] = "authorizing" /\ pc'[r] = "identifying"
          \/ pc[r] = "identifying" /\ pc'[r] = "refetching" /\ mem'[r].got = 0
      BY <2>7 DEF Plans, BeginsRefetch
    <3>2. QED
      BY <2>3, <2>4, <3>1, ByPlace
  <2>8. CASE Refetches(r)
    <3>1. /\ pc[r] = "refetching" /\ got < ReadCount(op)
          /\ \/ got + 1 = ReadCount(op) /\ pc'[r] = "comparing"
             \/ pc'[r] = "refetching" /\ mem'[r].got = got + 1
      BY <2>8 DEF Refetches, ReadCount
    <3>2. QED
      BY <2>3, <2>4, <3>1, ByPlace
  <2>9. CASE Passes(r) \/ RecordsAttempt(r) \/ Sends(r)
    BY <2>3, <2>4, <2>9, ByPlace DEF Passes, RecordsAttempt, Sends
  <2>10. CASE Hears(r)
    <3>1. /\ pc[r] = "waiting" /\ pc'[r] = "verifying" /\ mem'[r].got = 0
          /\ mem'[r].tries = 0
      BY <1>0, <2>1, <2>10 DEF Hears, Tallies, Counted
    <3>2. PollsToGo(op, 0, 0) = AllPolls(op)
      BY <2>4 DEF PollsToGo, AllPolls
    <3>3. QED
      BY <2>3, <2>4, <3>1, <3>2, ByPlace
  <2>11. CASE Verifies(r) \/ Concludes(r)
    <3>1. pc[r] = "verifying" /\ pc'[r] \in {"verifying", "completing"}
      BY <2>11 DEF Verifies, Concludes
    <3>2. PollsToGo(op, got, tries) \in Nat /\ tries < Polls(op)
      BY <1>0, <3>1, VerifyingToGo DEF Counted
    <3>3. CASE mem'[r].tries = tries /\ mem'[r].got = got + 1 /\ pc'[r] = "verifying"
      BY <2>3, <2>4, <3>1, <3>3, ByPlace, PollsLeft, <3>2 DEF PollsToGo
    <3>4. CASE mem'[r].tries = tries + 1 /\ mem'[r].got = 0 /\ pc'[r] = "verifying"
      <4>1. (Polls(op) - (tries + 1)) * Poll(op) = (Polls(op) - tries) * Poll(op) - Poll(op)
        BY <2>4, <3>2, PollsLeft
      <4>2. (Polls(op) - tries) * Poll(op) \in Nat
        BY <2>4, <3>2, PollsLeft
      <4>3. got < Poll(op)
        BY <1>0, <2>4, <3>1, ReadAssumption DEF Memory, Poll
      <4>4. PollsToGo(op, 0, tries + 1) < PollsToGo(op, got, tries)
        BY <2>4, <4>1, <4>2, <4>3 DEF PollsToGo
      <4>5. QED
        BY <2>3, <2>4, <3>1, <3>2, <3>4, <4>1, <4>2, <4>4, ByPlace DEF PollsToGo
    <3>5. CASE pc'[r] = "completing"
      <4>1. PollsToGo(op, got, tries) >= 1
        <5>1. got < Poll(op)
          BY <1>0, <2>4, <3>1, ReadAssumption DEF Memory, Poll
        <5>2. /\ (Polls(op) - tries) * Poll(op) \in Nat
              /\ (Polls(op) - tries) * Poll(op) >= Poll(op)
          BY <2>4, <3>2, PollsLeft
        <5>3. QED
          BY <2>4, <5>1, <5>2 DEF PollsToGo
      <4>2. QED
        BY <2>3, <2>4, <3>1, <3>2, <3>5, <4>1, ByPlace
    <3>6. QED
      BY <2>1, <3>1, <3>3, <3>4, <3>5 DEF Tallies
  <2>12. CASE Elsewhere(r) \/ BeginsReading(r)
    <3>1. pc[r] = "locking"
      BY <1>3, <2>1, <2>12 DEF Elsewhere, BeginsReading, Onward, Ended
    <3>2. QED
      BY <2>5, <3>1
  <2>13. QED
    BY <1>0, <2>6, <2>7, <2>8, <2>9, <2>10, <2>11, <2>12, OwnStep
<1>4. QED
  BY <1>2, <1>3

\* What others do leaves a run where it is.
LEMMA OthersCount ==
  ASSUME TypeOK, NEW r \in Runs, pc[r] # "idle", ~(Step(r) \/ Receive(r) \/ Crash(r)),
         [Next]_vars
  PROVE  StepsLeft(r)' = StepsLeft(r)
<1>1. ASSUME pc'[r] = pc[r], cmd'[r] = cmd[r], mem'[r] = mem[r]
      PROVE  StepsLeft(r)' = StepsLeft(r)
  BY <1>1 DEF StepsLeft, Op
<1>2. ASSUME NEW s \in Runs \ {r}, Step(s) \/ Receive(s) \/ Crash(s)
      PROVE  StepsLeft(r)' = StepsLeft(r)
  BY <1>1, <1>2, OthersKeep DEF Same
<1>3. CASE \/ \E s \in Runs : Accept(s) \/ Reject(s) \/ Land(s)
           \/ Edit \/ Tick \/ UNCHANGED vars
  <2>1. UNCHANGED process
    BY <1>3 DEF Accept, Reject, Land, Edit, Tick, vars
  <2>2. QED
    BY <1>1, <2>1 DEF process
<1>4. QED
  BY <1>2, <1>3 DEF Next, Environment

\* Whatever the answers, the other runs and the administrators are, a run gets
\* nearer to its end with each of its steps and is never thrown back: it makes
\* at most the GETs of its two read_states and max(1, attempts) verifications.
\* (That it takes these steps at all is a matter of scheduling.)
AllToGo == \A r \in Runs : StepsLeft(r) \in Nat

THEOREM BoundedRuns == Spec => EveryStepCounts
<1>0. NInv => AllToGo
  BY StillToGo DEF NInv, IInv, AllToGo
<1>1. Init => NInv
  <2>1. Init => \A r \in Runs : Counted(r)
    BY BlankShape DEF Init, Counted
  <2>2. QED
    BY <2>1, InitInv, InitMemory DEF NInv
<1>2. NInv /\ [Next]_vars => NInv'
  BY NextCounted
<1>3. ASSUME NInv, AllToGo, AllToGo', [Next]_vars
      PROVE  [\A r \in Runs : pc[r] # "idle" =>
                /\ StepsLeft(r)' \in 0 .. StepsLeft(r)
                /\ Step(r) \/ Receive(r) => StepsLeft(r)' < StepsLeft(r)]_vars
  <2>1. ASSUME NEW r \in Runs, pc[r] # "idle"
        PROVE  /\ StepsLeft(r)' \in 0 .. StepsLeft(r)
               /\ Step(r) \/ Receive(r) => StepsLeft(r)' < StepsLeft(r)
    <3>1. StepsLeft(r) \in Nat
      BY <1>3 DEF AllToGo
    <3>2. StepsLeft(r)' \in Nat
      BY <1>3 DEF AllToGo
    <3>3. CASE Step(r) \/ Receive(r) \/ Crash(r)
      <4>1. StepsLeft(r)' < StepsLeft(r)
        BY <1>3, <2>1, <3>2, <3>3, OwnStepCounts
      <4>2. QED
        BY <3>1, <3>2, <4>1
    <3>4. CASE ~(Step(r) \/ Receive(r) \/ Crash(r))
      <4>1. StepsLeft(r)' = StepsLeft(r)
        BY <1>3, <2>1, <3>4, OthersCount DEF NInv, IInv
      <4>2. QED
        BY <3>1, <3>4, <4>1
    <3>5. QED
      BY <3>3, <3>4
  <2>2. QED
    BY <2>1
<1>4. QED
  BY <1>0, <1>1, <1>2, <1>3, PTL DEF Spec, EveryStepCounts
=============================================================================
