--------------------------- MODULE GuardedMutator ---------------------------
(***************************************************************************)
(* The guarded write engine of scripts/mutationlib.py: what one invocation *)
(* of scripts/mutate.py (a "run") does between its command line and its    *)
(* exit, next to other runs on the same machine, the administrators who    *)
(* use the controller at the same time, and a network that delays and      *)
(* loses.  One run is one process: it takes the mutation lock, reads the   *)
(* state its operation depends on with one GET per dataset, saves a        *)
(* snapshot, records the plan in the journal, and then either prints the   *)
(* plan with its approval token (--plan) or carries on (--approve) to the  *)
(* gate, the refetch, the one write and the verification.                  *)
(*                                                                         *)
(* The engine takes the operation-specific parts as callbacks (_finish is  *)
(* given freshness, write, verify, precondition and runtime_validate), and *)
(* so does this module: they are its constant operators.  FirewallPolicy   *)
(* and FixedIp define them for two families of operations.                 *)
(***************************************************************************)
EXTENDS Naturals, Sequences, FiniteSets

CONSTANTS
    Runs,                   \* invocations of mutate.py
    NoRun,                  \* nobody: the lock is free, no id in an answer
    Operations,             \* the commands an operator may give
    Identities,             \* controller/site/version identities
    Datasets,               \* what a GET can be asked for
    NoView,                 \* not read yet, or a GET answered by 404
    NoToken,                \* no --approve, or one that no plan ever showed
    NoSnapshot,
    NoBody,
    States,                 \* controller configurations
    InitStates,
    MaxEdits                \* bound: changes made by administrators

CONSTANTS                   \* the callbacks of one family of operations
    ReadState(_),           \* op: its read_state, the datasets in GET order
    VerifyReads(_),         \* op: the GETs of its verify
    View(_, _, _, _),       \* op, dataset, state, read so far: a GET's answer
    Validated(_, _),        \* op, seen: the checks made while planning
    HasDiff(_, _),          \* op, seen: the exact diff is not empty
    ApprovalMaterial(_, _), \* op, seen: what the token is a digest of
    SnapshotValue(_, _),    \* op, seen: what is saved for a rollback
    Precondition(_, _),     \* op, seen or fresh: what must not have changed
    RuntimeSafe(_, _, _),   \* op, seen, fresh: the conflict checks run again
    Request(_, _, _),       \* op, seen, fresh: the body of the one write
    Landing(_, _, _, _),    \* run, op, body, state: where the write may lead
    Verified(_, _, _, _, _),       \* op, seen, fresh, found, id answered
    SeveralMatches(_, _, _, _),    \* op, seen, found, id answered
    Attempts(_),            \* op: verifications tried after the write
    Edits(_),               \* state: what an administrator may turn it into
    Ticks(_)                \* state: the same with other volatile fields

ASSUME RunAssumption == NoRun \notin Runs
ASSUME CommandAssumption == Operations # {} /\ Identities # {}
ASSUME StateAssumption == InitStates \subseteq States /\ InitStates # {}
ASSUME BoundAssumption == MaxEdits \in Nat
ASSUME ReadAssumption ==
    \A op \in Operations :
        /\ \A i \in 1 .. Len(ReadState(op)) : ReadState(op)[i] \in Datasets
        /\ \A i \in 1 .. Len(VerifyReads(op)) : VerifyReads(op)[i] \in Datasets
        /\ Len(ReadState(op)) \in Nat \ {0}
        /\ Len(VerifyReads(op)) \in Nat \ {0}
        /\ Attempts(op) \in Nat
VARIABLES
    pc,       \* where each run is
    cmd,      \* its command line, and the identity it found when it started
    mem,      \* its memory: what it has read and what it has concluded
    report,   \* what it printed last
    lock,     \* who holds the flock on snapshots/.mutation.lock
    snap,     \* the snapshot each run has saved
    journal,  \* the result field of each run's operation record
    shown,    \* the approval tokens plans have printed
    ctl,      \* the controller's configuration
    site,     \* the controller's identity
    wire,     \* the fate of each run's request
    body,     \* and what it asks for
    edits,    \* counts administrators' changes, up to MaxEdits
    touched,  \* history: which reads of a run the configuration outlived
    unsettled \* history: tokens whose write ended ambiguous, no plan since

process == <<pc, cmd, mem, report, lock>>
disk == <<snap, journal, shown, unsettled>>
network == <<wire, body>>
controller == <<ctl, site, edits, touched>>
vars == <<process, disk, network, controller>>

-----------------------------------------------------------------------------
Working == {"locking", "reading", "validating", "saving", "recording",
            "authorizing", "identifying", "refetching", "comparing",
            "attempting", "sending", "waiting", "verifying", "completing"}
Ended == {"done", "crashed"}

\* The run is inside _single_mutation.
Inside(r) == pc[r] \in Working \ {"locking"}

Refusals == {"REFUSED_AUTHORIZATION", "REFUSED_IDENTITY_RECHECK_FAILED",
             "REFUSED_IDENTITY_MISMATCH", "REFUSED_FRESHNESS_RECHECK_FAILED",
             "REFUSED_STALE_APPROVAL", "REFUSED_RUNTIME_SAFETY_CHECK"}
Verdicts == {"APPLIED", "NOT_APPLIED", "AMBIGUOUS_REQUIRES_REVIEW"}
Results == {"NO_RECORD", "PLANNED_NO_WRITE", "WRITE_ATTEMPTED"}
              \cup Refusals \cup Verdicts

Unread == [d \in Datasets |-> NoView]
Blank == [seen |-> Unread, fresh |-> Unread, found |-> Unread,
          got |-> 0, tries |-> 0, answer |-> "none", verified |-> FALSE]

NoCommand == [op |-> CHOOSE op \in Operations : TRUE, plan |-> TRUE,
              enabled |-> FALSE, approval |-> NoToken,
              identity |-> CHOOSE i \in Identities : TRUE]

Op(r) == cmd[r].op

\* The token is a digest of this material; digests are taken to be distinct.
ApprovalToken(op, identity, seen) ==
    [controller_site |-> identity, material |-> ApprovalMaterial(op, seen)]

\* Everything read_state would return if it could read at one instant.
Look(op, c) ==
    [d \in Datasets |->
        IF \E i \in 1 .. Len(ReadState(op)) : ReadState(op)[i] = d
        THEN View(op, d, c, Unread) ELSE NoView]

-----------------------------------------------------------------------------
Init ==
    /\ pc = [r \in Runs |-> "idle"]
    /\ cmd = [r \in Runs |-> NoCommand]
    /\ mem = [r \in Runs |-> Blank]
    /\ report = [r \in Runs |-> "none"]
    /\ lock = NoRun
    /\ snap = [r \in Runs |-> NoSnapshot]
    /\ journal = [r \in Runs |-> "NO_RECORD"]
    /\ shown = {}
    /\ ctl \in InitStates
    /\ site \in Identities
    /\ wire = [r \in Runs |-> "idle"]
    /\ body = [r \in Runs |-> NoBody]
    /\ edits = 0
    /\ touched = [r \in Runs |-> {}]
    /\ unsettled = {}

Goto(r, where) == pc' = [pc EXCEPT ![r] = where]

\* The process ends: it prints, its memory is gone, and so is its lock.
Exit(r, where, words) ==
    /\ pc' = [pc EXCEPT ![r] = where]
    /\ mem' = [mem EXCEPT ![r] = Blank]
    /\ report' = [report EXCEPT ![r] = words]
    /\ lock' = IF lock = r THEN NoRun ELSE lock
    /\ UNCHANGED cmd

\* main: the command line, the environment, and the identity of the
\* controller as it is now.
Begin(r) ==
    /\ pc[r] = "idle"
    /\ \E op \in Operations, plan, enabled \in BOOLEAN,
          approval \in shown \cup {NoToken} :
         /\ plan => ~enabled /\ approval = NoToken
         /\ cmd' = [cmd EXCEPT ![r] =
                      [op |-> op, plan |-> plan, enabled |-> enabled,
                       approval |-> approval, identity |-> site]]
    /\ Goto(r, "locking")
    /\ UNCHANGED <<mem, report, lock, disk, network, controller>>

\* Mutation of TakeLock: a shared lock.
TakeLockShared(r) ==
    /\ pc[r] = "locking"
    /\ lock' = r
    /\ Goto(r, "reading")
    /\ UNCHANGED <<cmd, mem, report, disk, network, controller>>

\* _single_mutation: a lock that is taken is not waited for.
TakeLock(r) ==
    /\ pc[r] = "locking"
    /\ \/ /\ lock = NoRun
          /\ lock' = r
          /\ Goto(r, "reading")
          /\ UNCHANGED <<cmd, mem, report>>
       \/ /\ lock # NoRun
          /\ Exit(r, "done", "ERROR")
    /\ UNCHANGED <<disk, network, controller>>

\* read_state while planning: one GET after the other.
ReadNext(r) ==
    LET d == ReadState(Op(r))[mem[r].got + 1]
        last == mem[r].got + 1 >= Len(ReadState(Op(r)))
        view == View(Op(r), d, ctl, mem[r].seen)
    IN  /\ pc[r] = "reading"
        /\ view # NoView
        /\ mem' = [mem EXCEPT ![r].seen[d] = view,
                              ![r].got = IF last THEN 0 ELSE @ + 1]
        /\ Goto(r, IF last THEN "validating" ELSE "reading")
        /\ UNCHANGED <<cmd, report, lock, disk, network, controller>>

\* A GET fails, or what was asked for is not there.
ReadFails(r) ==
    /\ pc[r] = "reading"
    /\ Exit(r, "done", "ERROR")
    /\ UNCHANGED <<disk, network, controller>>

\* The planning checks; nothing is on disk when one of them refuses.
Validate(r) ==
    /\ pc[r] = "validating"
    /\ \/ /\ Validated(Op(r), mem[r].seen)
          /\ Goto(r, "saving")
          /\ UNCHANGED <<cmd, mem, report, lock>>
       \/ /\ ~Validated(Op(r), mem[r].seen)
          /\ Exit(r, "done", "ERROR")
    /\ UNCHANGED <<disk, network, controller>>

\* _snapshot: the rollback snapshot is on disk before the plan exists, or the
\* run ends.
SaveSnapshot(r) ==
    /\ pc[r] = "saving"
    /\ \/ /\ snap' = [snap EXCEPT ![r] = SnapshotValue(Op(r), mem[r].seen)]
          /\ Goto(r, "recording")
          /\ UNCHANGED <<cmd, mem, report, lock>>
       \/ /\ Exit(r, "done", "ERROR")
          /\ UNCHANGED snap
    /\ UNCHANGED <<journal, shown, unsettled, network, controller>>

\* _plan: an empty diff is refused, the plan is recorded, and --plan ends
\* here by printing it.
Plan(r) ==
    /\ pc[r] = "recording"
    /\ \/ /\ ~HasDiff(Op(r), mem[r].seen)
          /\ Exit(r, "done", "ERROR")
          /\ UNCHANGED <<journal, shown, unsettled>>
       \/ /\ HasDiff(Op(r), mem[r].seen)
          /\ journal' = [journal EXCEPT ![r] = "PLANNED_NO_WRITE"]
          /\ LET token == ApprovalToken(Op(r), cmd[r].identity, mem[r].seen)
             IN  \/ /\ cmd[r].plan
                    /\ shown' = shown \cup {token}
                    /\ unsettled' = unsettled \ {token}
                    /\ Exit(r, "done", "PLAN")
                 \/ /\ ~cmd[r].plan
                    /\ Goto(r, "authorizing")
                    /\ UNCHANGED <<cmd, mem, report, lock, shown, unsettled>>
    /\ UNCHANGED <<snap, network, controller>>

\* A refusal is journalled, then raised.
Refuse(r, result) ==
    /\ journal' = [journal EXCEPT ![r] = result]
    /\ Exit(r, "done", "ERROR")
    /\ UNCHANGED <<snap, shown, unsettled, network, controller>>

Proceed(r, where) ==
    /\ Goto(r, where)
    /\ UNCHANGED <<cmd, mem, report, lock, disk, network, controller>>

\* Mutations of Authorized: the environment phrase is not looked at, and the
\* token of any plan will do.
AuthorizedByToken(r) ==
    /\ cmd[r].approval # NoToken
    /\ cmd[r].approval =
         ApprovalToken(Op(r), cmd[r].identity, mem[r].seen)
    /\ snap[r] # NoSnapshot
AuthorizedByAnyToken(r) ==
    cmd[r].enabled /\ cmd[r].approval # NoToken /\ snap[r] # NoSnapshot

\* MutationGate.authorize: the environment phrase, then the token of the
\* mutation this very run has planned, then its snapshot.
Authorized(r) ==
    /\ cmd[r].enabled
    /\ cmd[r].approval # NoToken
    /\ cmd[r].approval =
         ApprovalToken(Op(r), cmd[r].identity, mem[r].seen)
    /\ snap[r] # NoSnapshot

Authorize(r) ==
    /\ pc[r] = "authorizing"
    /\ \/ Authorized(r) /\ Proceed(r, "identifying")
       \/ ~Authorized(r) /\ Refuse(r, "REFUSED_AUTHORIZATION")

RecheckIdentity(r) ==
    /\ pc[r] = "identifying"
    /\ \/ Refuse(r, "REFUSED_IDENTITY_RECHECK_FAILED")
       \/ /\ site # cmd[r].identity
          /\ Refuse(r, "REFUSED_IDENTITY_MISMATCH")
       \/ /\ site = cmd[r].identity
          /\ Proceed(r, "refetching")

\* freshness: read_state once more.
RefetchNext(r) ==
    LET d == ReadState(Op(r))[mem[r].got + 1]
        last == mem[r].got + 1 >= Len(ReadState(Op(r)))
        view == View(Op(r), d, ctl, mem[r].fresh)
    IN  /\ pc[r] = "refetching"
        /\ view # NoView
        /\ mem' = [mem EXCEPT ![r].fresh[d] = view,
                              ![r].got = IF last THEN 0 ELSE @ + 1]
        /\ Goto(r, IF last THEN "comparing" ELSE "refetching")
        /\ UNCHANGED <<cmd, report, lock, disk, network, controller>>

RefetchFails(r) ==
    /\ pc[r] = "refetching"
    /\ Refuse(r, "REFUSED_FRESHNESS_RECHECK_FAILED")

\* Mutation of Unchanged: the refetch is not compared with the plan.
UnchangedUnchecked(r) == TRUE

\* The precondition first, then the conflict checks of the operation.
Unchanged(r) ==
    Precondition(Op(r), mem[r].fresh) = Precondition(Op(r), mem[r].seen)

CheckFresh(r) ==
    LET safe == RuntimeSafe(Op(r), mem[r].seen, mem[r].fresh)
    IN  /\ pc[r] = "comparing"
        /\ \/ ~Unchanged(r) /\ Refuse(r, "REFUSED_STALE_APPROVAL")
           \/ /\ Unchanged(r) /\ ~safe
              /\ Refuse(r, "REFUSED_RUNTIME_SAFETY_CHECK")
           \/ Unchanged(r) /\ safe /\ Proceed(r, "attempting")

\* Mutation of RecordAttempt: the journal is left to the verdict.
RecordAttemptLater(r) ==
    /\ pc[r] = "attempting"
    /\ Goto(r, "sending")
    /\ UNCHANGED <<cmd, mem, report, lock, disk, network, controller>>

\* The attempt is journalled before anything is sent.
RecordAttempt(r) ==
    /\ pc[r] = "attempting"
    /\ journal' = [journal EXCEPT ![r] = "WRITE_ATTEMPTED"]
    /\ Goto(r, "sending")
    /\ UNCHANGED <<cmd, mem, report, lock, snap, shown, unsettled, network,
                   controller>>

\* _write: the one request.
Send(r) ==
    /\ pc[r] = "sending"
    /\ wire' = [wire EXCEPT ![r] = "sent"]
    /\ body' = [body EXCEPT ![r] =
                  Request(Op(r), mem[r].seen, mem[r].fresh)]
    /\ Goto(r, "waiting")
    /\ UNCHANGED <<cmd, mem, report, lock, disk, controller>>

\* guarded_write returns or raises.  A 2xx carries the object or is empty and
\* says the controller took the request; a 4xx says that it did not; anything
\* else (5xx, timeout, reset, unreadable body) says nothing about its fate.
Answers(r) ==
    {"lost"} \cup (IF wire[r] \in {"accepted", "applied"}
                   THEN {"object", "empty"} ELSE {})
             \cup (IF wire[r] = "rejected" THEN {"rejected"} ELSE {})

Receive(r) ==
    /\ pc[r] = "waiting"
    /\ \E a \in Answers(r) : mem' = [mem EXCEPT ![r].answer = a]
    /\ Goto(r, "verifying")
    /\ UNCHANGED <<cmd, report, lock, disk, network, controller>>

\* The id in the answer is given to the first verification only.
AnsweredId(r) ==
    IF mem[r].answer = "object" /\ mem[r].tries = 0 THEN r ELSE NoRun

\* verify: its GETs, one after the other.
VerifyNext(r) ==
    LET d == VerifyReads(Op(r))[mem[r].got + 1]
    IN  /\ pc[r] = "verifying"
        /\ mem[r].got < Len(VerifyReads(Op(r)))
        /\ mem' = [mem EXCEPT ![r].found[d] = View(Op(r), d, ctl, mem[r].found),
                              ![r].got = @ + 1]
        /\ UNCHANGED <<pc, cmd, report, lock, disk, network, controller>>

\* Mutation of Reconcile: polls until the outcome is conclusive.
ReconcileForever(r, verified, several) ==
    /\ mem' = [mem EXCEPT ![r].verified = verified, ![r].got = 0,
                          ![r].found = Unread]
    /\ Goto(r, IF verified \/ several THEN "completing" ELSE "verifying")
    /\ UNCHANGED <<cmd, report, lock, disk, network, controller>>

\* Mutation of Reconcile: one verification too many.
ReconcileOnceMore(r, verified, several) ==
    LET stop == verified \/ several \/ mem[r].tries >= Attempts(Op(r))
    IN  /\ mem' = [mem EXCEPT ![r].verified = verified,
                              ![r].tries = @ + 1,
                              ![r].got = 0,
                              ![r].found = Unread]
        /\ Goto(r, IF stop THEN "completing" ELSE "verifying")
        /\ UNCHANGED <<cmd, report, lock, disk, network, controller>>

\* _bounded_reconcile: stop when verified, when several objects match, or
\* when the attempts are used up.
Reconcile(r, verified, several) ==
    LET stop == verified \/ several \/ mem[r].tries + 1 >= Attempts(Op(r))
    IN  /\ mem' = [mem EXCEPT ![r].verified = verified,
                              ![r].tries = @ + 1,
                              ![r].got = 0,
                              ![r].found = Unread]
        /\ Goto(r, IF stop THEN "completing" ELSE "verifying")
        /\ UNCHANGED <<cmd, report, lock, disk, network, controller>>

Judge(r) ==
    /\ pc[r] = "verifying"
    /\ mem[r].got = Len(VerifyReads(Op(r)))
    /\ Reconcile(r,
         Verified(Op(r), mem[r].seen, mem[r].fresh, mem[r].found,
                  AnsweredId(r)),
         SeveralMatches(Op(r), mem[r].seen, mem[r].found, AnsweredId(r)))

\* Mutation of VerifyFails: the error of a verification ends the run.
VerifyFailsAloud(r) ==
    /\ pc[r] = "verifying"
    /\ mem[r].got < Len(VerifyReads(Op(r)))
    /\ Exit(r, "done", "ERROR")
    /\ UNCHANGED <<disk, network, controller>>

VerifyFails(r) ==
    /\ pc[r] = "verifying"
    /\ mem[r].got < Len(VerifyReads(Op(r)))
    /\ Reconcile(r, FALSE, FALSE)

\* Mutations of Verdict: every error is taken for a refusal, and a result no
\* reader of the journal knows.
VerdictOfAnyError(r) ==
    IF mem[r].verified THEN "APPLIED"
    ELSE IF mem[r].answer \in {"rejected", "lost"} THEN "NOT_APPLIED"
    ELSE "AMBIGUOUS_REQUIRES_REVIEW"
VerdictUnknown(r) == IF mem[r].verified THEN "APPLIED" ELSE "FAILED"

\* The verdict is journalled and printed.
Verdict(r) ==
    IF mem[r].verified THEN "APPLIED"
    ELSE IF mem[r].answer = "rejected" THEN "NOT_APPLIED"
    ELSE "AMBIGUOUS_REQUIRES_REVIEW"

Complete(r) ==
    /\ pc[r] = "completing"
    /\ journal' = [journal EXCEPT ![r] = Verdict(r)]
    /\ unsettled' = IF Verdict(r) = "AMBIGUOUS_REQUIRES_REVIEW"
                     THEN unsettled \cup {cmd[r].approval} ELSE unsettled
    /\ Exit(r, "done", Verdict(r))
    /\ UNCHANGED <<snap, shown, network, controller>>

\* The process is killed or writing a file fails (OperationFiles looks at the
\* files themselves, and at a machine that stops): the
\* kernel closes the lock file, the request stays where it is.
Crash(r) ==
    /\ pc[r] \in Working
    /\ Exit(r, "crashed", "none")
    /\ UNCHANGED <<disk, network, controller>>

Step(r) ==
    \/ Begin(r) \/ TakeLock(r)
    \/ ReadNext(r) \/ ReadFails(r) \/ Validate(r) \/ SaveSnapshot(r) \/ Plan(r)
    \/ Authorize(r) \/ RecheckIdentity(r)
    \/ RefetchNext(r) \/ RefetchFails(r) \/ CheckFresh(r)
    \/ RecordAttempt(r) \/ Send(r)
    \/ VerifyNext(r) \/ Judge(r) \/ VerifyFails(r) \/ Complete(r)

-----------------------------------------------------------------------------
(* The controller, its other users and the network. *)

\* The run's reads in progress, and its request in flight, now outlive the
\* configuration they were made for.
ReadBegun(r) == pc[r] \in Working /\ mem[r].seen # Unread
RefetchBegun(r) ==
    \/ pc[r] \in Working /\ mem[r].fresh # Unread
    \/ wire[r] \in {"sent", "accepted"}

Disturb(others) ==
    touched' = [r \in Runs |->
        touched[r] \cup
          (IF r \in others /\ ReadBegun(r) THEN {"read_state"} ELSE {}) \cup
          (IF r \in others /\ RefetchBegun(r) THEN {"freshness"} ELSE {})]

\* The controller takes a request (it will act on it, perhaps after it has
\* answered) or turns it down with a 4xx.
Accept(r) ==
    /\ wire[r] = "sent"
    /\ wire' = [wire EXCEPT ![r] = "accepted"]
    /\ UNCHANGED <<process, disk, body, controller>>

Reject(r) ==
    /\ wire[r] = "sent"
    /\ wire' = [wire EXCEPT ![r] = "rejected"]
    /\ UNCHANGED <<process, disk, body, controller>>

\* The configuration changes as the request asks, also when the run that
\* sent it is gone or has already reported.
Land(r) ==
    /\ wire[r] = "accepted"
    /\ wire' = [wire EXCEPT ![r] = "applied"]
    /\ ctl' \in Landing(r, Op(r), body[r], ctl) \cap States
    /\ Disturb(Runs \ {r})
    /\ UNCHANGED <<process, disk, body, site, edits>>

\* An administrator changes the configuration, or moves the controller to
\* another version or site.
Edit ==
    /\ edits < MaxEdits
    /\ edits' = edits + 1
    /\ \/ /\ ctl' \in (Edits(ctl) \cap States) \ {ctl}
          /\ Disturb(Runs)
          /\ UNCHANGED site
       \/ /\ site' \in Identities \ {site}
          /\ UNCHANGED <<ctl, touched>>
    /\ UNCHANGED <<process, disk, network>>

\* Fields that record observations only move by themselves.
Tick ==
    /\ ctl' \in (Ticks(ctl) \cap States) \ {ctl}
    /\ UNCHANGED <<process, disk, network, site, edits, touched>>

Environment ==
    \/ \E r \in Runs : Crash(r) \/ Accept(r) \/ Reject(r) \/ Land(r)
    \/ Edit \/ Tick

Next == (\E r \in Runs : Step(r) \/ Receive(r)) \/ Environment

Spec == Init /\ [][Next]_vars

\* A process that is not killed goes on.  Nothing in the code bounds the wait
\* for an answer (urlopen is called without a timeout), so that an answer, or
\* a broken connection, comes is an assumption about the network.
FairSpec ==
    /\ Spec
    /\ \A r \in Runs : WF_vars(Step(r) /\ pc[r] # "idle") /\ WF_vars(Receive(r))

-----------------------------------------------------------------------------
(* Properties. *)

\* Every variable has its type.  What is read, saved and sent is left to the
\* callbacks and has none.
TypeOK ==
    /\ pc \in [Runs -> {"idle"} \cup Working \cup Ended]
    /\ DOMAIN cmd = Runs
    /\ \A r \in Runs :
         /\ DOMAIN cmd[r] = DOMAIN NoCommand
         /\ cmd[r].op \in Operations
         /\ cmd[r].plan \in BOOLEAN /\ cmd[r].enabled \in BOOLEAN
         /\ cmd[r].approval \in shown \cup {NoToken}
         /\ cmd[r].identity \in Identities
    /\ DOMAIN mem = Runs
    /\ \A r \in Runs :
         /\ DOMAIN mem[r] = DOMAIN Blank
         /\ mem[r].got \in Nat /\ mem[r].tries \in Nat
         /\ mem[r].answer \in {"none", "object", "empty", "rejected", "lost"}
    /\ report \in [Runs -> {"none", "PLAN", "ERROR"} \cup Verdicts]
    /\ lock \in Runs \cup {NoRun}
    /\ DOMAIN snap = Runs /\ DOMAIN body = Runs
    /\ journal \in [Runs -> Results]
    /\ wire \in [Runs -> {"idle", "sent", "accepted", "applied", "rejected"}]
    /\ ctl \in States /\ site \in Identities /\ edits \in 0 .. MaxEdits
    /\ touched \in [Runs -> SUBSET {"read_state", "freshness"}]

\* Two runs are never between the lock and the exit at once, and the lock is
\* never left to a process that is gone (_single_mutation).
OneMutationAtATime ==
    \A r \in Runs : Inside(r) <=> lock = r

\* Nothing is on the wire that the journal does not show as attempted: not of
\* a refused run, not of a plan, and whenever the process died.
EveryWriteIsJournalled ==
    \A r \in Runs :
        wire[r] # "idle" => journal[r] \in {"WRITE_ATTEMPTED"} \cup Verdicts

\* A request is sent only by a run that was started with writes enabled and
\* under a token some plan printed, for the identity the run itself found
\* (MutationGate).
OnlyApprovedRunsWrite ==
    \A r \in Runs : wire[r] # "idle" =>
        /\ cmd[r].enabled
        /\ cmd[r].approval \in shown
        /\ cmd[r].approval.controller_site = cmd[r].identity

\* While a request is in flight, undisturbed since its refetch began, the
\* configuration it will change is the one its token approves: the state
\* reviewed with the plan, in another process and at another time, is the
\* state replaced (precondition, MutationGate).
WritesWhatWasApproved ==
    \A r \in Runs :
        (wire[r] \in {"sent", "accepted"} /\ "freshness" \notin touched[r]) =>
            cmd[r].approval =
              ApprovalToken(Op(r), cmd[r].identity, Look(Op(r), ctl))

\* The snapshot on disk is what a request in flight will replace, unless
\* somebody changed the configuration after the refetch began.
SnapshotIsWhatIsReplaced ==
    \A r \in Runs :
        (wire[r] \in {"sent", "accepted"} /\ "freshness" \notin touched[r]) =>
            snap[r] = SnapshotValue(Op(r), Look(Op(r), ctl))

\* NOT_APPLIED is only ever said of a request the controller has turned down:
\* it cannot take effect later (definitively_not_applied).
NotAppliedNeverLands ==
    \A r \in Runs : journal[r] = "NOT_APPLIED" => wire[r] = "rejected"

\* A run that ends by itself (and not by a kill or by a file it cannot write)
\* tells what its record tells: an error or a plan, if nothing was sent, or else
\* the verdict on its request, also when no GET of a verification succeeds
\* (_bounded_reconcile catches their errors).
EndsAsRecorded ==
    \A r \in Runs : pc[r] = "done" =>
        \/ /\ report[r] \in {"PLAN", "ERROR"} /\ wire[r] = "idle"
           /\ journal[r] \in {"NO_RECORD", "PLANNED_NO_WRITE"} \cup Refusals
        \/ /\ report[r] \in Verdicts /\ wire[r] # "idle"
           /\ journal[r] = report[r]

\* A run is refused as stale only if somebody changed the configuration while
\* it ran: observations that move by themselves never refuse it.
StaleMeansChanged ==
    \A r \in Runs :
        journal[r] = "REFUSED_STALE_APPROVAL" => "read_state" \in touched[r]

\* The engine keeps the promise of the operation records: planned, attempted
\* before anything is sent, one request, and a final refusal or verdict,
\* wherever processes are killed.
Log == INSTANCE OperationLog
         WITH log <- journal, sent <- [r \in Runs |-> wire[r] # "idle"]

KeepsTheLog == Log!Spec

\* Every run that starts ends, gives the lock back and, if it is not killed,
\* has printed a plan, an error or a verdict: the polling is bounded, and a
\* taken lock is refused, not waited for.
EveryRunEnds ==
    \A r \in Runs : pc[r] = "locking" ~>
        /\ pc[r] \in Ended /\ lock # r
        /\ report[r] = "none" => pc[r] = "crashed"

\* The most steps a run still has before it: the GETs of its two read_states,
\* its verifications (max(1, attempts), each some GETs and a judgement) and the
\* other places it goes through.
Polls(op) == IF Attempts(op) = 0 THEN 1 ELSE Attempts(op)
BeforeRefetch == [validating |-> 10, saving |-> 9, recording |-> 8,
                  authorizing |-> 7, identifying |-> 6]
BeforeAnswer == [comparing |-> 5, attempting |-> 4, sending |-> 3, waiting |-> 2]

Distance(op, place, got, tries) ==
    LET reads == Len(ReadState(op))
        poll == Len(VerifyReads(op)) + 1
        polls == Polls(op) * poll
    IN  CASE place = "locking" -> 2 * reads + polls + 11
          [] place = "reading" -> 2 * reads - got + polls + 10
          [] place \in DOMAIN BeforeRefetch -> reads + polls + BeforeRefetch[place]
          [] place = "refetching" -> reads - got + polls + 5
          [] place \in DOMAIN BeforeAnswer -> polls + BeforeAnswer[place]
          [] place = "verifying" -> (Polls(op) - tries) * poll - got + 1
          [] place = "completing" -> 1
          [] OTHER -> 0

StepsLeft(r) == Distance(Op(r), pc[r], mem[r].got, mem[r].tries)

\* Every step of a run brings it nearer to its end, and no step of anybody
\* else takes it away from there: no answer, edit or other run makes it read,
\* wait or verify once more than its operation says (_bounded_reconcile).
EveryStepCounts ==
    [][\A r \in Runs : pc[r] # "idle" =>
         /\ StepsLeft(r)' \in 0 .. StepsLeft(r)
         /\ Step(r) \/ Receive(r) => StepsLeft(r)' < StepsLeft(r)]_vars

\* After an ambiguous outcome, nothing is sent under the same approval until
\* a new plan has shown it.
AmbiguousNeedsFreshPlan ==
    \A r \in Runs : pc[r] = "sending" => cmd[r].approval \notin unsettled
=============================================================================
