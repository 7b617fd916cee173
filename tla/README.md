# A verification of the guarded UniFi mutation engine and its audit

This directory holds TLA+ models of the parts of this repository that can harm
a network or mislead its owner: the guarded write engine behind
`scripts/mutate.py`, the operations built on it and the files it leaves behind;
and what reads a network and reports on it, `scripts/inventory.py` and
`scripts/auditlib/`. TLC checks the models on small instances, and TLAPS proves
most of their safety properties for every instance. `PROJECT.json` lists the
runs, the code lines each definition stands for, the mutations that show each
property can fail, the hazards, the findings and the theorems.

## 1. The system

| Part | State it keeps | Operations | Talks to |
|---|---|---|---|
| Guarded write engine, `scripts/mutationlib.py` 641-954 | the process's memory; the flock on `snapshots/.mutation.lock`; one operation record; one snapshot folder | `_single_mutation`, `_get`, `_snapshot`, `_plan`, `_finish`, `_write`, `_bounded_reconcile` | callbacks of the operation, journal, snapshots, controller |
| Mutation gate, `MutationGate` 176-203 | none: the token is a digest of the planned mutation | `authorize` | snapshot store, environment |
| Firewall policies, `_firewall_policy` 1287-1447 | none of its own | create, update, delete | engine (callbacks) |
| Fixed IP, `fixed_ip_change` 1167-1285 | none | set, remove | engine (callbacks) |
| Port forwards, `port_forward_delete`/`_restore` 956-1165 | none | delete, restore | engine (callbacks), snapshot store |
| Operation journal, `scripts/operation_journal.py` | `operations/<id>.json` | `create`, `update` | file system |
| Snapshot store, `scripts/snapshot.py` | `snapshots/<time>/` with an object and a manifest | `create_snapshot`, `load_snapshot` | file system |
| CLI, `scripts/mutate.py` | command line, environment, controller identity | `main`, `_controller_identity` | engine |
| HTTP client, `scripts/udm.py` | none | `get`, `guarded_write` | controller |
| Inventory, `scripts/inventory.py` | the records and statuses collected so far | `select_site`, `_collect_spec`, `collect_inventory` | HTTP client |
| Audit, `scripts/audit.py`, `scripts/auditlib/` | none: a function of the inventory | `analyze_inventory`: segmentation, coverage, postures, unknowns, exposure, findings | inventory |
| Rollback preview, safety notes, reachability probes | none | printing | none |

One invocation of `mutate.py` is one process that performs at most one mutation
and exits. Planning and applying are two processes: the first prints an approval
token, a human reads the plan, and the second (`--approve TOKEN`) plans anew,
checks that the token it was given is the one it would print, refetches, compares
and writes once. The processes share the lock, the two directories and the
controller. The token is the only thing that goes from one to the other. An
inventory is one process as well, which writes nothing, and the audit reads
what it has collected.

What is hard here:

- a decision is taken on data read by another process at another time, and a
  configuration is read by several GETs, a collection by several pages, with
  other people's edits in between;
- the only request may be delayed, lost or answered late, and it is never
  repeated by the program; a human may repeat it;
- the process may be killed between any two steps, and what the records and the
  snapshot say then is all a human has;
- verification reads race the effect of the request, the controller's own
  derived objects and other administrators;
- a firewall table decides by order, scope, protocol and state, and a report
  condenses it, from evidence that may be incomplete, to one word for a pair of
  networks.

What makes each part correct:

- engine: exclusion (`OneMutationAtATime`), gate (`OnlyApprovedRunsWrite`), the
  approved state is the one replaced (`WritesWhatWasApproved`,
  `SnapshotIsWhatIsReplaced`), records ahead of the wire (`EveryWriteIsJournalled`,
  `KeepsTheLog`), honest verdicts and reports (`NotAppliedNeverLands`,
  `EndsAsRecorded`), no false alarm
  (`StaleMeansChanged`), termination (`EveryRunEnds`, `EveryStepCounts`);
- operations: APPLIED is true (`AppliedMeansDone`, `AppliedMeansWritten`,
  `AppliedMeansReserved`, `DeletedMeansGone`, `RestoredMeansOnce`) and said where
  it is
  (`OneMatchIsApplied`), nothing else is harmed (`ProtectedPolicyUntouched`,
  `OverwritesNothingItCouldSee`, `ReservesOnlyFreeAddresses`,
  `RestoreAddsNoDuplicate`, `DuplicatesFollowUnresolvedWrites`,
  `AmbiguousNeedsFreshPlan`, `SendsTheApprovedObject`);
- files: records are never half rewritten (`KeepsTheLog`), plans and writes have
  their snapshot (`PlansAreBacked`, `WritesHaveRollback`), damage is noticed
  (`RestoresWhatWasSaved`);
- paginated reads: exact on a quiet collection (`QuietReadIsExact`), complete and
  free of repetition but for named disturbances (`NothingLostToAdditions`,
  `NothingTwiceWithoutInsertion`);
- audit: what it claims is true of every packet (`ClaimsAreTrue`,
  `GatewayClaimsAreTrue`), what is clear is decided (`ClearCasesAreDecided`),
  a missing dataset is named in the coverage and in its section
  (`DatasetGapsAreNamed`, `VpnUnavailableIsNamed`), and nothing is claimed on it
  (`NothingSaidWithoutNetworks`, `UnresolvedIsUnknown`).

The code does not meet `AppliedMeansWritten`, `AmbiguousNeedsFreshPlan`,
`VpnUnavailableIsNamed` and `UnresolvedIsUnknown`, nor six others that have a
configuration of their own: see section 5.

## 2. The modules

An arrow from A to B reads "A extends B", unless it says otherwise.

    GuardedMutatorProofs -> GuardedMutator -(implements, proved)-> OperationLog
    GuardedFirewall   -> GuardedMutator, FirewallPolicy
    GuardedFixedIp    -> GuardedMutator, FixedIp
    GuardedPortForward -> GuardedMutator, PortForward
    GuardedFirewallProofs    -> GuardedFirewall, GuardedMutatorProofs
    GuardedFixedIpProofs     -> GuardedFixedIp, GuardedMutatorProofs
    GuardedPortForwardProofs -> GuardedPortForward, GuardedMutatorProofs

    OperationFilesProofs -> OperationFiles -(implements, proved)-> OperationLog

    PaginatedReadProofs -> PaginatedRead

    Audit -> Segmentation
    AuditProofs -> Audit, SegmentationProofs -> Segmentation

    MCFirewall, MCFixedIp, MCPortForward, MCFiles, MCPaginatedRead, MCAudit
        instances for TLC of the module each is named for

**GuardedMutator** is the engine. `_finish` receives `freshness`, `write`,
`verify`, `precondition` and `runtime_validate` from the operation; so does the
module, as constant operators (`ReadState`, `View`, `Validated`, `Precondition`,
`RuntimeSafe`, `Request`, `Verified`, ...). A run goes through the places `pc`
names; each step of the code that another process, an administrator, the network
or a kill can come between is an action:

| Action | Code (`mutationlib.py` unless named) |
|---|---|
| `Begin` | `mutate.py` 98-132: command line, phrase, token, identity |
| `TakeLock` | `_single_mutation`: taken means refused, never waited for |
| `ReadNext`, `ReadFails` | one GET of `read_state` |
| `Validate` | the operation's planning checks |
| `SaveSnapshot` | `_snapshot` |
| `Plan` | `_plan`, and the `dry_run` return of `_finish` |
| `Authorize` | `MutationGate.authorize` |
| `RecheckIdentity` | 850-859 |
| `RefetchNext`, `RefetchFails` | one GET of `freshness` |
| `CheckFresh` | precondition, then `runtime_validate` |
| `RecordAttempt`, `Send` | 881-886, in this order |
| `Receive` | `guarded_write` returns or raises; `Answers` are its classes |
| `VerifyNext`, `Judge`, `VerifyFails` | one GET, one attempt of `_bounded_reconcile` |
| `Complete` | verdict, record, output |
| `Crash` | a kill, an interrupt, a failed file operation |
| `Accept`, `Reject`, `Land` | the controller takes, refuses and carries out the request (external) |
| `Edit`, `Tick` | administrators, and fields that move by themselves (external) |

Every refusal journals its reason and then ends the process: that is one action
here, because `Crash` in the place before it leaves the same files as a kill
before the record, and after it nothing is left to do. `touched` and `unsettled`
are history variables: which of a run's reads the configuration has outlived, and
which tokens had an ambiguous outcome that no later plan has shown again.

**FirewallPolicy**, **FixedIp** and **PortForward** define the callbacks, and the
controller's side of the request (`...Landing`), of administrators (`...Edits`)
and of self-moving fields (`...Ticks`). They keep what the checks tell apart:

- a policy is its meaning (the semantic projection that the verification
  compares), its name and description, its schedule and IPsec filter, its index,
  its origin and whether it is configurable. Diff, merge and request are of all
  of these, the verification is of the meaning and the place only, as in the code,
  and the token of a create has meaning and name. One that allows return
  traffic has another next to it, derived by the controller together with it
  (`Settled`); `DerivedReturns` finds it as the code does, by protocol, IP version,
  addresses and the beginning of its name or its limits;
- a client is its network, its reservation in each of the two spellings the code
  reads (`use_fixedip` and `fixed_ip`, `fixedIpEnabled` and `fixedIpAddress`),
  "all other settings" and one volatile field. A GET of a client that has gone
  answers 404 or an empty list, and then `read_state` falls back to the record of
  the collection (`Gone`);
- a forward is its meaning and one volatile field, next to the policies and
  status entries the controller derives from it in its own time.

The **Guarded...** modules put them and the engine together and state what the
operations owe the network.

**OperationFiles** is one level below: the calls that `create_snapshot`,
`load_snapshot`, `OperationJournal.create` and `.update` make on the file
system. A file opened with mode "x" is there and half written until it is
closed; an update writes a temporary file and renames it; a run may stop between
any two calls, somebody may alter a saved object or its manifest, the clock may
repeat a time, and a power cut may take a folder, a name, contents or a rename that nothing has
flushed. The engine's steps in between (reads, checks, the request) are one
action each.

**OperationLog** is what both promise to a reader of the records: planned, one
recorded attempt before the single request, and one final refusal or verdict.
The engine implements it with `log <- journal` and `sent <- wire # "idle"`, the
files with a record that is not complete read as no record.

**PaginatedRead** has the two loops that read a collection of the official API
page by page, `_collect_spec` and `_get_official_collection`, and the people who
append, insert, move and remove records between two pages. The loops share their
actions (`GetPage`, `PageFails`) and differ in `TotalTaken`, `More` and in what a
failure means. A controller (`server`) serves pages as long as it was asked for or
shorter ones, and names its limit and the total or does not; `Stride` and
`Reported` are what the loops make of that.

**Segmentation** holds the rows of the audit as operators on the evidence
(`Row`, `GatewayRow`), and next to them a reference: which policy decides a
packet (`Deciding`, `Fate`). **Audit** takes them through a whole report:
`Discover` selects the site, `Collect` reads one dataset after the other, whole,
empty, in part or not at all, `Analyze` computes coverage, postures (that of the
VPN, which never says anything but "collected and analyzed", too), unknowns and
rows in one of the three scopes.

## 3. What is checked

| Run | Instance | Shows |
|---|---|---|
| `firewall_create` | three runs create one policy, which allows return traffic; 1 edit; 4 indexes | type, exclusion, records, NOT_APPLIED, duplicates only after an unresolved outcome, APPLIED true and said, what is printed is what is recorded, the records refine `OperationLog` |
| `firewall_change` | two runs update a policy in meaning and name, delete it, or aim at a system policy, a return policy and an earlier policy that returns, which is configurable or not; 1 edit; 2 identities; 4 indexes | only approved requests, on the approved and saved state; protected policies untouched; APPLIED true of a change that shows |
| `fixed_ip` | two runs reserve and release; 2 clients, 2 networks, 2 addresses; either spelling of the reservation, and either answer for a client that is gone; 1 edit, which may also switch a reservation off and leave its address; 1 move of a volatile field | no conflict, no lost setting, no false alarm the refetch could prevent; APPLIED true |
| `port_forward` | two runs delete or restore; 2 forwards there or none; a snapshot file that may be replaced or damaged; 1 edit | the approved object is sent, no duplicate, APPLIED means that policies and status have followed |
| `every_run_ends` | two runs under `FairSpec` | a run that starts ends, gives the lock back and, unless killed, has printed a plan, an error or a verdict; each of its steps brings it nearer to that, and nobody throws it back |
| `files` | three runs, two times, two reasons to refuse, an altered object or manifest, a power cut that hits one name | until the power fails, records refine `OperationLog` and what is sent has its snapshot; a restore sends the saved object or nothing |
| `pagination` | up to 5 records and a sixth to be added, pages of 2 or 1, every controller that names or leaves out limit and total, up to 3 additions, insertions, moves and removals | exactly which disturbances hide or repeat a record |
| `audit` | 3 networks in 2 zones, 4,477 policy tables and site listings, one dataset missing, empty or partial; for two of the tables every combination of gaps in nine datasets | rows are true of every packet, gaps in single datasets are named, nothing is said without networks |

Four more runs end in a violation: `renaming_applied`, `stale_approval_reused`,
`vpn_missing` and `unresolved_zones`. Six more configurations do, too, and are
kept beside the runs. Section 5 has all ten.

**Bounds.** Two runs are a plan and its application, or two applications under
one token; three are needed for "plan, ambiguous write, second write under the
same token", which `firewall_create` has, and for "snapshot lost, name used
again, restore", which `files` has. One edit (`MaxEdits`) is enough to come
between any two steps of a run; an edit that is undone again is what the theorems
on `firewall_change` and `fixed_ip` cover, which have no bound on edits. Indexes
leave one free place before and, in `firewall_create`, one behind the system
block. Two addresses, of which
others may take only one (`Contested`), give both a conflict and a way out. The
file a restore is given may come to hold a meaning the table does not have yet,
so that only the token stands between it and the controller. A volatile field
moves once (`MaxStamp`). A power cut hits one name (`MaxLost`) once
(`MaxPowerCuts`); a folder takes its files along, and losing both files of a
snapshot is caught by the loss of either. `files` tells two reasons to refuse
apart (`Reasons`); one alteration (`MaxAltered`) comes before or after the gate,
or before a restore. Five records on pages of two (`Longest`, `Limit`) are two
full pages and a short one; three edits shift records by more than a page. One
more record (`Records`) is there to be added; a second addition needs a record
that has gone before it was read, since ids are not used again. An inventory
comes with one gap, and with any number of them for two of the tables
(`MaxGaps`): gaps concern coverage and postures, which do not look at policies,
and two gaps in the evidence of the rows give no case that one does not. Tables
of one policy and pairs of policies cover every scope type, both orders and
equal indexes; a third policy is there where it must not matter. Runs are taken
as symmetric where only safety is checked. Every run stops when all its
processes have ended, so deadlock checking is off.

**Fairness.** `FairSpec` has weak fairness on the steps of a run once it has
begun, and on `Receive`. The first is the scheduler of the operating system: a
step is always enabled while a run is at work (a GET that cannot succeed can
fail). The second is an assumption about the network, not about the code:
`urlopen` is called without a timeout, so a peer that is silent for ever would
hold a run, and with it the lock, for ever. Nothing is assumed of `Begin`, of
kills, of the controller or of administrators.

**Mutations.** Each property is paired in `PROJECT.json` with a plausible bug in
one mapped definition (a dropped guard, a lock that is shared, a record written
too late, a comparison by id alone, a page that stops early...). The mutated
operators stand next to the definitions they replace, under a comment "Mutation
of", and nothing else uses them.

## 4. What is proved

Everything below holds for every value of the constants that satisfies the named
assumptions; the passing runs evaluate these on their instances.

**The engine** (`GuardedMutatorProofs`), for every set of runs, every family of
operations (the callbacks are arbitrary) and every bound:

- `TypeCorrect`: `TypeOK`. What is read, saved and sent has no type because the
  callbacks choose it; everything the engine itself keeps has one, and the
  approval of a command line is one that a plan printed.
- `Inductive`: `IInv`, the inductive invariant. The properties below are not
  inductive by themselves: that a request is recorded depends on what the record
  was when the run was about to send, that a NOT_APPLIED is true on an answer
  that was received much earlier. `IInv` says what the place of a run implies for
  its record and its request (`Phase`), that a 4xx in memory or a NOT_APPLIED on
  record comes with a request the controller refused (`Refused`), and that past
  the gate the command line is an approved one (`Approval`).
- `MutualExclusion`, `JournalledWrites`, `DefiniteRefusals`, `ApprovedWrites`:
  the invariants `OneMutationAtATime`, `EveryWriteIsJournalled`,
  `NotAppliedNeverLands`, `OnlyApprovedRunsWrite` follow from `IInv`.
- `TrueReports`: `EndsAsRecorded`, which is inductive next to `IInv`: what a run
  prints when it ends by itself is what its record says, and after a plan or an
  error nothing of it is, or will be, on the wire.
- `ImplementsLog`: the engine implements `OperationLog` (`KeepsTheLog`): initial
  states map to initial states, and each step maps to a step of the log or leaves
  it alone; kills and everything outside the process always do the latter.
- `BoundedRuns`: `EveryStepCounts`, the part of termination that is not a matter
  of scheduling. `StepsLeft` is a variant: the GETs a run still has to make in its
  two `read_state`s, its `max(1, attempts)` verifications and the other places
  before its end. The invariant (`NInv`) adds to `IInv` and `Memory` how
  verifications are counted (`Counted`). Each step of the run lessens the variant,
  whatever is answered; nobody else's step changes it; and while a run is at work
  it is not zero (`StillToGo`).

**What is replaced** (the same module, second half), for every family of operations that
satisfies `Covering`: a view is a function of the configuration, the precondition
determines the approval material and what the snapshot keeps, and no field moves
by itself. `CoveredCourse` has both `WritesWhatWasApproved` and
`SnapshotIsWhatIsReplaced`. `IInv` alone knows nothing of what a run has read;
`Memory` adds what its place says of its memory (nothing of a refetch before it
begins, all datasets read at its end), and `Course` that the snapshot and, past
the gate, the token are of what the run has seen in planning, and that a run
whose refetch nobody has disturbed holds the configuration there is.

**The firewall** (`GuardedFirewallProofs`), for every number of runs, every table
and every set of commands, with `FirewallFamily`: the engine has the callbacks of
`FirewallPolicy`, as the configurations of `MCFirewall` give them.

- `ApprovedTable`, `SavedTable`: the family satisfies `Covering`
  (`FirewallCovering`), so the two invariants above hold.
- `BlockUntouched`: `ProtectedPolicyUntouched`. The refusal is taken on what a run
  has read, so the invariant (`PInv`) follows it: the table is `Tidy` (what people
  and runs own is USER_DEFINED, the block is the system's, the rest is derived);
  a run that has read a policy it may change aims at one that people own and that
  is configurable or gone (`Looked`), and so does its request when it is under way
  (`Sound`), since nobody makes a policy of another kind under the same id; and
  the id of a run is new (`NewId`).
- `TrueChanges`: `AppliedMeansDone`. The invariant (`UInv`) has, next to `PInv` and
  what `Covering` gives, that a run which was alone since its refetch began finds
  the table it has read until its request lands, and then that table with its
  change (`Rests`), and that each verification has found one of the two. The table
  before the request never verifies a change that is `Visible` (`BeforeFails`): a
  plan with a duplicate or an empty diff is refused. A diff of nothing but name,
  description, schedule or IPsec filter is not empty and not visible, and there the
  table from before verifies: theorem and property leave such updates out, and the
  run `renaming_applied` shows what happens to them.
- `OneMatch`: `OneMatchIsApplied`, where every return policy that can be in the
  table goes somewhere else than that of the policy a create asks for, in
  protocol, IP version or addresses (`Apart`). Next to one that does not, the code
  does not say APPLIED (`OneMatchApplied.cfg`). The invariant (`OInv`) adds to
  `UInv` what the request of a run has found and done (`Landed`), so that what
  verify drops from the order is the return policy of the new one and nothing
  else (`OrderIsKept`).
- `CreatedOnce`: `DuplicatesFollowUnresolvedWrites`, where all runs create
  policies of one meaning (`OneMeaning`). The invariant (`Sole`) says, as long as
  nobody else has edited, that a policy in the table comes of a request which took
  effect and that an APPLIED has its policy there (`Created`), that a plan which
  has read the table after an APPLIED has seen that policy, so that nobody goes
  further (`Resolved`), and that at most one record says APPLIED (`Claimed`).

**Fixed IP** (`GuardedFixedIpProofs`), for every number of runs, clients,
networks and addresses, with `IpFamily`: the callbacks are those of `FixedIp`,
only administrators may do anything at all. A volatile field may move between any
two GETs, so that what a run has read need never have been the configuration;
the invariant (`IpCourse`) says that it agrees with it on everything else, dataset
by dataset, as long as nobody disturbs the run, and that past the comparison the
token and the conflict checks hold of the configuration there is (`Standing`).
From it follow `ApprovedReservation`, `NoFalseAlarm`, `NothingOverwritten` and
`FreeAddresses`. `TrueReservations` (`AppliedMeansReserved`) needs `Outcome` next
to it: a plan with an empty diff is refused, so the client differs from what is
asked for until the run's own request has landed, and what verification has found
tells the two apart if there is something to switch on or off, in either spelling.

**Port forwards** (`GuardedPortForwardProofs`). `ApprovedObject`, the invariant
`SendsTheApprovedObject`, is from `RestoringFamily`: approval and request are those
of `PortForward`, the other callbacks are arbitrary. The rest is from `PfFamily`,
with no limit on runs, forwards and edits, and edits of any kind:

- `NoDuplicate` (`RestoreAddsNoDuplicate`), `TrueDeletions` (`DeletedMeansGone`)
  and `TrueRestorations` (`RestoredMeansOnce`). Controller and forwards are out of
  step most of the time here, so the invariant (`PfInv`) does not say that a run
  has read what there is. For a run that was alone since its refetch began it says
  that the forward to delete is there until the request lands (`Standing`), that a
  restore has passed its comparison as the only one of its meaning (`Unique`), and
  for each GET of a verification what its answer, once it is right, proves of the
  configuration (`DeletionSeen`, `RestorationSeen`): policies and status come back
  only from a forward that is there, so one that has gone after it stays away.
- `RestoredMeansOnce` is stated for a controller that had nothing left of the old
  forward at the refetch (`NothingLeftBehind`). At the plan would not do: the
  forwarding status is not in the precondition, so a remainder that is seen only
  between the plan and the refetch goes unnoticed, and with it verification is
  satisfied before the controller has followed. The first attempt at this proof
  failed there, and with two edits TLC finds the behaviour.

**The files** (`OperationFilesProofs`), for any number of runs, times and reasons
to refuse:

- `FilesInvariant`: what the place of a run says of its record (`Recording`), of
  its folder (`Progress`) and of the saved object (`Snapshots`, `Rollback`); the
  parts that speak of contents hold until the power fails.
- `TypeCorrect`, `Backups` (`WritesHaveRollback`), `BackedPlans`
  (`PlansAreBacked`) and `FaithfulRestores` (`RestoresWhatWasSaved`, power cuts
  included: the digest in the manifest does not trust the object).
- `FilesKeepTheLog`: the files implement `OperationLog` until the power fails.

**Reading by pages** (`PaginatedReadProofs`), for collections and pages of every
size and any number of changes: `ReadInvariant`, `TypeCorrect`, `QuietReads`,
`CompleteReads`, `SingleReads`; `QuietReads` and `CompleteReads` for controllers
whose pages
name limit and total (`Explicit`). The invariant says where a record is that has not
been read: at or behind the next page, and before the total the reader believes
in (`OldReadOrAhead`); and that, without insertions and moves, nothing that has
been read is there again (`NewAhead`).

**The rows** (`SegmentationProofs`), for all networks, zones, addresses and policy
tables of any length: `RowIsTrue` and `RowIsComplete` compare a row with the fate
of every packet, `GatewayRowIsTrue` does so for the gateway, and
`NothingMatchesNothing` says that networks which were not collected get UNKNOWN.
**The report** (`AuditProofs`): `EvidenceInvariant` (what was collected is, or
begins, what was there; a report is the analysis of it), and from it and the
theorems on rows `TypeCorrect`, `TrueClaims`, `CompleteClaims`,
`TrueGatewayClaims`, `SilentWithoutNetworks` and `NamedDatasetGaps`, which speaks of
the datasets that have a line of their own in the coverage and not of the VPN.

**Assumptions on constants.** `GuardedMutator`: `RunAssumption`,
`CommandAssumption`, `StateAssumption`, `BoundAssumption`, `ReadAssumption`.
`FixedIp`: `ClientAssumption`, `StampAssumption`.
`PortForward`: `AbsentAssumption`, `StampAssumption`.
`FirewallPolicy`: `IndexAssumption`, `IdAssumption` (ids of people, runs, the
system and return policies are apart), `MeaningAssumption`, `PrefixAssumption` (a
name begins with itself), `AbsentAssumption`,
and in `GuardedFirewall` `StartAssumption`: at first the table has the system's
block, nothing any run created, what people own is USER_DEFINED, and the return
policies are those of what it has.
`OperationFiles`: `RunAssumption`, `StampAssumption`, `RefusalAssumption`,
`BoundAssumption`. `PaginatedRead`: `TableAssumption` (no record twice),
`LimitAssumption`, `ServerAssumption` (a limit that is named is the one served),
`EditAssumption`. `Segmentation`: `ZoneAssumption`,
`HostAssumption` (networks share no address), `PortAssumption`. `Audit`:
`DatasetAssumption`, `ConfigurationAssumption`, `RowAssumption`.

**Model-checked only.** `EveryRunEnds`, since liveness under fairness is out of
the prover's reach. Its safety part is proved: a run has a bounded number of
steps left (`BoundedRuns`), at its end it does not hold the lock
(`MutualExclusion`) and has reported, unless it was killed (`TrueReports`). That
it takes them (a step is enabled, and the scheduler grants it) is what TLC adds.
The ten configurations that end in a violation are about properties that do not
hold.

## 5. Findings

Four runs of `PROJECT.json` show where the code and what is said of it differ:

- `renaming_applied` (`AppliedMeansWritten`): an update is admitted by a diff of
  complete policies (`mutationlib.py` 778-780, over the merge at 1338) and verified
  by the semantic projection (351-377, 1417), which has no name, description,
  schedule or IPsec filter. The table from before an update of these alone
  verifies it, so one that was lost is reported APPLIED. The update
  `{"name": "Plan A"}` of `tests/test_mutation.py` 464 is such a one, and
  `references/mutation-safety.md` 71-72 wants an uncertain result reviewed.
  `AppliedMeansDone` is stated for changes that show (`Visible`).
- `stale_approval_reused` (`AmbiguousNeedsFreshPlan`): after an ambiguous outcome
  the old token still passes the gate if the state looks unchanged, although
  `references/mutation-safety.md` 71-72 requires a fresh plan and approval.
- `vpn_missing` (`VpnUnavailableIsNamed`): an inventory always has a dictionary for
  the VPN, and `vpn_posture` asks for nothing else (`auditlib/posture.py` 14): with
  neither dataset collected it says "collected and analyzed", the line "VPN posture
  is unavailable unless a VPN dataset was collected." is taken out of the unknowns
  (`auditlib/engine.py` 105-106), and the coverage of the same report says
  unsupported/unavailable (69).
- `unresolved_zones` (`UnresolvedIsUnknown`): zones that cannot be looked up are all
  called "unknown" and compared by name (`auditlib/firewall.py` 101), so without
  the zones the first policy of the table decides every relationship, which
  `references/audit-benchmarks.md` 35 says is `UNKNOWN`.

Six more configurations of the same modules each end in a counterexample within
a minute or so (`tlc -config X.cfg M`):

- `RemovalApplied.cfg` (`MCFixedIp`, `AppliedMeansReleased`): the verification of a
  removal asks only whether the reservation is off (`mutationlib.py` 1274). Of a
  client whose reservation is off already but keeps its address (a state
  `tests/test_mutation.py` 389 starts from) this holds before the request, so a
  lost request is reported APPLIED and the address stays. `AppliedMeansReserved`
  is stated where there is something to switch (`Switches`).
- `EditOverwritten.cfg` (`MCFixedIp`, `NeverOverwritesAnEdit`): an edit between the
  refetch and the effect of the PUT is overwritten, which
  `references/mutation-safety.md` 111 says is prevented. The API has no
  conditional write; `OverwritesNothingItCouldSee` is the promise that can be
  kept, and is about the edits before the refetch.
- `OneMatchApplied.cfg` (`MCFirewall`, `OneMatchIsApplied`): a create next to an
  earlier policy that allows return traffic, of the same zones, protocol, IP
  version and addresses, ends AMBIGUOUS_REQUIRES_REVIEW. `verify` drops what looks
  like a derived return policy from the order after the create (`mutationlib.py`
  1423), and with it the return policy of the earlier one, but not from the order
  before. `references/mutation-safety.md` 69 calls exactly one match APPLIED.
  Without such a policy the property holds (`firewall_create`).
- `SeveralMatches.cfg` (`MCFirewall`, `SeveralMatchesAreNotVerified`): a create
  answered with an id is verified by that id alone (1411, 1417), also if another
  policy has been rewritten into the same meaning meanwhile, which
  `references/mutation-safety.md` 69-70 calls ambiguous.
- `OtherSchedule.cfg` (`MCFirewall`, `CreatesWhatWasPlanned`): the token of a create
  is made of name, description and semantic projection (1366); one printed for a
  policy that always applies authorizes the same with a schedule, although
  `references/mutation-safety.md` 19-20 binds it to the proposed object.
- `VpnPartMissing.cfg` (`MCAudit`, `VpnPartsAreDistinguished`): with one of the two
  VPN datasets unavailable and the other whole, coverage says "collected and
  analyzed" (`auditlib/engine.py` 66-73); `README.md` 169-170 says that it
  distinguishes the two.

Weaknesses that need no run of their own:

- `mutate.py` 148 prints `"write_performed": false` for an ambiguous outcome,
  after the request was sent. The completion inside `details` says `true`. It
  prints the same, without details, for a PermissionError of the record that is
  rewritten after the request; in the models a file operation that fails is
  `Crash`, and `EndsAsRecorded` speaks of the other ends.
- Records are closed and renamed but never flushed (`operation_journal.py`
  57-62), so after a power cut a request may have left without a record of its
  attempt. `KeepsTheLog` speaks of the time until then.
- The verification of a restore takes what is related to the forward by name or
  fields for what the controller has derived from it (`mutationlib.py` 1121):
  policies and status left over from the deleted forward satisfy it.
  `RestoredMeansOnce` is stated for refetches that find no such leftovers.
- The removal of a reservation in the newer spelling leaves `fixedIpEnabled` as it
  is, which `verify` reads as a reservation (1204-1208, 1268): it is never APPLIED.
- A page without a total is taken for the whole collection (`mutationlib.py`
  710-712, `inventory.py` 165), and after a page that is shorter than asked for and
  does not say so the next one begins too late. `QuietReadIsExact` and
  `NothingLostToAdditions` are stated for pages that name both.
- An update or delete of a policy that has, or gets, a return policy changes the
  order of the others, too, and is never APPLIED.
- The inventory keeps the total of the first page (`inventory.py` 155-177), so an
  insertion can hide the last record, which the mutator's loop would still read.
  `Hides` names the difference.
- `audit.py` in the scopes `all` and `network` ends in a TypeError when the
  networks are unavailable (`auditlib/engine.py` 97); the report is "aborted" in
  `Audit`.
- `match_opposite` is kept (`auditlib/firewall.py` 46) and then ignored, ports
  next to a network or address are, too, and an address block that is part of a
  subnet counts as all of it. `ClaimsAreTrue` is stated where no policy of the
  zones does this (`Understood`), and the gateway rows where none refuses by
  REJECT.

## 6. Abstractions

- Digests are injective: tokens and checksums are the material they digest.
- All volatile keys are one field; zones and networks are one dataset that is
  complete or not; in the port-forward model zones, compared like the policies,
  are folded into them. List order of policies is their index.
- All meanings in a firewall instance are of one pair of zones, protocol and IP
  version; a return policy is derived, changed and removed together with its
  policy and stands behind all others.
- A client's id and MAC are one name. Network renames are not modelled.
- The environment of a plan-only run does not matter and is fixed. A failed
  identity discovery before the lock is `Crash` there.
- A snapshot is never damaged between its writing and the gate in
  `GuardedMutator`; `OperationFiles` has that.
- A restore's two planning loads of its source are one in `OperationFiles` and
  two in `PortForward`. Redaction, field checks of the manifest and file modes
  are left out.
- Time does not pass in a power cut: any unflushed name may be hit, also an old
  one.
- The controller answers 2xx only for requests it has taken and 4xx only for
  requests it will not carry out. The effect may come after the answer.
- A page holds what the collection has at its moment, and ids are not used again.
- The configuration stands still during the inventory of `Audit`;
  `PaginatedRead` is about one that does not.
- A packet is its two addresses, one port (or application, or device) and whether
  a policy about one protocol or state can be about it. Established connections
  and the firewall's default are no policies of the table and not in it.
- The VPN section is its status; what it says of servers and tunnels is left out.
  The audit is of an inventory that `collect_inventory` has made: an inventory
  file written by hand may lack the dictionaries it always has.
- A command asks for no index of its policy; the place is excluded from the
  semantic projection as the name is.
- That the forward taken for the restored one contains the saved meaning
  (`mutationlib.py` 1127) adds nothing to the other conditions of its
  verification, as the comment on `RestorationVerified` explains.

Not modelled: the correlation of clients, leases and reservations
(`discover_fixed_ip_state`) and the printed plans of the inventory; severities
and wording of exposure assessments and of the findings on single policies, which
are single passes over one record; the read-only commands of `udm.py`;
reachability probes, rollback previews, argument parsing and printing.

## 7. Plan

Done: the engine, the three families of operations with the objects the
controller derives, records and snapshots, paginated reads, inventory and
segmentation; the refinements of `OperationLog` on both levels, and every safety
and action property the passing runs check, as theorems.

Left, in this order:

1. fixed-IP discovery (`discover_fixed_ip_state`, `inventory.py` 191-236) as an
   operator against a reference, and the exposure assessment
   (`auditlib/exposure.py` 24-126);
2. the engine over the files: the actions of `GuardedMutator` that save, record
   and refuse as sequences of the calls of `OperationFiles`, and the theorems of
   the engine carried over.
