--------------------------- MODULE OperationFiles ---------------------------
(***************************************************************************)
(* The files behind the guarded engine: the snapshot folders that          *)
(* scripts/snapshot.py writes and loads and the operation records of       *)
(* scripts/operation_journal.py, file by file and call by call, for runs   *)
(* of mutate.py that follow one another under the mutation lock.  A run    *)
(* can be killed, or a file operation can fail, between any two calls; the *)
(* machine can lose its power; somebody else can alter a saved object or   *)
(* its manifest.                                                           *)
(* GuardedMutator has what happens between two calls of this module.       *)
(***************************************************************************)
EXTENDS Naturals, FiniteSets

CONSTANTS
    Runs,           \* invocations of mutate.py
    NoRun,          \* the lock is free
    Stamps,         \* the times a clock may show, each a folder name
    NoStamp,        \* no folder yet, or nothing to restore
    Reasons,        \* the refusals of _finish that are told apart
    MaxPowerCuts,   \* bound: power cuts
    MaxLost,        \* bound: names that one power cut hits
    MaxAltered      \* bound: files that are altered at one time

Verdicts == {"APPLIED", "NOT_APPLIED", "AMBIGUOUS_REQUIRES_REVIEW"}

\* A run is not to be mistaken for a text.
ASSUME RunAssumption ==
    /\ NoRun \notin Runs
    /\ Runs \cap ({"absent", "partial", "altered", "unmatched", "nothing",
                   "change", "WRITE_ATTEMPTED"} \cup Reasons \cup Verdicts) = {}
ASSUME StampAssumption == NoStamp \notin Stamps
ASSUME RefusalAssumption ==
    /\ {"REFUSED_AUTHORIZATION", "REFUSED_FRESHNESS_RECHECK_FAILED"} \subseteq Reasons
    /\ Reasons \subseteq
         {"REFUSED_AUTHORIZATION", "REFUSED_IDENTITY_RECHECK_FAILED",
          "REFUSED_IDENTITY_MISMATCH", "REFUSED_FRESHNESS_RECHECK_FAILED",
          "REFUSED_STALE_APPROVAL", "REFUSED_RUNTIME_SAFETY_CHECK"}
ASSUME BoundAssumption ==
    MaxPowerCuts \in Nat /\ MaxLost \in Nat /\ MaxAltered \in Nat

VARIABLES
    pc,      \* where each run is
    open,    \* it is between the open and the close of a file
    folder,  \* the snapshot folder it has made
    source,  \* the snapshot folder it was told to restore from
    loaded,  \* what it has loaded from there
    next,    \* the result it is recording
    lock,    \* the run that holds the mutation lock
    disk,    \* what a reader finds under each name
    sent,    \* the object each run has sent to the controller
    cuts,    \* counts power cuts, up to MaxPowerCuts
    saved,   \* history: the object the maker of a folder had to save
    late     \* history: runs whose snapshot was altered after the gate

process == <<pc, open, folder, source, loaded, next, lock>>
vars == <<process, disk, sent, cuts, saved, late>>

-----------------------------------------------------------------------------
Folder(s) == <<"folder", s>>
Payload(s) == <<"payload", s>>
Manifest(s) == <<"manifest", s>>
Record(r) == <<"record", r>>
Temporary(r) == <<"temporary", r>>
Names == ({"folder", "payload", "manifest"} \X Stamps)
           \cup ({"record", "temporary"} \X Runs)

\* The object a run reads and saves goes by the name of the run, and so does
\* its digest in the manifest.
Active == {"folder", "payload", "manifest", "record", "recorded", "gate",
           "checks", "updating", "replacing", "sending", "waiting"}
PastTheGate == {"checks", "updating", "replacing", "sending", "waiting"}

\* The file a run writes next, and what it puts there.
Writing(r) ==
    [payload  |-> [file |-> Payload(folder[r]), text |-> r],
     manifest |-> [file |-> Manifest(folder[r]), text |-> r],
     record   |-> [file |-> Record(r), text |-> "PLANNED_NO_WRITE"],
     updating |-> [file |-> Temporary(r), text |-> next[r]]]

\* Mutation of After: no manifest.
AfterWithoutManifest ==
    [payload |-> "record", manifest |-> "record", record |-> "recorded",
     updating |-> "replacing"]
After == [payload |-> "manifest", manifest |-> "record",
          record |-> "recorded", updating |-> "replacing"]

\* Mutation of Loadable: the digest is not compared.
LoadableUnchecked(s) ==
    /\ disk[Manifest(s)] \notin {"absent", "partial"}
    /\ disk[Payload(s)] \notin {"absent", "partial"}

\* load_snapshot: both files are whole and the digest is that of the object.
Loadable(s) ==
    /\ disk[Manifest(s)] \notin {"absent", "partial"}
    /\ disk[Payload(s)] = disk[Manifest(s)]

-----------------------------------------------------------------------------
Init ==
    /\ pc = [r \in Runs |-> "idle"]
    /\ open = [r \in Runs |-> FALSE]
    /\ folder = [r \in Runs |-> NoStamp]
    /\ source = [r \in Runs |-> NoStamp]
    /\ loaded = [r \in Runs |-> "nothing"]
    /\ next = [r \in Runs |-> "nothing"]
    /\ lock = NoRun
    /\ disk = [n \in Names |-> "absent"]
    /\ sent = [r \in Runs |-> "nothing"]
    /\ cuts = 0
    /\ saved = [s \in Stamps |-> "nothing"]
    /\ late = {}

Goto(r, where) == pc' = [pc EXCEPT ![r] = where]

\* The process ends, and the kernel gives the lock back.
Exit(r, where) ==
    /\ Goto(r, where)
    /\ open' = [open EXCEPT ![r] = FALSE]
    /\ loaded' = [loaded EXCEPT ![r] = "nothing"]
    /\ next' = [next EXCEPT ![r] = "nothing"]
    /\ lock' = NoRun
    /\ UNCHANGED <<folder, source>>

\* The lock, and for port-forward.restore the snapshot to restore.
Start(r) ==
    /\ pc[r] = "idle" /\ lock = NoRun
    /\ \/ UNCHANGED <<source, loaded>>
       \/ \E s \in Stamps :
            /\ Loadable(s)
            /\ source' = [source EXCEPT ![r] = s]
            /\ loaded' = [loaded EXCEPT ![r] = disk[Payload(s)]]
    /\ lock' = r
    /\ Goto(r, "folder")
    /\ UNCHANGED <<open, folder, next, disk, sent, cuts, saved, late>>

\* create_snapshot: a folder of this name must not exist.  The clock may show
\* any time, also one it has shown before.
MakeFolder(r) ==
    /\ pc[r] = "folder"
    /\ \E s \in Stamps :
         \/ /\ disk[Folder(s)] = "absent"
            /\ disk' = [disk EXCEPT ![Folder(s)] = r]
            /\ folder' = [folder EXCEPT ![r] = s]
            /\ saved' = [saved EXCEPT ![s] = r]
            /\ Goto(r, "payload")
            /\ UNCHANGED <<open, source, loaded, next, lock>>
         \/ /\ disk[Folder(s)] # "absent"
            /\ Exit(r, "done")
            /\ UNCHANGED <<disk, saved>>
    /\ UNCHANGED <<sent, cuts, late>>

\* open("x"): the folder is new, the operation id is new and a run updates its
\* record no more after a failed update, so that the name is always free.
OpenNew(r) ==
    /\ pc[r] \in DOMAIN After /\ ~open[r]
    /\ disk[Writing(r)[pc[r]].file] = "absent"
    /\ disk' = [disk EXCEPT ![Writing(r)[pc[r]].file] = "partial"]
    /\ open' = [open EXCEPT ![r] = TRUE]
    /\ UNCHANGED <<pc, folder, source, loaded, next, lock,
                   sent, cuts, saved, late>>

\* The text is written and the file closed; nothing is flushed to the device.
Close(r) ==
    /\ pc[r] \in DOMAIN After /\ open[r]
    /\ disk' = [disk EXCEPT ![Writing(r)[pc[r]].file] = Writing(r)[pc[r]].text]
    /\ open' = [open EXCEPT ![r] = FALSE]
    /\ Goto(r, After[pc[r]])
    /\ UNCHANGED <<folder, source, loaded, next, lock,
                   sent, cuts, saved, late>>

\* The plan is printed, or the run goes on to the gate.
Recorded(r) ==
    /\ pc[r] = "recorded"
    /\ \/ Exit(r, "planned")
       \/ /\ Goto(r, "gate")
          /\ UNCHANGED <<open, folder, source, loaded, next, lock>>
    /\ UNCHANGED <<disk, sent, cuts, saved, late>>

\* update is called with a new result.
Update(r, result) ==
    /\ Goto(r, "updating")
    /\ next' = [next EXCEPT ![r] = result]
    /\ UNCHANGED <<open, folder, source, loaded, lock,
                   disk, sent, cuts, saved, late>>

\* Mutation of Gate: the folder is there.
GateIsDir(r) ==
    /\ pc[r] = "gate"
    /\ \/ Update(r, "REFUSED_AUTHORIZATION")
       \/ /\ disk[Folder(folder[r])] # "absent"
          /\ Goto(r, "checks")
          /\ UNCHANGED <<open, folder, source, loaded, next, lock,
                         disk, sent, cuts, saved, late>>

\* MutationGate.authorize: the snapshot of this run can be loaded.  The token
\* and the phrase may be wrong anyway.
Gate(r) ==
    /\ pc[r] = "gate"
    /\ \/ Update(r, "REFUSED_AUTHORIZATION")
       \/ /\ Loadable(folder[r])
          /\ Goto(r, "checks")
          /\ UNCHANGED <<open, folder, source, loaded, next, lock,
                         disk, sent, cuts, saved, late>>

\* Identity, freshness and conflicts: any of them may refuse; a source that
\* cannot be loaded again does.
Checks(r) ==
    /\ pc[r] = "checks"
    /\ \/ \E result \in Reasons \ {"REFUSED_AUTHORIZATION"} : Update(r, result)
       \/ /\ source[r] # NoStamp =>
               /\ Loadable(source[r])
               /\ disk[Payload(source[r])] = loaded[r]
          /\ Update(r, "WRITE_ATTEMPTED")

\* Mutation of Replace: the temporary file is not renamed.
ReplaceForgotten(r) ==
    /\ pc[r] = "replacing"
    /\ disk' = [disk EXCEPT ![Temporary(r)] = "absent"]
    /\ \/ /\ next[r] = "WRITE_ATTEMPTED"
          /\ Goto(r, "sending")
          /\ UNCHANGED <<open, folder, source, loaded, next, lock>>
       \/ /\ next[r] # "WRITE_ATTEMPTED"
          /\ Exit(r, "done")
    /\ UNCHANGED <<sent, cuts, saved, late>>

\* temporary.replace(path): readers find the old record or the new one.
Replace(r) ==
    /\ pc[r] = "replacing"
    /\ disk' = [disk EXCEPT ![Record(r)] = disk[Temporary(r)],
                            ![Temporary(r)] = "absent"]
    /\ \/ /\ next[r] = "WRITE_ATTEMPTED"
          /\ Goto(r, "sending")
          /\ UNCHANGED <<open, folder, source, loaded, next, lock>>
       \/ /\ next[r] # "WRITE_ATTEMPTED"
          /\ Exit(r, "done")
    /\ UNCHANGED <<sent, cuts, saved, late>>

\* The one write: the object that was loaded, or a change made of what the
\* run itself has read.
Send(r) ==
    /\ pc[r] = "sending"
    /\ sent' = [sent EXCEPT ![r] =
                  IF source[r] = NoStamp THEN "change" ELSE loaded[r]]
    /\ Goto(r, "waiting")
    /\ UNCHANGED <<open, folder, source, loaded, next, lock,
                   disk, cuts, saved, late>>

\* Mutation of Conclude: a result no reader of the records knows.
ConcludeUnknown(r) ==
    /\ pc[r] = "waiting"
    /\ Update(r, "FAILED")

\* Answered, verified and judged: GuardedMutator says which verdict it is.
Conclude(r) ==
    /\ pc[r] = "waiting"
    /\ \E verdict \in Verdicts : Update(r, verdict)

\* The run is killed, a file operation fails, or an error ends it.
Stop(r) ==
    /\ pc[r] \in Active
    /\ Exit(r, "crashed")
    /\ UNCHANGED <<disk, sent, cuts, saved, late>>

-----------------------------------------------------------------------------
\* An altered object has another digest; an altered manifest has a digest that
\* no object has, or no longer says what load_snapshot wants it to say.
Altered(name) == IF name[1] = "payload" THEN "altered" ELSE "unmatched"

\* Somebody else alters a saved object or its manifest.
Alter(s) ==
    /\ Cardinality({n \in Names : disk[n] \in {"altered", "unmatched"}}) < MaxAltered
    /\ \E name \in {Payload(s), Manifest(s)} :
         /\ disk[name] \notin {"absent", "partial", Altered(name)}
         /\ disk' = [disk EXCEPT ![name] = Altered(name)]
    /\ late' = late \cup
         {r \in Runs : folder[r] = s /\ (pc[r] \in PastTheGate \/ sent[r] # "nothing")}
    /\ UNCHANGED <<process, sent, cuts, saved>>

\* What a power cut can leave of a file: nothing of it is flushed to the
\* device, so its name may be lost, its contents, or a replacement.
Remains(text) ==
    {"absent", "partial"}
      \cup (IF text \in {"WRITE_ATTEMPTED"} \cup Reasons \cup Verdicts
              THEN {"PLANNED_NO_WRITE"} ELSE {})
      \cup (IF text \in Verdicts THEN {"WRITE_ATTEMPTED"} ELSE {})

\* The machine stops and starts again.  A folder is lost with all its files.
PowerCut ==
    /\ cuts < MaxPowerCuts
    /\ cuts' = cuts + 1
    /\ \E hit \in SUBSET {n \in Names : disk[n] # "absent"} :
         /\ Cardinality(hit) <= MaxLost
         /\ \E left \in [hit -> UNION {Remains(disk[n]) : n \in hit}] :
              /\ \A n \in hit : left[n] \in
                   IF n[1] = "folder" THEN {"absent"} ELSE Remains(disk[n])
              /\ disk' = [n \in Names |->
                   IF n[1] \in {"payload", "manifest"} /\ Folder(n[2]) \in hit
                   THEN "absent"
                   ELSE IF n \in hit THEN left[n] ELSE disk[n]]
    /\ pc' = [r \in Runs |-> IF pc[r] \in Active THEN "crashed" ELSE pc[r]]
    /\ open' = [r \in Runs |-> FALSE]
    /\ loaded' = [r \in Runs |-> "nothing"]
    /\ next' = [r \in Runs |-> "nothing"]
    /\ lock' = NoRun
    /\ UNCHANGED <<folder, source, sent, saved, late>>

Next ==
    \/ \E r \in Runs :
         \/ Start(r) \/ MakeFolder(r) \/ OpenNew(r) \/ Close(r) \/ Recorded(r)
         \/ Gate(r) \/ Checks(r) \/ Replace(r) \/ Send(r) \/ Conclude(r)
         \/ Stop(r)
    \/ \E s \in Stamps : Alter(s)
    \/ PowerCut

Spec == Init /\ [][Next]_vars

-----------------------------------------------------------------------------
(* Properties. *)

\* What can be found on the disk, and the lock held by the run that is active.
TypeOK ==
    /\ pc \in [Runs -> {"idle", "planned", "done", "crashed"} \cup Active]
    /\ open \in [Runs -> BOOLEAN]
    /\ folder \in [Runs -> Stamps \cup {NoStamp}]
    /\ source \in [Runs -> Stamps \cup {NoStamp}]
    /\ loaded \in [Runs -> Runs \cup {"nothing"}]
    /\ next \in [Runs -> {"nothing", "WRITE_ATTEMPTED"}
                           \cup Reasons \cup Verdicts]
    /\ lock \in Runs \cup {NoRun}
    /\ disk \in [Names -> {"absent", "partial", "altered", "unmatched",
                           "PLANNED_NO_WRITE", "WRITE_ATTEMPTED"}
                             \cup Reasons \cup Verdicts \cup Runs]
    /\ sent \in [Runs -> {"nothing", "change"} \cup Runs]
    /\ cuts \in 0 .. MaxPowerCuts
    /\ saved \in [Stamps -> {"nothing"} \cup Runs]
    /\ late \subseteq Runs

\* A record that is only half there says nothing to its reader.
RecordRead(r) ==
    IF disk[Record(r)] \in {"absent", "partial"} THEN "NO_RECORD"
    ELSE disk[Record(r)]

\* Nothing is flushed to the device, so that a power cut can take back a record
\* or a snapshot; the properties that read these are about runs before one.
PowerHolds == cuts = 0

\* The files keep the promise of the operation records, wherever a run is
\* killed: a record is never half rewritten, and shows the attempt before
\* anything is sent (OperationJournal.create and update).
Log == INSTANCE OperationLog
         WITH log <- [r \in Runs |-> RecordRead(r)],
              sent <- [r \in Runs |-> sent[r] # "nothing"]

KeepsTheLog == Log!Init /\ [][PowerHolds' => [Log!Next]_(Log!vars)]_vars

\* What is sent has a rollback: the snapshot of the run can be loaded, unless
\* somebody has altered it since the gate looked at it.
WritesHaveRollback ==
    PowerHolds => \A r \in Runs :
        (sent[r] # "nothing" /\ r \notin late) => Loadable(folder[r])

\* A plan that was printed is on record, and its snapshot is whole: both files
\* are there, with the object it was made from unless somebody altered them.
PlansAreBacked ==
    PowerHolds => \A r \in Runs : pc[r] = "planned" =>
        /\ RecordRead(r) = "PLANNED_NO_WRITE"
        /\ disk[Manifest(folder[r])] \in {r, "unmatched"}
        /\ disk[Payload(folder[r])] \in {r, "altered"}

\* A restore sends the object that the maker of the folder has saved, and not
\* what a kill, a power cut or somebody else has left of it.
RestoresWhatWasSaved ==
    [][\A r \in Runs :
         (source[r] # NoStamp /\ sent'[r] # sent[r]) =>
             sent'[r] = saved[source[r]]]_vars
=============================================================================
