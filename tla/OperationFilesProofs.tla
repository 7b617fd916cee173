------------------------ MODULE OperationFilesProofs ------------------------
(***************************************************************************)
(* What the files of any number of runs are good for, whatever the clock   *)
(* shows, wherever runs are killed and however often the power fails.      *)
(***************************************************************************)
EXTENDS OperationFiles, TLAPS

\* The places in which the snapshot of a run is complete.
Backed == {"record", "recorded", "gate", "checks", "updating", "replacing",
           "sending", "waiting", "planned"}

\* The lock is held by the run that is at work, and files are open in it alone.
OneAtATime ==
    \A r \in Runs :
        /\ pc[r] \in Active <=> lock = r
        /\ open[r] => pc[r] \in DOMAIN After

\* What a run has and has done by the place where it is.
Progress ==
    \A r \in Runs :
        /\ pc[r] = "idle" => source[r] = NoStamp
        /\ pc[r] \in {"idle", "folder"} => folder[r] = NoStamp
        /\ pc[r] \in Active \ {"folder"} => folder[r] \in Stamps
        /\ pc[r] \in {"updating", "replacing"} =>
             /\ next[r] # "nothing"
             /\ next[r] \in Verdicts <=> sent[r] # "nothing"
        /\ pc[r] \in Active \ {"updating", "replacing", "waiting"} => sent[r] = "nothing"
        /\ pc[r] \in {"idle", "planned"} => sent[r] = "nothing"
        /\ pc[r] = "waiting" => sent[r] # "nothing"

\* What is in a folder was put there by the last run that made it, and a run
\* restores what was in a folder that is still there.
Snapshots ==
    /\ \A s \in Stamps :
         /\ disk[Manifest(s)] \in {"absent", "partial", "unmatched", saved[s]}
         /\ disk[Payload(s)] # "unmatched"
         /\ disk[Manifest(s)] # "absent" => disk[Folder(s)] # "absent"
    /\ \A r \in Runs :
         /\ pc[r] \in Active \ {"folder"} =>
              saved[folder[r]] = r /\ disk[Folder(folder[r])] # "absent"
         /\ (pc[r] \in Active /\ source[r] # NoStamp) =>
              /\ loaded[r] \in Runs /\ loaded[r] = saved[source[r]]
              /\ disk[Folder(source[r])] # "absent"

\* Before a power cut every run has the folder it has made for itself, and its
\* snapshot once it is complete.
Recoverable(r) ==
    /\ folder[r] # NoStamp => disk[Folder(folder[r])] = r
    /\ pc[r] = "manifest" => disk[Payload(folder[r])] \in {r, "altered"}
    /\ (pc[r] \in Backed \/ sent[r] # "nothing") =>
         /\ folder[r] \in Stamps
         /\ disk[Manifest(folder[r])] \in {r, "unmatched"}
         /\ disk[Payload(folder[r])] \in {r, "altered"}
    /\ (\/ pc[r] \in {"checks", "sending"} \/ sent[r] # "nothing"
        \/ pc[r] \in {"updating", "replacing"} /\ next[r] = "WRITE_ATTEMPTED") =>
         r \in late \/ Loadable(folder[r])
Rollback == PowerHolds => \A r \in Runs : Recoverable(r)

\* Before a power cut the record of a run is that of the place where it is.
Recording(r) ==
    /\ pc[r] \in {"idle", "folder", "payload", "manifest", "record"} =>
         disk[Record(r)] \in {"absent", "partial"}
    /\ pc[r] \in {"recorded", "gate", "checks", "planned"} =>
         disk[Record(r)] = "PLANNED_NO_WRITE"
    /\ pc[r] \in {"updating", "replacing"} =>
         disk[Record(r)] = IF next[r] \in Verdicts THEN "WRITE_ATTEMPTED"
                           ELSE "PLANNED_NO_WRITE"
    /\ pc[r] = "replacing" => disk[Temporary(r)] = next[r]
    /\ pc[r] \in {"sending", "waiting"} => disk[Record(r)] = "WRITE_ATTEMPTED"
Records == PowerHolds => \A r \in Runs : Recording(r)

IInv == TypeOK /\ OneAtATime /\ Progress /\ Snapshots /\ Rollback /\ Records

LEMMA InvariantSuffices ==
  IInv => TypeOK /\ WritesHaveRollback /\ PlansAreBacked
<1> SUFFICES ASSUME IInv
             PROVE  TypeOK /\ WritesHaveRollback /\ PlansAreBacked
  OBVIOUS
<1> USE RunAssumption DEF IInv, Rollback, Recoverable, Loadable, Records, Recording
<1>1. WritesHaveRollback
  BY DEF WritesHaveRollback, Loadable
<1>2. PlansAreBacked
  BY DEF PlansAreBacked, Backed, RecordRead
<1>3. QED
  BY <1>1, <1>2

\* No two of the names on the disk are the same.
LEMMA NamesDiffer ==
  /\ \A s \in Stamps : Folder(s) \in Names /\ Payload(s) \in Names /\ Manifest(s) \in Names
  /\ \A r \in Runs : Record(r) \in Names /\ Temporary(r) \in Names
  /\ \A s, t \in Stamps :
        /\ Folder(s) = Folder(t) => s = t
        /\ Payload(s) = Payload(t) => s = t
        /\ Manifest(s) = Manifest(t) => s = t
        /\ Folder(s) # Payload(t) /\ Folder(s) # Manifest(t) /\ Payload(s) # Manifest(t)
  /\ \A r, q \in Runs :
        /\ Record(r) = Record(q) => r = q
        /\ Temporary(r) = Temporary(q) => r = q
        /\ Record(r) # Temporary(q)
  /\ \A s \in Stamps, r \in Runs :
        /\ Folder(s) # Record(r) /\ Payload(s) # Record(r) /\ Manifest(s) # Record(r)
        /\ Folder(s) # Temporary(r) /\ Payload(s) # Temporary(r)
        /\ Manifest(s) # Temporary(r)
BY DEF Folder, Payload, Manifest, Record, Temporary, Names

LEMMA InitInvariant == Init => IInv
<1> SUFFICES ASSUME Init PROVE IInv
  OBVIOUS
<1> USE RunAssumption, StampAssumption DEF Init
<1>1. TypeOK
  BY BoundAssumption DEF TypeOK
<1>2. OneAtATime
  BY DEF OneAtATime, Active
<1>3. Progress
  BY DEF Progress, Active
<1>4. Snapshots
  BY NamesDiffer DEF Snapshots, Active
<1>5. Rollback
  BY DEF Rollback, Recoverable, Loadable, Backed, PastTheGate
<1>6. Records
  BY NamesDiffer DEF Records, Recording
<1>7. QED
  BY <1>1, <1>2, <1>3, <1>4, <1>5, <1>6 DEF IInv

-----------------------------------------------------------------------------
(* Steps of one run. *)

\* The run at work is alone.
LEMMA Alone ==
  ASSUME IInv, NEW r \in Runs, pc[r] \in Active
  PROVE  /\ lock = r
         /\ \A q \in Runs \ {r} : pc[q] \notin Active /\ ~open[q]
BY DEF IInv, OneAtATime, After, Active

LEMMA SendKeepsInvariant ==
  ASSUME IInv, NEW r \in Runs, Send(r)
  PROVE  IInv'
<1> USE RunAssumption, StampAssumption DEF Send, Goto
<1>0. /\ TypeOK /\ OneAtATime /\ Progress /\ Snapshots /\ Rollback /\ Records
  BY DEF IInv
<1>1. /\ pc[r] = "sending" /\ pc' = [pc EXCEPT ![r] = "waiting"]
      /\ UNCHANGED <<open, folder, source, loaded, next, lock, disk, cuts, saved, late>>
      /\ sent' = [sent EXCEPT ![r] = IF source[r] = NoStamp THEN "change" ELSE loaded[r]]
  OBVIOUS
<1>2. /\ source[r] = NoStamp \/ loaded[r] \in Runs
      /\ sent'[r] # "nothing"
  BY <1>0, <1>1 DEF TypeOK, Snapshots, Active
<1>3. TypeOK'
  BY <1>0, <1>1, <1>2 DEF TypeOK, Active
<1>4. OneAtATime'
  BY <1>0, <1>1 DEF TypeOK, OneAtATime, Active, After
<1>5. Progress'
  BY <1>0, <1>1, <1>2 DEF TypeOK, Progress, Active
<1>6. Snapshots'
  BY <1>0, <1>1 DEF TypeOK, Snapshots, Active
<1>7. Rollback'
  BY <1>0, <1>1 DEF TypeOK, Rollback, Recoverable, Loadable, PowerHolds, Backed
<1>8. Records'
  BY <1>0, <1>1 DEF TypeOK, Records, Recording, PowerHolds
<1>9. QED
  BY <1>3, <1>4, <1>5, <1>6, <1>7, <1>8 DEF IInv

LEMMA ExitKeepsInvariant ==
  ASSUME IInv, NEW r \in Runs, NEW where \in {"planned", "done", "crashed"},
         Exit(r, where), UNCHANGED <<disk, sent, cuts, saved, late>>,
         pc[r] \in Active, where = "planned" => pc[r] = "recorded"
  PROVE  IInv'
<1> USE RunAssumption, StampAssumption
<1>0. TypeOK /\ OneAtATime /\ Progress /\ Snapshots /\ Rollback /\ Records
  BY DEF IInv
<1>1. /\ pc' = [pc EXCEPT ![r] = where] /\ open' = [open EXCEPT ![r] = FALSE]
      /\ loaded' = [loaded EXCEPT ![r] = "nothing"]
      /\ next' = [next EXCEPT ![r] = "nothing"]
      /\ lock' = NoRun /\ UNCHANGED <<folder, source>>
  BY DEF Exit, Goto
<1>2. \A q \in Runs \ {r} : pc[q] \notin Active /\ ~open[q]
  BY Alone
<1>3. TypeOK'
  BY <1>0, <1>1 DEF TypeOK
<1>4. OneAtATime'
  BY <1>0, <1>1, <1>2 DEF TypeOK, OneAtATime, Active
<1>5. Progress'
  BY <1>0, <1>1 DEF TypeOK, Progress, Active
<1>6. Snapshots'
  BY <1>0, <1>1, <1>2 DEF TypeOK, Snapshots, Active
<1>7. Rollback'
  BY <1>0, <1>1, <1>2 DEF TypeOK, Rollback, Recoverable, Loadable, PowerHolds, Backed, Active
<1>8. Records'
  BY <1>0, <1>1, <1>2 DEF TypeOK, Records, Recording, PowerHolds, Active
<1>9. QED
  BY <1>3, <1>4, <1>5, <1>6, <1>7, <1>8 DEF IInv

\* A run that goes on from the record to the gate, or through the gate.
LEMMA GotoKeepsInvariant ==
  ASSUME IInv, NEW r \in Runs, NEW where \in {"gate", "checks"}, Goto(r, where),
         UNCHANGED <<open, folder, source, loaded, next, lock,
                     disk, sent, cuts, saved, late>>,
         where = "gate" => pc[r] = "recorded",
         where = "checks" => pc[r] = "gate" /\ Loadable(folder[r])
  PROVE  IInv'
<1> USE RunAssumption, StampAssumption
<1>0. TypeOK /\ OneAtATime /\ Progress /\ Snapshots /\ Rollback /\ Records
  BY DEF IInv
<1>1. pc[r] \in {"recorded", "gate"} /\ pc' = [pc EXCEPT ![r] = where]
  BY DEF Goto
<1>3. TypeOK'
  BY <1>0, <1>1 DEF TypeOK, Active
<1>4. OneAtATime'
  BY <1>0, <1>1 DEF TypeOK, OneAtATime, Active, After
<1>5. Progress'
  BY <1>0, <1>1 DEF TypeOK, Progress, Active
<1>6. Snapshots'
  BY <1>0, <1>1 DEF TypeOK, Snapshots, Active
<1>7. Rollback'
  BY <1>0, <1>1 DEF TypeOK, Rollback, Recoverable, PowerHolds, Backed, Loadable
<1>8. Records'
  BY <1>0, <1>1 DEF TypeOK, Records, Recording, PowerHolds
<1>9. QED
  BY <1>3, <1>4, <1>5, <1>6, <1>7, <1>8 DEF IInv

\* A result to record: a verdict once the request is out, an attempt after the
\* checks.
LEMMA UpdateKeepsInvariant ==
  ASSUME IInv, NEW r \in Runs, NEW result, Update(r, result),
         result \in {"WRITE_ATTEMPTED"} \cup Reasons \cup Verdicts,
         pc[r] \in {"gate", "checks", "waiting"},
         result \in Verdicts <=> pc[r] = "waiting",
         result = "WRITE_ATTEMPTED" => pc[r] = "checks"
  PROVE  IInv'
<1> USE RunAssumption, StampAssumption
<1>0. TypeOK /\ OneAtATime /\ Progress /\ Snapshots /\ Rollback /\ Records
  BY DEF IInv
<1>1. /\ pc' = [pc EXCEPT ![r] = "updating"] /\ next' = [next EXCEPT ![r] = result]
      /\ UNCHANGED <<open, folder, source, loaded, lock, disk, sent, cuts, saved, late>>
  BY DEF Update, Goto
<1>2. result # "nothing" /\ "WRITE_ATTEMPTED" \notin Verdicts
  BY RefusalAssumption DEF Verdicts
<1>3. TypeOK'
  BY <1>0, <1>1 DEF TypeOK, Active
<1>4. OneAtATime'
  BY <1>0, <1>1 DEF TypeOK, OneAtATime, Active, After
<1>5. Progress'
  BY <1>0, <1>1, <1>2 DEF TypeOK, Progress, Active
<1>6. Snapshots'
  BY <1>0, <1>1 DEF TypeOK, Snapshots, Active
<1>7. Rollback'
  BY <1>0, <1>1, <1>2 DEF TypeOK, Rollback, Recoverable, Loadable, PowerHolds, Backed, Progress, Active
<1>8. Records'
  BY <1>0, <1>1, <1>2 DEF TypeOK, Records, Recording, PowerHolds
<1>9. QED
  BY <1>3, <1>4, <1>5, <1>6, <1>7, <1>8 DEF IInv

LEMMA StartKeepsInvariant ==
  ASSUME IInv, NEW r \in Runs, Start(r)
  PROVE  IInv'
<1> USE RunAssumption, StampAssumption
<1>0. TypeOK /\ OneAtATime /\ Progress /\ Snapshots /\ Rollback /\ Records
  BY DEF IInv
<1>1. /\ pc[r] = "idle" /\ lock = NoRun
      /\ pc' = [pc EXCEPT ![r] = "folder"] /\ lock' = r
      /\ UNCHANGED <<open, folder, next, disk, sent, cuts, saved, late>>
  BY DEF Start, Goto
<1>2. \A q \in Runs : pc[q] \notin Active
  BY <1>0, <1>1 DEF OneAtATime
<1>3. \/ source' = source /\ loaded' = loaded
      \/ \E s \in Stamps :
            /\ source' = [source EXCEPT ![r] = s]
            /\ loaded' = [loaded EXCEPT ![r] = saved[s]]
            /\ saved[s] \in Runs /\ disk[Folder(s)] # "absent"
  <2>1. ASSUME NEW s \in Stamps, Loadable(s),
               source' = [source EXCEPT ![r] = s],
               loaded' = [loaded EXCEPT ![r] = disk[Payload(s)]]
        PROVE  /\ loaded' = [loaded EXCEPT ![r] = saved[s]]
               /\ saved[s] \in Runs /\ disk[Folder(s)] # "absent"
    <3>1. disk[Payload(s)] = saved[s] /\ disk[Folder(s)] # "absent"
      BY <1>0, <2>1 DEF Loadable, Snapshots
    <3>3. saved[s] \in {"nothing"} \cup Runs
      BY <1>0 DEF TypeOK
    <3>4. saved[s] # "nothing"
      BY <1>0, <3>1, NamesDiffer, RefusalAssumption DEF TypeOK, Verdicts
    <3>5. QED
      BY <2>1, <3>1, <3>3, <3>4
  <2>2. QED
    BY <2>1 DEF Start
<1>4. TypeOK'
  BY <1>0, <1>1, <1>3 DEF TypeOK, Active
<1>5. OneAtATime'
  BY <1>0, <1>1, <1>2 DEF TypeOK, OneAtATime, Active, After
<1>6. Progress'
  BY <1>0, <1>1, <1>3 DEF TypeOK, Progress, Active
<1>7. Snapshots'
  <2>1. \A q \in Runs : pc'[q] \in Active => q = r
    BY <1>0, <1>1, <1>2 DEF TypeOK
  <2>2. pc'[r] = "folder"
    BY <1>0, <1>1 DEF TypeOK
  <2>3. source'[r] # NoStamp =>
          /\ loaded'[r] \in Runs /\ loaded'[r] = saved'[source'[r]]
          /\ disk'[Folder(source'[r])] # "absent"
    <3>1. source[r] = NoStamp
      BY <1>0, <1>1 DEF Progress
    <3>2. ASSUME NEW s \in Stamps, source' = [source EXCEPT ![r] = s],
                 loaded' = [loaded EXCEPT ![r] = saved[s]]
          PROVE  source'[r] = s /\ loaded'[r] = saved[s]
      BY <1>0, <3>2 DEF TypeOK
    <3>3. QED
      BY <1>1, <1>3, <3>1, <3>2
  <2>4. QED
    BY <1>0, <1>1, <2>1, <2>2, <2>3 DEF Snapshots
<1>8. Rollback'
  BY <1>0, <1>1 DEF TypeOK, Rollback, Recoverable, Loadable, PowerHolds, Backed
<1>9. Records'
  BY <1>0, <1>1 DEF TypeOK, Records, Recording, PowerHolds
<1>10. QED
  BY <1>4, <1>5, <1>6, <1>7, <1>8, <1>9 DEF IInv

LEMMA MakeFolderKeepsInvariant ==
  ASSUME IInv, NEW r \in Runs, MakeFolder(r)
  PROVE  IInv'
<1> USE RunAssumption, StampAssumption
<1>0. TypeOK /\ OneAtATime /\ Progress /\ Snapshots /\ Rollback /\ Records
  BY DEF IInv
<1>1. pc[r] = "folder" /\ pc[r] \in Active /\ UNCHANGED <<sent, cuts, late>>
  BY DEF MakeFolder, Active
<1>2. PICK s \in Stamps :
        \/ /\ disk[Folder(s)] = "absent"
           /\ disk' = [disk EXCEPT ![Folder(s)] = r]
           /\ folder' = [folder EXCEPT ![r] = s]
           /\ saved' = [saved EXCEPT ![s] = r]
           /\ Goto(r, "payload")
           /\ UNCHANGED <<open, source, loaded, next, lock>>
        \/ Exit(r, "done") /\ UNCHANGED <<disk, saved>>
  BY DEF MakeFolder
<1>3. CASE Exit(r, "done") /\ UNCHANGED <<disk, saved>>
  BY <1>1, <1>3, ExitKeepsInvariant
<1>4. ASSUME disk[Folder(s)] = "absent",
             disk' = [disk EXCEPT ![Folder(s)] = r],
             folder' = [folder EXCEPT ![r] = s],
             saved' = [saved EXCEPT ![s] = r],
             pc' = [pc EXCEPT ![r] = "payload"],
             UNCHANGED <<open, source, loaded, next, lock>>
      PROVE  IInv'
  <2> USE <1>4
  <2>1. \A q \in Runs \ {r} : pc[q] \notin Active
    BY <1>1, Alone
  <2>2. /\ \A n \in Names : n # Folder(s) => disk'[n] = disk[n]
        /\ disk'[Folder(s)] = r /\ r # "absent"
        /\ \A t \in Stamps : t # s => saved'[t] = saved[t]
        /\ saved'[s] = r
    BY <1>0, NamesDiffer DEF TypeOK
  <2>3. \A t \in Stamps :
          /\ disk'[Payload(t)] = disk[Payload(t)] /\ disk'[Manifest(t)] = disk[Manifest(t)]
          /\ t # s => disk'[Folder(t)] = disk[Folder(t)]
    BY <2>2, NamesDiffer
  <2>4. \A q \in Runs :
          disk'[Record(q)] = disk[Record(q)] /\ disk'[Temporary(q)] = disk[Temporary(q)]
    BY <2>2, NamesDiffer
  <2>5. /\ \A q \in Runs \ {r} : pc'[q] = pc[q] /\ folder'[q] = folder[q]
        /\ pc'[r] = "payload" /\ folder'[r] = s
    BY <1>0 DEF TypeOK
  <2>6. TypeOK'
    BY <1>0, <1>1, NamesDiffer DEF TypeOK, Active
  <2>7. OneAtATime'
    BY <1>0, <1>1 DEF TypeOK, OneAtATime, Active, After
  <2>8. Progress'
    BY <1>0, <1>1, <2>5 DEF TypeOK, Progress, Active
  <2>9. Snapshots'
    <3>1. ASSUME NEW t \in Stamps
          PROVE  /\ disk'[Manifest(t)] \in {"absent", "partial", "unmatched", saved'[t]}
                 /\ disk'[Payload(t)] # "unmatched"
                 /\ disk'[Manifest(t)] # "absent" => disk'[Folder(t)] # "absent"
      BY <1>0, <2>2, <2>3 DEF Snapshots
    <3>2. saved'[folder'[r]] = r /\ disk'[Folder(folder'[r])] # "absent"
      BY <2>2, <2>5
    <3>3. source[r] # NoStamp =>
            /\ loaded[r] \in Runs /\ loaded[r] = saved'[source[r]]
            /\ disk'[Folder(source[r])] # "absent"
      <4>1. source[r] # NoStamp => source[r] \in Stamps
        BY <1>0 DEF TypeOK
      <4>2. source[r] # NoStamp =>
              /\ loaded[r] \in Runs /\ loaded[r] = saved[source[r]]
              /\ disk[Folder(source[r])] # "absent"
        BY <1>0, <1>1 DEF Snapshots
      <4>3. QED
        BY <2>2, <2>3, <4>1, <4>2
    <3>4. QED
      BY <2>1, <2>5, <3>1, <3>2, <3>3 DEF Snapshots
  <2>10. Rollback'
    <3> SUFFICES ASSUME PowerHolds, NEW q \in Runs
                 PROVE  Recoverable(q)'
      BY <1>1 DEF Rollback, PowerHolds
    <3>1. CASE q = r
      BY <1>0, <1>1, <2>2, <2>5, <3>1 DEF Recoverable, Loadable, Progress, Active, Backed
    <3>2. CASE q # r
      <4>1. folder[q] # NoStamp => folder[q] \in Stamps /\ folder[q] # s
        BY <1>0, <3>2 DEF TypeOK, Rollback, Recoverable, Loadable
      <4>2. pc'[q] = pc[q] /\ folder'[q] = folder[q] /\ pc[q] # "manifest"
        BY <2>1, <2>5, <3>2 DEF Active
      <4>3. QED
        BY <1>0, <1>1, <2>3, <4>1, <4>2 DEF Rollback, Recoverable, Loadable
    <3>3. QED
      BY <3>1, <3>2
  <2>11. Records'
    BY <1>0, <1>1, <2>4, <2>5 DEF Records, Recording, PowerHolds
  <2>12. QED
    BY <2>6, <2>7, <2>8, <2>9, <2>10, <2>11 DEF IInv
<1>5. QED
  BY <1>2, <1>3, <1>4 DEF Goto

\* A file of the run is opened or closed, and what it holds then.
Wrote(r, text) ==
    /\ folder[r] \in Stamps
    /\ \A s \in Stamps :
         /\ disk'[Folder(s)] = disk[Folder(s)]
         /\ disk'[Payload(s)] = IF pc[r] = "payload" /\ s = folder[r] THEN text
                                ELSE disk[Payload(s)]
         /\ disk'[Manifest(s)] = IF pc[r] = "manifest" /\ s = folder[r] THEN text
                                 ELSE disk[Manifest(s)]
    /\ \A q \in Runs :
         /\ disk'[Record(q)] = IF pc[r] = "record" /\ q = r THEN text
                               ELSE disk[Record(q)]
         /\ disk'[Temporary(q)] = IF pc[r] = "updating" /\ q = r THEN text
                                  ELSE disk[Temporary(q)]
    /\ Writing(r)[pc[r]].file \in Names

LEMMA WrittenFiles ==
  ASSUME IInv, NEW r \in Runs, pc[r] \in DOMAIN After, NEW text,
         disk' = [disk EXCEPT ![Writing(r)[pc[r]].file] = text]
  PROVE  Wrote(r, text)
<1> DEFINE file == Writing(r)[pc[r]].file
<1>1. /\ pc[r] \in {"payload", "manifest", "record", "updating"}
      /\ pc[r] \in Active \ {"folder"} /\ folder[r] \in Stamps
      /\ disk \in [Names -> {"absent", "partial", "altered", "unmatched", "PLANNED_NO_WRITE",
                             "WRITE_ATTEMPTED"} \cup Reasons \cup Verdicts \cup Runs]
  BY DEF IInv, TypeOK, Progress, After, Active
<1>2. /\ pc[r] = "payload" => file = Payload(folder[r])
      /\ pc[r] = "manifest" => file = Manifest(folder[r])
      /\ pc[r] = "record" => file = Record(r)
      /\ pc[r] = "updating" => file = Temporary(r)
  BY DEF Writing
<1> HIDE DEF file
<1>3. file \in Names
  BY <1>1, <1>2, NamesDiffer
<1>4. disk' = [disk EXCEPT ![file] = text]
  BY DEF file
<1>5. \A n \in Names : disk'[n] = IF n = file THEN text ELSE disk[n]
  BY <1>1, <1>3, <1>4
<1>6. ASSUME NEW s \in Stamps
      PROVE  /\ Folder(s) # file
             /\ Payload(s) = file <=> pc[r] = "payload" /\ s = folder[r]
             /\ Manifest(s) = file <=> pc[r] = "manifest" /\ s = folder[r]
             /\ Folder(s) \in Names /\ Payload(s) \in Names /\ Manifest(s) \in Names
  BY <1>1, <1>2, NamesDiffer
<1>7. ASSUME NEW q \in Runs
      PROVE  /\ Record(q) = file <=> pc[r] = "record" /\ q = r
             /\ Temporary(q) = file <=> pc[r] = "updating" /\ q = r
             /\ Record(q) \in Names /\ Temporary(q) \in Names
  BY <1>1, <1>2, NamesDiffer
<1>8. ASSUME NEW s \in Stamps
      PROVE  /\ disk'[Folder(s)] = disk[Folder(s)]
             /\ disk'[Payload(s)] = IF pc[r] = "payload" /\ s = folder[r] THEN text
                                    ELSE disk[Payload(s)]
             /\ disk'[Manifest(s)] = IF pc[r] = "manifest" /\ s = folder[r] THEN text
                                     ELSE disk[Manifest(s)]
  BY <1>5, <1>6
<1>9. ASSUME NEW q \in Runs
      PROVE  /\ disk'[Record(q)] = IF pc[r] = "record" /\ q = r THEN text
                                   ELSE disk[Record(q)]
             /\ disk'[Temporary(q)] = IF pc[r] = "updating" /\ q = r THEN text
                                      ELSE disk[Temporary(q)]
  BY <1>5, <1>7
<1>10. QED
  BY <1>1, <1>3, <1>8, <1>9 DEF file, Wrote

LEMMA OpenKeepsInvariant ==
  ASSUME IInv, NEW r \in Runs, OpenNew(r)
  PROVE  IInv'
<1> USE RunAssumption, StampAssumption
<1>0. TypeOK /\ OneAtATime /\ Progress /\ Snapshots /\ Rollback /\ Records
  BY DEF IInv
<1>1. /\ pc[r] \in DOMAIN After /\ pc[r] \in Active
      /\ disk' = [disk EXCEPT ![Writing(r)[pc[r]].file] = "partial"]
      /\ open' = [open EXCEPT ![r] = TRUE]
      /\ UNCHANGED <<pc, folder, source, loaded, next, lock, sent, cuts, saved, late>>
  BY DEF OpenNew, After, Active
<1>2. Wrote(r, "partial")
  BY <1>1, WrittenFiles
<1>3. TypeOK'
  BY <1>0, <1>1, <1>2 DEF TypeOK, Wrote
<1>4. OneAtATime'
  BY <1>0, <1>1 DEF TypeOK, OneAtATime
<1>5. Progress'
  BY <1>0, <1>1 DEF Progress
<1>6. Snapshots'
  <2>1. /\ \A q \in Runs : pc[q] \in Active \ {"folder"} => folder[q] \in Stamps
        /\ \A q \in Runs : source[q] # NoStamp => source[q] \in Stamps
    BY <1>0 DEF TypeOK, Progress
  <2>2. disk[Folder(folder[r])] # "absent" \/ pc[r] # "manifest"
    BY <1>0, <1>1 DEF Snapshots, Active
  <2>3. QED
    BY <1>0, <1>1, <1>2, <2>1, <2>2 DEF Snapshots, Wrote
<1>7. Rollback'
  <2>1. \A q \in Runs : folder[q] # NoStamp => folder[q] \in Stamps
    BY <1>0 DEF TypeOK
  <2>2. PowerHolds => \A q \in Runs \ {r} : folder[q] # folder[r]
    BY <1>0, <1>2, <2>1 DEF Rollback, Recoverable, Loadable, Wrote
  <2>3. pc[r] \in {"payload", "manifest"} => sent[r] = "nothing"
    BY <1>0 DEF Progress, Active
  <2>4. QED
    <3> SUFFICES ASSUME PowerHolds, NEW q \in Runs
                 PROVE  Recoverable(q)'
      BY <1>1 DEF Rollback, PowerHolds
    <3>1. CASE q = r
      BY <1>0, <1>1, <1>2, <2>3, <3>1 DEF Rollback, Recoverable, Loadable, Backed, Wrote
    <3>2. CASE q # r
      <4>1. pc'[q] = pc[q] /\ (folder[q] # NoStamp => folder[q] \in Stamps /\ folder[q] # folder[r])
        BY <1>1, <2>1, <2>2, <3>2
      <4>2. folder[q] # NoStamp =>
              /\ disk'[Folder(folder[q])] = disk[Folder(folder[q])]
              /\ disk'[Payload(folder[q])] = disk[Payload(folder[q])]
              /\ disk'[Manifest(folder[q])] = disk[Manifest(folder[q])]
        BY <1>2, <4>1 DEF Wrote
      <4>3. (pc[q] \in Active \ {"folder"} => folder[q] # NoStamp) /\ NoStamp \notin Stamps
        BY <1>0 DEF Progress
      <4>4. QED
        BY <1>0, <1>1, <4>1, <4>2, <4>3 DEF Rollback, Recoverable, Loadable, Backed, Active
    <3>3. QED
      BY <3>1, <3>2
<1>8. Records'
  BY <1>0, <1>1, <1>2 DEF Records, Recording, PowerHolds, Wrote
<1>9. QED
  BY <1>3, <1>4, <1>5, <1>6, <1>7, <1>8 DEF IInv

LEMMA CloseKeepsInvariant ==
  ASSUME IInv, NEW r \in Runs, Close(r)
  PROVE  IInv'
<1> USE RunAssumption, StampAssumption
<1>0. TypeOK /\ OneAtATime /\ Progress /\ Snapshots /\ Rollback /\ Records
  BY DEF IInv
<1> DEFINE text == Writing(r)[pc[r]].text
<1>1. /\ pc[r] \in DOMAIN After /\ pc[r] \in Active
      /\ disk' = [disk EXCEPT ![Writing(r)[pc[r]].file] = text]
      /\ open' = [open EXCEPT ![r] = FALSE]
      /\ pc' = [pc EXCEPT ![r] = After[pc[r]]]
      /\ UNCHANGED <<folder, source, loaded, next, lock, sent, cuts, saved, late>>
  BY DEF Close, After, Active, Goto
<1>2. Wrote(r, text)
  BY <1>1, WrittenFiles
<1>3. /\ pc[r] \in {"payload", "manifest"} => text = r
      /\ pc[r] = "record" => text = "PLANNED_NO_WRITE"
      /\ pc[r] = "updating" => text = next[r]
      /\ pc[r] \in {"payload", "manifest", "record", "updating"}
      /\ After[pc[r]] = IF pc[r] = "payload" THEN "manifest"
                        ELSE IF pc[r] = "manifest" THEN "record"
                        ELSE IF pc[r] = "record" THEN "recorded" ELSE "replacing"
  BY <1>1 DEF Writing, After
<1> HIDE DEF text
<1>4. /\ \A q \in Runs \ {r} : pc'[q] = pc[q] /\ pc[q] \notin Active
      /\ pc'[r] = After[pc[r]]
  BY <1>0, <1>1, Alone DEF TypeOK
<1>5. TypeOK'
  <2>1. text \in {"PLANNED_NO_WRITE", "WRITE_ATTEMPTED"} \cup Reasons \cup Verdicts \cup Runs
    BY <1>0, <1>3 DEF TypeOK, Progress
  <2>2. After[pc[r]] \in Active
    BY <1>3 DEF Active
  <2>3. QED
    BY <1>0, <1>1, <1>2, <2>1, <2>2 DEF TypeOK, Wrote
<1>6. OneAtATime'
  BY <1>0, <1>1, <1>3, <1>4 DEF TypeOK, OneAtATime, Active
<1>7. Progress'
  BY <1>0, <1>1, <1>3, <1>4 DEF Progress, Active
<1>8. Snapshots'
  <2>1. \A q \in Runs : source[q] # NoStamp => source[q] \in Stamps
    BY <1>0 DEF TypeOK
  <2>2. disk[Folder(folder[r])] # "absent" /\ saved[folder[r]] = r
    BY <1>0, <1>1, <1>3 DEF Snapshots
  <2>3. \A s \in Stamps :
          /\ disk'[Manifest(s)] \in {"absent", "partial", "unmatched", saved[s]}
          /\ disk'[Payload(s)] # "unmatched"
          /\ disk'[Manifest(s)] # "absent" => disk'[Folder(s)] # "absent"
    BY <1>0, <1>2, <1>3, <2>2 DEF Snapshots, Wrote
  <2>4. QED
    BY <1>0, <1>1, <1>2, <1>4, <2>1, <2>2, <2>3 DEF Snapshots, Wrote
<1>9. Rollback'
  <2>1. \A q \in Runs : folder[q] # NoStamp => folder[q] \in Stamps
    BY <1>0 DEF TypeOK
  <2>2. PowerHolds => \A q \in Runs \ {r} : folder[q] # folder[r]
    BY <1>0, <1>2, <2>1 DEF Rollback, Recoverable, Loadable, Wrote
  <2>3. pc[r] # "updating" => sent[r] = "nothing"
    BY <1>0, <1>3 DEF Progress, Active
  <2>4. QED
    <3> SUFFICES ASSUME PowerHolds, NEW q \in Runs
                 PROVE  Recoverable(q)'
      BY <1>1 DEF Rollback, PowerHolds
    <3>1. CASE q = r
      BY <1>0, <1>1, <1>2, <1>3, <1>4, <2>3, <3>1 DEF Rollback, Recoverable, Loadable, Backed, Wrote
    <3>2. CASE q # r
      <4>1. pc'[q] = pc[q] /\ (folder[q] # NoStamp => folder[q] \in Stamps /\ folder[q] # folder[r])
        BY <1>4, <2>1, <2>2, <3>2
      <4>2. folder[q] # NoStamp =>
              /\ disk'[Folder(folder[q])] = disk[Folder(folder[q])]
              /\ disk'[Payload(folder[q])] = disk[Payload(folder[q])]
              /\ disk'[Manifest(folder[q])] = disk[Manifest(folder[q])]
        BY <1>2, <4>1 DEF Wrote
      <4>3. (pc[q] \in Active \ {"folder"} => folder[q] # NoStamp) /\ NoStamp \notin Stamps
        BY <1>0 DEF Progress
      <4>4. QED
        BY <1>0, <1>1, <4>1, <4>2, <4>3 DEF Rollback, Recoverable, Loadable, Backed, Active
    <3>3. QED
      BY <3>1, <3>2
<1>10. Records'
  BY <1>0, <1>1, <1>2, <1>3, <1>4 DEF Records, Recording, PowerHolds, Active, Wrote
<1>11. QED
  BY <1>5, <1>6, <1>7, <1>8, <1>9, <1>10 DEF IInv

LEMMA ReplaceKeepsInvariant ==
  ASSUME IInv, NEW r \in Runs, Replace(r)
  PROVE  IInv'
<1> USE RunAssumption, StampAssumption
<1>0. TypeOK /\ OneAtATime /\ Progress /\ Snapshots /\ Rollback /\ Records
  BY DEF IInv
<1>1. /\ pc[r] = "replacing" /\ pc[r] \in Active
      /\ disk' = [disk EXCEPT ![Record(r)] = disk[Temporary(r)], ![Temporary(r)] = "absent"]
      /\ UNCHANGED <<folder, source, sent, cuts, saved, late>>
  BY DEF Replace, Active, Exit
<1>2. /\ disk \in [Names -> {"absent", "partial", "altered", "unmatched", "PLANNED_NO_WRITE",
                             "WRITE_ATTEMPTED"} \cup Reasons \cup Verdicts \cup Runs]
      /\ Record(r) \in Names /\ Temporary(r) \in Names /\ Record(r) # Temporary(r)
  BY <1>0, NamesDiffer DEF TypeOK
<1>3. /\ disk'[Record(r)] = disk[Temporary(r)]
      /\ \A n \in Names : n # Record(r) /\ n # Temporary(r) => disk'[n] = disk[n]
  BY <1>1, <1>2
<1>4. /\ \A s \in Stamps :
           /\ disk'[Folder(s)] = disk[Folder(s)] /\ disk'[Payload(s)] = disk[Payload(s)]
           /\ disk'[Manifest(s)] = disk[Manifest(s)]
      /\ \A q \in Runs \ {r} : /\ disk'[Record(q)] = disk[Record(q)]
                               /\ disk'[Temporary(q)] = disk[Temporary(q)]
  BY <1>3, NamesDiffer
<1>5. \/ /\ next[r] = "WRITE_ATTEMPTED" /\ pc' = [pc EXCEPT ![r] = "sending"]
         /\ UNCHANGED <<open, loaded, next, lock>>
      \/ /\ next[r] # "WRITE_ATTEMPTED" /\ pc' = [pc EXCEPT ![r] = "done"]
         /\ open' = [open EXCEPT ![r] = FALSE]
         /\ loaded' = [loaded EXCEPT ![r] = "nothing"]
         /\ next' = [next EXCEPT ![r] = "nothing"] /\ lock' = NoRun
  BY DEF Replace, Goto, Exit
<1>6. \A q \in Runs \ {r} :
        /\ pc'[q] = pc[q] /\ next'[q] = next[q] /\ loaded'[q] = loaded[q]
        /\ pc[q] \notin Active /\ ~open[q]
  BY <1>0, <1>1, <1>5, Alone DEF TypeOK
<1>7. \/ pc'[r] = "sending" /\ next[r] = "WRITE_ATTEMPTED" /\ loaded'[r] = loaded[r]
      \/ pc'[r] = "done"
  BY <1>0, <1>5 DEF TypeOK
<1>8. TypeOK'
  <2>1. disk' \in [Names -> {"absent", "partial", "altered", "unmatched", "PLANNED_NO_WRITE",
                            "WRITE_ATTEMPTED"} \cup Reasons \cup Verdicts \cup Runs]
    BY <1>1, <1>2
  <2>2. QED
    BY <1>0, <1>1, <1>5, <2>1 DEF TypeOK, Active
<1>9. OneAtATime'
  BY <1>0, <1>1, <1>5, <1>6 DEF TypeOK, OneAtATime, Active, After
<1>10. Progress'
  <2>1. "WRITE_ATTEMPTED" \notin Verdicts
    BY DEF Verdicts
  <2>2. QED
    BY <1>0, <1>1, <1>6, <1>7, <2>1 DEF Progress, Active
<1>11. \A q \in Runs : /\ source[q] # NoStamp => source[q] \in Stamps
                       /\ folder[q] # NoStamp => folder[q] \in Stamps
  BY <1>0 DEF TypeOK
<1>12. Snapshots'
  <2>1. \A s \in Stamps :
          /\ disk'[Manifest(s)] \in {"absent", "partial", "unmatched", saved[s]}
          /\ disk'[Payload(s)] # "unmatched"
          /\ disk'[Manifest(s)] # "absent" => disk'[Folder(s)] # "absent"
    BY <1>0, <1>4 DEF Snapshots
  <2>2. /\ saved[folder[r]] = r /\ disk'[Folder(folder[r])] # "absent"
    <3>1. folder[r] \in Stamps /\ saved[folder[r]] = r /\ disk[Folder(folder[r])] # "absent"
      BY <1>0, <1>1 DEF Snapshots, Progress, Active
    <3>2. QED
      BY <1>4, <3>1
  <2>3. (pc'[r] = "sending" /\ source[r] # NoStamp) =>
            /\ loaded'[r] \in Runs /\ loaded'[r] = saved[source[r]]
            /\ disk'[Folder(source[r])] # "absent"
    BY <1>0, <1>1, <1>4, <1>7, <1>11 DEF Snapshots
  <2>4. QED
    BY <1>1, <1>6, <1>7, <2>1, <2>2, <2>3 DEF Snapshots, Active
<1>13. Rollback'
  <2>1. \A q \in Runs : folder[q] # NoStamp =>
          /\ disk'[Folder(folder[q])] = disk[Folder(folder[q])]
          /\ disk'[Payload(folder[q])] = disk[Payload(folder[q])]
          /\ disk'[Manifest(folder[q])] = disk[Manifest(folder[q])]
    BY <1>4, <1>11
  <2>2. \A q \in Runs :
          \/ pc'[q] = pc[q] /\ next'[q] = next[q]
          \/ pc'[q] = "done"
          \/ pc'[q] = "sending" /\ pc[q] = "replacing" /\ next[q] = "WRITE_ATTEMPTED"
    BY <1>1, <1>6, <1>7
  <2> SUFFICES ASSUME PowerHolds, NEW q \in Runs
               PROVE  Recoverable(q)'
    BY <1>1 DEF Rollback, PowerHolds
  <2>4. Recoverable(q) /\ (pc[q] \in {"manifest", "replacing"} => folder[q] # NoStamp)
    BY <1>0 DEF Rollback, Progress, Active
  <2>5. CASE folder[q] = NoStamp
    BY <1>1, <2>2, <2>4, <2>5 DEF Recoverable, Loadable, Backed
  <2>6. CASE folder[q] # NoStamp
    BY <1>1, <2>1, <2>2, <2>4, <2>6 DEF Recoverable, Loadable, Backed
  <2>7. QED
    BY <2>5, <2>6
<1>14. Records'
  <2>1. "WRITE_ATTEMPTED" \notin Verdicts
    BY DEF Verdicts
  <2>2. PowerHolds => disk'[Record(r)] = next[r]
    BY <1>0, <1>1, <1>3 DEF Records, Recording
  <2>3. \A q \in Runs : q # r =>
          /\ pc'[q] = pc[q] /\ pc[q] \notin Active
          /\ disk'[Record(q)] = disk[Record(q)]
    BY <1>4, <1>6
  <2> SUFFICES ASSUME PowerHolds, NEW q \in Runs
               PROVE  Recording(q)'
    BY <1>1 DEF Records, PowerHolds
  <2>4. CASE q = r
    BY <1>7, <2>1, <2>2, <2>4 DEF Recording
  <2>5. CASE q # r
    <3>1. Recording(q)
      BY <1>0 DEF Records
    <3>2. QED
      BY <2>3, <2>5, <3>1 DEF Recording, Active
  <2>6. QED
    BY <2>4, <2>5
<1>15. QED
  BY <1>8, <1>9, <1>10, <1>12, <1>13, <1>14 DEF IInv

-----------------------------------------------------------------------------
(* What happens to the runs. *)

LEMMA AlterKeepsInvariant ==
  ASSUME IInv, NEW s \in Stamps, Alter(s)
  PROVE  IInv'
<1> USE RunAssumption, StampAssumption
<1>0. TypeOK /\ OneAtATime /\ Progress /\ Snapshots /\ Rollback /\ Records
  BY DEF IInv
<1>1. /\ late' = late \cup
           {r \in Runs : folder[r] = s /\ (pc[r] \in PastTheGate \/ sent[r] # "nothing")}
      /\ UNCHANGED <<pc, open, folder, source, loaded, next, lock, sent, cuts, saved>>
  BY DEF Alter, process
<1>2. PICK name \in {Payload(s), Manifest(s)} :
        /\ disk[name] \notin {"absent", "partial", Altered(name)}
        /\ disk' = [disk EXCEPT ![name] = Altered(name)]
  BY DEF Alter
<1>c. \A t \in Stamps : Payload(t)[1] = "payload" /\ Manifest(t)[1] = "manifest"
  BY DEF Payload, Manifest
<1>a. name \in Names
  BY NamesDiffer
<1>b. \A n \in Names : disk'[n] = IF n = name THEN Altered(name) ELSE disk[n]
  BY <1>0, <1>2, <1>a DEF TypeOK
<1>3. /\ \A t \in Stamps :
           /\ disk'[Folder(t)] = disk[Folder(t)]
           /\ disk'[Payload(t)] = IF Payload(t) = name THEN "altered" ELSE disk[Payload(t)]
           /\ disk'[Manifest(t)] = IF Manifest(t) = name THEN "unmatched"
                                   ELSE disk[Manifest(t)]
           /\ name \in {Payload(t), Manifest(t)} => t = s
           /\ name = Payload(t) => disk[Payload(t)] \notin {"absent", "partial"}
           /\ name = Manifest(t) => disk[Manifest(t)] \notin {"absent", "partial"}
      /\ \A q \in Runs : /\ disk'[Record(q)] = disk[Record(q)]
                         /\ disk'[Temporary(q)] = disk[Temporary(q)]
  BY <1>2, <1>b, <1>c, NamesDiffer DEF Altered
<1>4. TypeOK'
  BY <1>0, <1>1, <1>2, <1>a, <1>b DEF TypeOK, Altered
<1>5. OneAtATime'
  BY <1>0, <1>1 DEF OneAtATime
<1>6. Progress'
  BY <1>0, <1>1 DEF Progress
<1>7. \A q \in Runs : /\ source[q] # NoStamp => source[q] \in Stamps
                      /\ folder[q] # NoStamp => folder[q] \in Stamps
                      /\ pc[q] \in Active \ {"folder"} => folder[q] \in Stamps
  BY <1>0 DEF TypeOK, Progress
<1>8. Snapshots'
  BY <1>0, <1>1, <1>3, <1>7 DEF Snapshots
<1>9. Rollback'
  <2> SUFFICES ASSUME PowerHolds, NEW q \in Runs
               PROVE  Recoverable(q)'
    BY <1>1 DEF Rollback, PowerHolds
  <2>1. late \subseteq late'
    BY <1>1
  <2>2. folder[q] = s => ((pc[q] \in PastTheGate \/ sent[q] # "nothing") => q \in late')
    BY <1>1
  <2>3. (pc[q] \in Backed \cup {"manifest"} \/ sent[q] # "nothing") => folder[q] \in Stamps
    BY <1>0, <1>7 DEF Rollback, Recoverable, Loadable, Active
  <2>4. QED
    BY <1>0, <1>1, <1>3, <1>7, <2>1, <2>2, <2>3
    DEF Rollback, Recoverable, Loadable, Backed, PastTheGate
<1>10. Records'
  BY <1>0, <1>1, <1>3 DEF Records, Recording, PowerHolds
<1>11. QED
  BY <1>4, <1>5, <1>6, <1>8, <1>9, <1>10 DEF IInv

LEMMA PowerCutKeepsInvariant ==
  ASSUME IInv, PowerCut
  PROVE  IInv'
<1> USE RunAssumption, StampAssumption
<1>0. TypeOK /\ OneAtATime /\ Progress /\ Snapshots /\ Rollback /\ Records
  BY DEF IInv
<1> DEFINE Texts == {"absent", "partial", "altered", "unmatched", "PLANNED_NO_WRITE",
                     "WRITE_ATTEMPTED"} \cup Reasons \cup Verdicts \cup Runs
<1>1. /\ cuts < MaxPowerCuts /\ cuts' = cuts + 1
      /\ pc' = [r \in Runs |-> IF pc[r] \in Active THEN "crashed" ELSE pc[r]]
      /\ open' = [r \in Runs |-> FALSE]
      /\ loaded' = [r \in Runs |-> "nothing"]
      /\ next' = [r \in Runs |-> "nothing"]
      /\ lock' = NoRun
      /\ UNCHANGED <<folder, source, sent, saved, late>>
  BY DEF PowerCut
<1>2. PICK hit \in SUBSET {n \in Names : disk[n] # "absent"} :
        \E left \in [hit -> UNION {Remains(disk[n]) : n \in hit}] :
           /\ \A n \in hit : left[n] \in
                IF n[1] = "folder" THEN {"absent"} ELSE Remains(disk[n])
           /\ disk' = [n \in Names |->
                IF n[1] \in {"payload", "manifest"} /\ Folder(n[2]) \in hit
                THEN "absent"
                ELSE IF n \in hit THEN left[n] ELSE disk[n]]
  BY DEF PowerCut
<1>3. PICK left \in [hit -> UNION {Remains(disk[n]) : n \in hit}] :
        /\ \A n \in hit : left[n] \in
             IF n[1] = "folder" THEN {"absent"} ELSE Remains(disk[n])
        /\ disk' = [n \in Names |->
             IF n[1] \in {"payload", "manifest"} /\ Folder(n[2]) \in hit
             THEN "absent"
             ELSE IF n \in hit THEN left[n] ELSE disk[n]]
  BY <1>2
<1>4. disk \in [Names -> Texts]
  BY <1>0 DEF TypeOK
<1>5. ASSUME NEW n \in Names
      PROVE  disk'[n] \in {"absent", disk[n]} \cup Remains(disk[n])
  BY <1>3 DEF Remains
<1>6. ASSUME NEW n \in Names
      PROVE  disk'[n] \in Texts
  BY <1>4, <1>5 DEF Remains
<1>7. disk' \in [Names -> Texts]
  BY <1>3, <1>6
<1>8. TypeOK'
  <2>1. cuts' \in 0 .. MaxPowerCuts
    BY <1>0, <1>1, BoundAssumption DEF TypeOK
  <2>2. QED
    BY <1>0, <1>1, <1>7, <2>1 DEF TypeOK
<1>9. \A r \in Runs : pc'[r] \notin Active /\ (pc'[r] = pc[r] \/ pc'[r] = "crashed")
  BY <1>1 DEF Active
<1>10. OneAtATime'
  BY <1>1, <1>9 DEF OneAtATime
<1>11. Progress'
  BY <1>0, <1>1, <1>9 DEF Progress, Active
<1>12. Snapshots'
  <2>1. ASSUME NEW s \in Stamps
        PROVE  /\ disk'[Manifest(s)] \in {"absent", "partial", "unmatched", saved[s]}
               /\ disk'[Payload(s)] # "unmatched"
               /\ disk'[Manifest(s)] # "absent" => disk'[Folder(s)] # "absent"
    <3>a. disk'[Payload(s)] # "unmatched"
      <4>1. disk[Payload(s)] # "unmatched" /\ Payload(s) \in Names
        BY <1>0, NamesDiffer DEF Snapshots
      <4>2. "unmatched" \notin Remains(disk[Payload(s)])
        BY DEF Remains
      <4>3. QED
        BY <1>5, <4>1, <4>2
    <3>1. /\ Manifest(s) \in Names /\ Manifest(s)[1] = "manifest" /\ Manifest(s)[2] = s
          /\ Folder(s) \in Names /\ Folder(s)[1] = "folder"
      BY NamesDiffer DEF Manifest, Folder
    <3>2. /\ disk[Manifest(s)] \in {"absent", "partial", "unmatched", saved[s]}
          /\ disk[Manifest(s)] # "absent" => disk[Folder(s)] # "absent"
      BY <1>0 DEF Snapshots
    <3>3. saved[s] \in {"nothing"} \cup Runs
      BY <1>0 DEF TypeOK
    <3>4. Remains(disk[Manifest(s)]) = {"absent", "partial"}
      BY <3>2, <3>3, RefusalAssumption DEF Remains, Verdicts
    <3>5. CASE Folder(s) \in hit
      BY <1>3, <3>1, <3>5, <3>a
    <3>6. CASE Folder(s) \notin hit
      <4>1. disk'[Folder(s)] = disk[Folder(s)]
        BY <1>3, <3>1, <3>6
      <4>2. Manifest(s) \in hit => disk[Manifest(s)] # "absent"
        OBVIOUS
      <4>3. disk'[Manifest(s)] =
              IF Manifest(s) \in hit THEN left[Manifest(s)] ELSE disk[Manifest(s)]
        BY <1>3, <3>1, <3>6
      <4>4. Manifest(s) \in hit => left[Manifest(s)] \in {"absent", "partial"}
        BY <1>3, <3>1, <3>4
      <4>5. QED
        BY <3>2, <3>a, <4>1, <4>2, <4>3, <4>4
    <3>7. QED
      BY <3>a, <3>5, <3>6
  <2>2. QED
    BY <1>1, <1>9, <2>1 DEF Snapshots
<1>13. ~PowerHolds'
  BY <1>0, <1>1, BoundAssumption DEF TypeOK, PowerHolds
<1>14. QED
  BY <1>8, <1>10, <1>11, <1>12, <1>13 DEF IInv, Rollback, Recoverable, Loadable, Records, Recording

LEMMA NextInvariant == IInv /\ [Next]_vars => IInv'
<1> SUFFICES ASSUME IInv, [Next]_vars PROVE IInv'
  OBVIOUS
<1>1. ASSUME NEW r \in Runs,
             \/ Start(r) \/ MakeFolder(r) \/ OpenNew(r) \/ Close(r) \/ Replace(r) \/ Send(r)
      PROVE  IInv'
  BY <1>1, StartKeepsInvariant, MakeFolderKeepsInvariant, OpenKeepsInvariant,
     CloseKeepsInvariant, ReplaceKeepsInvariant, SendKeepsInvariant
<1>2. ASSUME NEW r \in Runs, Recorded(r)
      PROVE  IInv'
  <2>1. pc[r] = "recorded" /\ UNCHANGED <<disk, sent, cuts, saved, late>>
    BY <1>2 DEF Recorded
  <2>2. CASE Exit(r, "planned")
    BY <2>1, <2>2, ExitKeepsInvariant DEF Active
  <2>3. CASE Goto(r, "gate") /\ UNCHANGED <<open, folder, source, loaded, next, lock>>
    BY <2>1, <2>3, GotoKeepsInvariant
  <2>4. QED
    BY <1>2, <2>2, <2>3 DEF Recorded
<1>3. ASSUME NEW r \in Runs, Gate(r)
      PROVE  IInv'
  <2>1. pc[r] = "gate" /\ "REFUSED_AUTHORIZATION" \in Reasons \ Verdicts
    BY <1>3, RefusalAssumption DEF Gate, Verdicts
  <2>2. CASE Update(r, "REFUSED_AUTHORIZATION")
    BY <2>1, <2>2, UpdateKeepsInvariant
  <2>3. CASE /\ Loadable(folder[r]) /\ Goto(r, "checks")
             /\ UNCHANGED <<open, folder, source, loaded, next, lock,
                            disk, sent, cuts, saved, late>>
    BY <2>1, <2>3, GotoKeepsInvariant
  <2>4. QED
    BY <1>3, <2>2, <2>3 DEF Gate
<1>4. ASSUME NEW r \in Runs, Checks(r)
      PROVE  IInv'
  <2>1. PICK result \in {"WRITE_ATTEMPTED"} \cup Reasons : Update(r, result)
    BY <1>4 DEF Checks
  <2>2. pc[r] = "checks" /\ result \notin Verdicts
    BY <1>4, RefusalAssumption DEF Checks, Verdicts
  <2>3. QED
    BY <2>1, <2>2, UpdateKeepsInvariant
<1>5. ASSUME NEW r \in Runs, Conclude(r)
      PROVE  IInv'
  <2>1. PICK verdict \in Verdicts : Update(r, verdict)
    BY <1>5 DEF Conclude
  <2>2. pc[r] = "waiting" /\ verdict # "WRITE_ATTEMPTED"
    BY <1>5 DEF Conclude, Verdicts
  <2>3. QED
    BY <2>1, <2>2, UpdateKeepsInvariant
<1>6. ASSUME NEW r \in Runs, Stop(r)
      PROVE  IInv'
  BY <1>6, ExitKeepsInvariant DEF Stop
<1>7. CASE UNCHANGED vars
  <2> USE <1>7 DEF vars, process
  <2>1. (TypeOK /\ OneAtATime /\ Progress)'
    BY DEF IInv, TypeOK, OneAtATime, Progress
  <2>2. Snapshots'
    BY DEF IInv, Snapshots
  <2>3. (Rollback /\ Records)'
    BY DEF IInv, Rollback, Recoverable, Loadable, Records, Recording, PowerHolds
  <2>4. QED
    BY <2>1, <2>2, <2>3 DEF IInv
<1>8. QED
  BY <1>1, <1>2, <1>3, <1>4, <1>5, <1>6, <1>7, AlterKeepsInvariant,
     PowerCutKeepsInvariant DEF Next

-----------------------------------------------------------------------------
(* The records implement OperationLog. *)

LEMMA LogSame ==
  ASSUME \A q \in Runs : RecordRead(q)' = RecordRead(q), UNCHANGED sent
  PROVE  UNCHANGED Log!vars
BY DEF Log!vars

LEMMA LogBecomes ==
  ASSUME NEW r \in Runs, NEW result, RecordRead(r)' = result,
         \A q \in Runs \ {r} : RecordRead(q)' = RecordRead(q), UNCHANGED sent
  PROVE  Log!Becomes(r, result)
BY DEF Log!Becomes

LEMMA LogStep ==
  ASSUME IInv, Next, PowerHolds, PowerHolds'
  PROVE  [Log!Next]_(Log!vars)
<1> USE RunAssumption
<1>0. TypeOK /\ Progress /\ Records
  BY DEF IInv
<1>1. ASSUME NEW r \in Runs, Close(r)
      PROVE  [Log!Next]_(Log!vars)
  <2>1. /\ pc[r] \in DOMAIN After /\ UNCHANGED sent
        /\ disk' = [disk EXCEPT ![Writing(r)[pc[r]].file] = Writing(r)[pc[r]].text]
    BY <1>1 DEF Close
  <2>2. /\ \A q \in Runs :
             disk'[Record(q)] = IF pc[r] = "record" /\ q = r THEN Writing(r)[pc[r]].text
                                ELSE disk[Record(q)]
        /\ pc[r] = "record" => Writing(r)[pc[r]].text = "PLANNED_NO_WRITE"
    <3> DEFINE text == Writing(r)[pc[r]].text
    <3>1. disk' = [disk EXCEPT ![Writing(r)[pc[r]].file] = text]
      BY <2>1
    <3>2. pc[r] = "record" => text = "PLANNED_NO_WRITE"
      BY DEF Writing
    <3> HIDE DEF text
    <3>3. Wrote(r, text)
      BY <2>1, <3>1, WrittenFiles
    <3>4. QED
      BY <3>2, <3>3 DEF text, Wrote
  <2>3. \A q \in Runs \ {r} : RecordRead(q)' = RecordRead(q)
    BY <2>2 DEF RecordRead
  <2>4. CASE pc[r] = "record"
    <3>1. RecordRead(r) = "NO_RECORD" /\ RecordRead(r)' = "PLANNED_NO_WRITE"
      BY <1>0, <2>2, <2>4 DEF RecordRead, Records, Recording
    <3>2. Log!Record(r)
      BY <2>1, <2>3, <3>1, LogBecomes DEF Log!Record
    <3>3. QED
      BY <3>2 DEF Log!Next
  <2>5. CASE pc[r] # "record"
    BY <2>1, <2>2, <2>5, LogSame DEF RecordRead
  <2>6. QED
    BY <2>4, <2>5
<1>2. ASSUME NEW r \in Runs, OpenNew(r)
      PROVE  UNCHANGED Log!vars
  <2>1. /\ pc[r] \in DOMAIN After /\ UNCHANGED sent
        /\ disk' = [disk EXCEPT ![Writing(r)[pc[r]].file] = "partial"]
    BY <1>2 DEF OpenNew
  <2>2. Wrote(r, "partial")
    BY <2>1, WrittenFiles
  <2>3. \A q \in Runs : RecordRead(q)' = RecordRead(q)
    BY <1>0, <2>2 DEF Wrote, RecordRead, Records, Recording
  <2>4. QED
    BY <2>1, <2>3, LogSame
<1>3. ASSUME NEW r \in Runs, Replace(r)
      PROVE  Log!Next
  <2>1. /\ pc[r] = "replacing" /\ UNCHANGED sent
        /\ disk' = [disk EXCEPT ![Record(r)] = disk[Temporary(r)], ![Temporary(r)] = "absent"]
    BY <1>3 DEF Replace
  <2>2. disk'[Record(r)] = next[r] /\ \A q \in Runs \ {r} : disk'[Record(q)] = disk[Record(q)]
    BY <1>0, <2>1, NamesDiffer DEF TypeOK, Records, Recording
  <2>3. /\ next[r] \in {"WRITE_ATTEMPTED"} \cup Reasons \cup Verdicts
        /\ next[r] \notin {"absent", "partial"}
    BY <1>0, <2>1, RefusalAssumption DEF TypeOK, Progress, Verdicts
  <2>4. RecordRead(r)' = next[r] /\ \A q \in Runs \ {r} : RecordRead(q)' = RecordRead(q)
    BY <2>2, <2>3 DEF RecordRead
  <2>5. Log!Becomes(r, next[r])
    BY <2>1, <2>4, LogBecomes
  <2>6. RecordRead(r) = IF next[r] \in Verdicts THEN "WRITE_ATTEMPTED" ELSE "PLANNED_NO_WRITE"
    BY <1>0, <2>1 DEF RecordRead, Records, Recording
  <2>7. CASE next[r] \in Verdicts
    <3>1. [q \in Runs |-> sent[q] # "nothing"][r]
      BY <1>0, <2>1, <2>7 DEF Progress
    <3>2. Log!Conclude(r)
      BY <2>5, <2>6, <2>7, <3>1 DEF Log!Conclude, Log!Verdicts, Verdicts
    <3>3. QED
      BY <3>2 DEF Log!Next
  <2>8. CASE next[r] = "WRITE_ATTEMPTED"
    BY <2>5, <2>6, <2>8 DEF Log!Next, Log!Attempt, Verdicts
  <2>9. CASE next[r] \in Reasons
    <3>1. next[r] \in Log!Refusals /\ next[r] \notin Verdicts
      BY <2>9, RefusalAssumption DEF Log!Refusals, Verdicts
    <3>2. QED
      BY <2>5, <2>6, <3>1 DEF Log!Next, Log!Refuse
  <2>10. QED
    BY <2>3, <2>7, <2>8, <2>9
<1>4. ASSUME NEW r \in Runs, Send(r)
      PROVE  Log!Next
  <2>1. /\ pc[r] = "sending" /\ UNCHANGED disk
        /\ \A q \in Runs \ {r} : sent'[q] = sent[q]
    BY <1>0, <1>4 DEF Send, TypeOK
  <2>2. sent[r] = "nothing" /\ sent'[r] # "nothing"
    <3>1. sent[r] = "nothing"
      BY <1>0, <2>1 DEF Progress, Active
    <3>2. source[r] = NoStamp \/ loaded[r] \in Runs
      BY <2>1 DEF IInv, Snapshots, Active
    <3>3. sent'[r] = IF source[r] = NoStamp THEN "change" ELSE loaded[r]
      BY <1>0, <1>4 DEF Send, TypeOK
    <3>4. QED
      BY <3>1, <3>2, <3>3
  <2>3. RecordRead(r) = "WRITE_ATTEMPTED"
    BY <1>0, <2>1 DEF Records, Recording, RecordRead
  <2>4. [q \in Runs |-> sent'[q] # "nothing"]
          = [[q \in Runs |-> sent[q] # "nothing"] EXCEPT ![r] = TRUE]
    BY <2>1, <2>2, Zenon
  <2>5. [q \in Runs |-> RecordRead(q)]' = [q \in Runs |-> RecordRead(q)]
    BY <2>1 DEF RecordRead
  <2>6. ~[q \in Runs |-> sent[q] # "nothing"][r]
    BY <2>2
  <2>7. Log!Send(r)
    BY <2>3, <2>4, <2>5, <2>6 DEF Log!Send
  <2>8. QED
    BY <2>7 DEF Log!Next
<1>5. ASSUME NEW r \in Runs, MakeFolder(r)
      PROVE  UNCHANGED Log!vars
  <2>1. UNCHANGED sent /\ \A q \in Runs : disk'[Record(q)] = disk[Record(q)]
    BY <1>0, <1>5, NamesDiffer DEF MakeFolder, TypeOK
  <2>2. QED
    BY <2>1, LogSame DEF RecordRead
<1>6. ASSUME NEW s \in Stamps, Alter(s)
      PROVE  UNCHANGED Log!vars
  <2>1. UNCHANGED sent /\ \A q \in Runs : disk'[Record(q)] = disk[Record(q)]
    BY <1>0, <1>6, NamesDiffer DEF Alter, TypeOK
  <2>2. QED
    BY <2>1, LogSame DEF RecordRead
<1>7. ASSUME NEW r \in Runs,
             Start(r) \/ Recorded(r) \/ Gate(r) \/ Checks(r) \/ Conclude(r) \/ Stop(r)
      PROVE  UNCHANGED Log!vars
  <2>1. UNCHANGED <<disk, sent>>
    BY <1>7 DEF Start, Recorded, Gate, Checks, Conclude, Stop, Update
  <2>2. QED
    BY <2>1, LogSame DEF RecordRead
<1>8. ~PowerCut
  BY <1>0 DEF PowerCut, PowerHolds, TypeOK
<1>9. QED
  BY <1>1, <1>2, <1>3, <1>4, <1>5, <1>6, <1>7, <1>8 DEF Next

\* Power that holds after a step held before it.
LEMMA PowerHeld == IInv /\ [Next]_vars /\ PowerHolds' => PowerHolds
<1> SUFFICES ASSUME IInv, [Next]_vars, PowerHolds' PROVE PowerHolds
  OBVIOUS
<1>1. cuts \in Nat /\ cuts' = 0
  BY BoundAssumption DEF IInv, TypeOK, PowerHolds
<1>2. cuts' = cuts \/ cuts' = cuts + 1
  BY DEF Next, vars, Start, MakeFolder, OpenNew, Close, Recorded, Gate, Checks, Update,
         Replace, Send, Conclude, Stop, Alter, PowerCut
<1>3. QED
  BY <1>1, <1>2 DEF PowerHolds

LEMMA LogInit == Init => Log!Init
<1> SUFFICES ASSUME Init PROVE Log!Init
  OBVIOUS
<1>1. \A r \in Runs : RecordRead(r) = "NO_RECORD" /\ sent[r] = "nothing"
  BY NamesDiffer DEF Init, RecordRead
<1>2. QED
  BY <1>1 DEF Log!Init

-----------------------------------------------------------------------------
(* The results. *)

\* The place where a run is tells what its record says and whether its snapshot
\* can be trusted, until the power fails (snapshot.py, operation_journal.py).
THEOREM FilesInvariant == Spec => []IInv
BY InitInvariant, NextInvariant, PTL DEF Spec

\* The disk and the runs have their types, power cuts included.
THEOREM TypeCorrect == Spec => []TypeOK
BY FilesInvariant, InvariantSuffices, PTL

\* Whatever was sent before a power cut has a snapshot that can be loaded,
\* unless somebody altered it after the gate had seen it.
THEOREM Backups == Spec => []WritesHaveRollback
BY FilesInvariant, InvariantSuffices, PTL

\* A printed plan is on record and has its snapshot.
THEOREM BackedPlans == Spec => []PlansAreBacked
BY FilesInvariant, InvariantSuffices, PTL

\* Until the power fails the files implement OperationLog, wherever runs are
\* killed (OperationJournal.create and update).
THEOREM FilesKeepTheLog == Spec => KeepsTheLog
<1>1. IInv /\ [Next]_vars => (PowerHolds' => [Log!Next]_(Log!vars))
  <2>1. ASSUME IInv, [Next]_vars, PowerHolds'
        PROVE  [Log!Next]_(Log!vars)
    <3>1. CASE Next
      BY <2>1, <3>1, LogStep, PowerHeld
    <3>2. CASE UNCHANGED vars
      BY <3>2, LogSame DEF vars, process, RecordRead
    <3>3. QED
      BY <2>1, <3>1, <3>2
  <2>2. QED
    BY <2>1
<1>2. QED
  BY LogInit, <1>1, FilesInvariant, PTL DEF Spec, KeepsTheLog

\* A restore sends what the maker of the folder had saved, kills, alterations
\* and power cuts notwithstanding (load_snapshot and its digest).
THEOREM FaithfulRestores == Spec => RestoresWhatWasSaved
<1>1. ASSUME IInv, Next, NEW r \in Runs, source[r] # NoStamp, sent'[r] # sent[r]
      PROVE  sent'[r] = saved[source[r]]
  <2>1. PICK q \in Runs : Send(q)
    BY <1>1 DEF Next, Start, MakeFolder, OpenNew, Close, Recorded, Gate, Checks, Update,
                Replace, Conclude, Stop, Alter, PowerCut
  <2>2. q = r /\ sent'[r] = loaded[r]
    BY <1>1, <2>1 DEF Send, IInv, TypeOK
  <2>3. QED
    BY <1>1, <2>1, <2>2 DEF Send, IInv, Snapshots, Active
<1>2. IInv /\ [Next]_vars =>
        [\A r \in Runs : (source[r] # NoStamp /\ sent'[r] # sent[r]) =>
                            sent'[r] = saved[source[r]]]_vars
  BY <1>1
<1>3. QED
  BY <1>2, FilesInvariant, PTL DEF Spec, RestoresWhatWasSaved
=============================================================================
