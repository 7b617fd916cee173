------------------------ MODULE GuardedFixedIpProofs ------------------------
(***************************************************************************)
(* What the fixed-IP operations owe the clients, for every number of runs, *)
(* clients and addresses.  IpFamily says that the engine has been given    *)
(* the callbacks of FixedIp, as the configurations of MCFixedIp do, up to  *)
(* the administrators, who may do anything.                                *)
(*                                                                         *)
(* A volatile field may move between any two GETs, so that what a run has  *)
(* read is not the configuration there is, or ever was: it agrees with it  *)
(* on everything else, as long as nobody disturbs the run.                 *)
(***************************************************************************)
EXTENDS GuardedFixedIp, GuardedMutatorProofs

IpFamily ==
    /\ States = IpStates /\ Datasets = IpDatasets /\ NotRead = NoView
    /\ \A op \in Operations :
         /\ op.client \in Clients /\ op.address \in Addresses \cup {NoAddress}
         /\ ReadState(op) = IpReadState(op)
         /\ VerifyReads(op) = IpVerifyReads(op)
    /\ \A op, d, c, s : View(op, d, c, s) = IpView(op, d, c, s)
    /\ \A op, s : HasDiff(op, s) = IpHasDiff(op, s)
    /\ \A op, s : ApprovalMaterial(op, s) = IpApprovalMaterial(op, s)
    /\ \A op, s : Precondition(op, s) = IpPrecondition(op, s)
    /\ \A op, s, t : RuntimeSafe(op, s, t) = IpRuntimeSafe(op, s, t)
    /\ \A op, s, t : Request(op, s, t) = IpRequest(op, s, t)
    /\ \A r, op, b, c : Landing(r, op, b, c) = IpLanding(r, op, b, c)
    /\ \A op, s, t, f, i : Verified(op, s, t, f, i) = IpVerified(op, s, t, f, i)
    /\ \A c : Ticks(c) = IpTicks(c)

LEMMA AbsentIsNoRecord == Absent \notin Records
  BY ClientAssumption DEF Records, Objects

\* A body is an object of the client.
LEMMA RewrittenIsRecord ==
  ASSUME IpFamily, NEW op \in Operations, NEW record \in Records
  PROVE  /\ Rewritten(op, record) \in Records
         /\ Rewritten(op, record).network = record.network
         /\ Rewritten(op, record).settings = record.settings
         /\ Rewritten(op, record).use_fixedip = (op.address # NoAddress)
         /\ Rewritten(op, record).fixed_ip = op.address
         /\ Rewritten(op, record).fixedIpEnabled = record.fixedIpEnabled
         /\ Rewritten(op, record).fixedIpAddress =
              IF op.address = NoAddress THEN NoAddress ELSE record.fixedIpAddress
         /\ Rewritten(op, record).stamp = record.stamp
<1>1. op.address \in Addresses \cup {NoAddress}
  BY DEF IpFamily
<1>2. QED
  BY <1>1 DEF Rewritten, Records, Objects

-----------------------------------------------------------------------------
(* Agreement on everything but the volatile field.                          *)

Alike(a, b) ==
    /\ a = Absent <=> b = Absent
    /\ a # Absent => /\ a.network = b.network /\ a.settings = b.settings
                     /\ a.use_fixedip = b.use_fixedip /\ a.fixed_ip = b.fixed_ip
                     /\ a.fixedIpEnabled = b.fixedIpEnabled
                     /\ a.fixedIpAddress = b.fixedIpAddress

\* The first n GETs of read_state agree with the configuration.
Agrees(op, n, read, c) ==
    /\ n >= 1 => \A k \in Clients : Alike(read["rest/user"][k], c.users[k])
    /\ n >= 2 => Alike(Target(read), c.users[op.client])
    /\ n >= 3 => read["stat/sta"] = c.leases
    /\ n >= 4 => read["rest/networkconf"] = c.usable

\* The item, once read, is a client or known to be gone.
Held(n, read) ==
    /\ n >= 1 => /\ read["rest/user"] # NotRead
                 /\ read["rest/user"] \in [Clients -> Records \cup {Absent}]
    /\ n >= 2 => Target(read) \in Records \cup {Absent}

LEMMA AgreesNext ==
  ASSUME IpFamily, NEW op \in Operations, NEW n \in 0 .. 3, NEW c \in States,
         NEW read, DOMAIN read = Datasets, Held(n, read),
         View(op, ReadState(op)[n + 1], c, read) # NoView
  PROVE  LET d == ReadState(op)[n + 1]
             now == [read EXCEPT ![d] = View(op, d, c, read)]
         IN  /\ Held(n + 1, now)
             /\ Agrees(op, n, read, c) => Agrees(op, n + 1, now, c)
<1> DEFINE d == ReadState(op)[n + 1]
           view == View(op, d, c, read)
           now == [read EXCEPT ![d] = view]
<1>1. /\ ReadState(op) = <<"rest/user", "rest/user/id", "stat/sta", "rest/networkconf">>
      /\ view = IpView(op, d, c, read) /\ view # NotRead
      /\ DOMAIN read = {"rest/user", "rest/user/id", "stat/sta", "rest/networkconf"}
      /\ op.client \in Clients
      /\ c.users \in [Clients -> Records \cup {Absent}]
  BY DEF IpFamily, IpReadState, IpDatasets, IpStates
<1>2. CASE n = 0
  <2>1. d = "rest/user" /\ view = c.users
    BY <1>1, <1>2 DEF IpView
  <2>2. QED
    BY <1>1, <1>2, <2>1 DEF Held, Agrees, Alike
<1>3. CASE n = 1
  <2>1. d = "rest/user/id"
    BY <1>1, <1>3
  <2>2. view \in Records \cup {Absent}
    BY <1>1, <1>3, <2>1 DEF IpView, Gone, Held
  <2>3. Agrees(op, 1, read, c) => view = c.users[op.client]
    BY <1>1, <1>3, <2>1 DEF IpView, Gone, Agrees, Alike, Held
  <2>4. now["rest/user/id"] = view /\ now["rest/user"] = read["rest/user"]
    BY <1>1, <2>1
  <2> HIDE DEF view, now
  <2>5. Held(2, now) /\ (Agrees(op, 1, read, c) => Agrees(op, 2, now, c))
    BY <1>3, <2>2, <2>3, <2>4 DEF Held, Agrees, Alike, Target
  <2>6. QED
    BY <1>3, <2>5 DEF now, view
<1>4. CASE n = 2
  <2>1. d = "stat/sta" /\ view = c.leases
    BY <1>1, <1>4 DEF IpView
  <2>2. QED
    BY <1>1, <1>4, <2>1 DEF Held, Agrees, Target
<1>5. CASE n = 3
  <2>1. d = "rest/networkconf" /\ view = c.usable
    BY <1>1, <1>5 DEF IpView
  <2>2. QED
    BY <1>1, <1>5, <2>1 DEF Held, Agrees, Target
<1>6. QED
  BY <1>2, <1>3, <1>4, <1>5

\* What a look at one instant gives.
LEMMA LookIs ==
  ASSUME IpFamily, NEW op \in Operations, NEW c \in States
  PROVE  /\ Look(op, c)["rest/user"] = c.users
         /\ Look(op, c)["stat/sta"] = c.leases
         /\ Look(op, c)["rest/networkconf"] = c.usable
         /\ c.users[op.client] # Absent => Target(Look(op, c)) = c.users[op.client]
<1>1. /\ ReadState(op) = <<"rest/user", "rest/user/id", "stat/sta", "rest/networkconf">>
      /\ Datasets = {"rest/user", "rest/user/id", "stat/sta", "rest/networkconf"}
      /\ NotRead = NoView
  BY DEF IpFamily, IpReadState, IpDatasets
<1>2. ASSUME NEW d \in Datasets
      PROVE  Look(op, c)[d] = IpView(op, d, c, Unread)
  <2>1. \E i \in 1 .. Len(ReadState(op)) : ReadState(op)[i] = d
    <3>1. d = ReadState(op)[1] \/ d = ReadState(op)[2] \/ d = ReadState(op)[3]
          \/ d = ReadState(op)[4]
      BY <1>1
    <3>2. Len(ReadState(op)) = 4
      BY <1>1
    <3>3. QED
      BY <3>1, <3>2
  <2>2. QED
    BY <2>1 DEF Look, IpFamily
<1>3. Unread["rest/user"] = NoView
  BY <1>1 DEF Unread
<1>4. QED
  BY <1>1, <1>2, <1>3 DEF IpView, Target

\* Material and conflict checks do not look at volatile fields.
LEMMA AlikeViews ==
  ASSUME IpFamily, NEW op \in Operations, NEW c \in States, NEW read,
         Agrees(op, 4, read, c), Target(read) \in Records
  PROVE  /\ c.users[op.client] \in Records
         /\ ApprovalMaterial(op, read) = ApprovalMaterial(op, Look(op, c))
         /\ Available(op, read) <=> Available(op, Look(op, c))
         /\ Precondition(op, read) = Stable(c.users[op.client])
<1> DEFINE here == c.users[op.client]
<1>1. /\ c.users \in [Clients -> Records \cup {Absent}] /\ op.client \in Clients
      /\ Absent \notin Records
  BY AbsentIsNoRecord DEF IpFamily, IpStates
<1>2. Target(read) # Absent /\ Alike(Target(read), here)
  BY <1>1 DEF Agrees
<1>3. here \in Records /\ here # Absent
  BY <1>1, <1>2 DEF Alike
<1>4. Target(Look(op, c)) = here
  BY <1>3, LookIs
<1>5. ApprovalMaterial(op, read) = ApprovalMaterial(op, Look(op, c))
  <2>1. FixedIpState(Target(read)) = FixedIpState(here)
    BY <1>2 DEF FixedIpState, Enabled, Address, Alike
  <2>2. FixedIpState(Rewritten(op, Target(read))) = FixedIpState(Rewritten(op, here))
    BY <1>2, <1>3, RewrittenIsRecord DEF FixedIpState, Enabled, Address, Alike
  <2>3. QED
    BY <1>4, <2>1, <2>2 DEF IpFamily, IpApprovalMaterial
<1>6. Available(op, read) <=> Available(op, Look(op, c))
  <2>1. /\ read["stat/sta"] = c.leases /\ read["rest/networkconf"] = c.usable
        /\ \A k \in Clients : Alike(read["rest/user"][k], c.users[k])
        /\ Target(read).network = here.network
    BY <1>2 DEF Agrees, Alike
  <2>2. QED
    <3>1. \A k \in Clients : c.users[k] # Absent =>
             Address(read["rest/user"][k]) = Address(c.users[k])
      BY <2>1 DEF Alike, Address
    <3>2. QED
      BY <1>4, <2>1, <3>1, LookIs DEF Available, Alike
<1>7. Precondition(op, read) = Stable(here)
  <2>1. Precondition(op, read) = Stable(Target(read))
    BY <1>2 DEF IpFamily, IpPrecondition
  <2>2. QED
    BY <1>2, <1>3, <2>1 DEF Stable, Alike, Records, Objects
<1>8. QED
  BY <1>3, <1>5, <1>6, <1>7

-----------------------------------------------------------------------------
(* Along the course of a run: what it has read, in planning and again, and  *)
(* what that says of the configuration while nobody disturbs it.            *)

Unwritten == {"idle", "locking", "reading", "refetching", "comparing"} \cup Planning

Reads(r) ==
    /\ pc[r] = "reading" => Held(mem[r].got, mem[r].seen)
    /\ pc[r] \in Planning \cup {"refetching"} \cup Committed => Held(4, mem[r].seen)
    /\ pc[r] = "refetching" => Held(mem[r].got, mem[r].fresh)
    /\ pc[r] \in {"comparing"} \cup Ready => Held(4, mem[r].fresh)

\* Nobody has disturbed the run since it began to plan.
Reviewed(r) ==
    /\ pc[r] = "reading" =>
         /\ Agrees(Op(r), mem[r].got, mem[r].seen, ctl)
         /\ mem[r].got > 0 => mem[r].seen # Unread
    /\ pc[r] \in Planning \cup {"refetching", "comparing"} =>
         Agrees(Op(r), 4, mem[r].seen, ctl) /\ mem[r].seen # Unread
    /\ pc[r] \in Unwritten => "freshness" \notin touched[r]
    /\ journal[r] # "REFUSED_STALE_APPROVAL"

\* The client is there, as the token shows it, and may have its address.
Standing(r) ==
    /\ ctl.users[Op(r).client] # Absent
    /\ Granted(r, Look(Op(r), ctl))
    /\ Op(r).address # NoAddress => Available(Op(r), Look(Op(r), ctl))

\* Nobody has disturbed the run since it began to refetch.
Refetched(r) ==
    /\ pc[r] = "refetching" =>
         /\ Agrees(Op(r), mem[r].got, mem[r].fresh, ctl)
         /\ mem[r].got > 0 => mem[r].fresh # Unread
    /\ pc[r] \in {"comparing"} \cup Ready =>
         Agrees(Op(r), 4, mem[r].fresh, ctl) /\ mem[r].fresh # Unread
    /\ pc[r] \in Ready \/ InFlight(r) => Standing(r)
    /\ InFlight(r) =>
         /\ body[r].settings = ctl.users[Op(r).client].settings
         /\ body[r].network = ctl.users[Op(r).client].network

IpCourse(r) ==
    /\ Reads(r)
    /\ pc[r] \in Approved => Granted(r, mem[r].seen)
    /\ "read_state" \notin touched[r] => Reviewed(r)
    /\ "freshness" \notin touched[r] => Refetched(r)

LEMMA InitIpCourse == Init => \A r \in Runs : IpCourse(r)
  BY DEF Init, IpCourse, Reads, Reviewed, Refetched, InFlight, Ready, Planning,
         Committed, Approved, Recorded, Sent

LEMMA IpCourseKept ==
  ASSUME NEW s \in Runs, IpCourse(s), Same(s), UNCHANGED controller
  PROVE  IpCourse(s)'
  BY DEF Same, controller, IpCourse, Reads, Reviewed, Refetched, InFlight, Standing,
         Granted, Op

\* The end of a process leaves its request as it stands.
LEMMA IpCourseEnds ==
  ASSUME TypeOK, NEW r \in Runs, IpCourse(r), NEW where \in Ended, NEW words,
         Exit(r, where, words), UNCHANGED network, UNCHANGED controller,
         "read_state" \in touched[r] \/ journal'[r] # "REFUSED_STALE_APPROVAL"
  PROVE  IpCourse(r)'
<1>1. pc'[r] = where /\ cmd'[r] = cmd[r]
  BY ExitForgets
<1>2. QED
  BY <1>1
  DEF network, controller, IpCourse, Reads, Reviewed, Refetched, InFlight, Standing,
      Granted, Op, Ended, Ready, Unwritten, Planning, Committed, Approved, Recorded, Sent

LEMMA IpCourseStep ==
  ASSUME IpFamily, IInv, NEW r \in Runs, Memory(r), IpCourse(r),
         Step(r) \/ Receive(r) \/ Crash(r)
  PROVE  IpCourse(r)'
<1>0. /\ mem[r].got \in Nat /\ DOMAIN mem = Runs /\ r \in DOMAIN pc
      /\ DOMAIN snap = Runs /\ r \in DOMAIN journal /\ r \in DOMAIN wire
      /\ DOMAIN body = Runs
      /\ DOMAIN mem[r] = DOMAIN Blank /\ TypeOK /\ Op(r) \in Operations
      /\ Phase(r) /\ ctl \in States
      /\ Len(ReadState(Op(r))) = 4
  BY DEF IInv, TypeOK, Op, IpFamily, IpReadState
<1>x. UNCHANGED controller
  BY <1>0, OthersKeep
<1>1. ASSUME \/ Exit(r, "done", "ERROR") \/ Exit(r, "done", "PLAN")
             \/ Exit(r, "done", Verdict(r)) \/ Exit(r, "crashed", "none"),
             UNCHANGED network,
             "read_state" \in touched[r] \/ journal'[r] # "REFUSED_STALE_APPROVAL"
      PROVE  IpCourse(r)'
  BY <1>0, <1>1, <1>x, IpCourseEnds DEF Ended
<1>2. ASSUME Exit(r, "done", "ERROR") \/ Exit(r, "done", "PLAN")
             \/ Exit(r, "crashed", "none"),
             UNCHANGED network, UNCHANGED journal
      PROVE  IpCourse(r)'
  BY <1>1, <1>2 DEF IpCourse, Reviewed
\* Between two readings only the place changes.
<1>3. ASSUME pc[r] \in Unwritten, pc'[r] \in Planning,
             pc[r] \in Planning \ {"identifying"},
             pc'[r] = "identifying" => Granted(r, mem[r].seen),
             UNCHANGED <<cmd, mem, network>>,
             journal'[r] # "REFUSED_STALE_APPROVAL"
      PROVE  IpCourse(r)'
  BY <1>0, <1>x, <1>3
  DEF network, controller, IpCourse, Reads, Reviewed, Refetched, InFlight, Standing,
      Granted, Op, Ready, Unwritten, Planning, Committed, Approved, Recorded, Sent,
      Phase, Unrecorded
<1>4. CASE Begin(r)
  <2>1. /\ pc[r] = "idle" /\ pc'[r] = "locking" /\ wire'[r] = "idle"
        /\ journal'[r] = "NO_RECORD"
    BY <1>0, <1>4 DEF Begin, Goto, network, disk, Phase, Unrecorded
  <2>2. QED
    BY <1>x, <2>1
    DEF controller, IpCourse, Reads, Reviewed, Refetched, InFlight, Ready, Unwritten,
        Planning, Committed, Approved, Recorded, Sent
<1>5. CASE TakeLock(r)
  <2>1. CASE Goto(r, "reading") /\ UNCHANGED <<cmd, mem, network, journal>> /\ pc[r] = "locking"
    <3>1. pc'[r] = "reading" /\ mem'[r].got = 0 /\ wire'[r] = "idle" /\ journal'[r] = "NO_RECORD"
      BY <1>0, <2>1, BlankShape DEF Goto, network, Phase, Unrecorded, Memory
    <3>2. QED
      BY <1>x, <2>1, <3>1
      DEF controller, IpCourse, Reads, Reviewed, Refetched, InFlight, Ready, Unwritten,
          Planning, Committed, Approved, Recorded, Sent, Held, Agrees
  <2>2. QED
    BY <1>2, <1>5, <2>1 DEF TakeLock, disk
<1>6. CASE ReadNext(r)
  <2> DEFINE n == mem[r].got
             d == ReadState(Op(r))[n + 1]
             last == n + 1 >= Len(ReadState(Op(r)))
             now == [mem[r].seen EXCEPT ![d] = View(Op(r), d, ctl, mem[r].seen)]
  <2>1. /\ pc[r] = "reading" /\ n \in 0 .. 3 /\ wire[r] = "idle"
        /\ journal[r] = "NO_RECORD" /\ DOMAIN mem[r].seen = Datasets
        /\ View(Op(r), d, ctl, mem[r].seen) # NoView
    BY <1>0, <1>6 DEF ReadNext, Memory, Phase, Unrecorded
  <2>2. /\ pc'[r] = IF last THEN "validating" ELSE "reading"
        /\ mem'[r].seen = now
        /\ mem'[r].got = IF last THEN 0 ELSE n + 1
        /\ cmd' = cmd /\ wire' = wire /\ journal' = journal
    BY <1>0, <1>6, SMTT(30) DEF ReadNext, Goto, Blank, disk, network
  <2>3. /\ Held(n + 1, now)
        /\ Agrees(Op(r), n, mem[r].seen, ctl) => Agrees(Op(r), n + 1, now, ctl)
    BY <1>0, <2>1, AgreesNext DEF IpCourse, Reads
  <2>4. now # Unread
    <3>0. n \in Nat /\ n < Len(ReadState(Op(r)))
      BY <1>0, <2>1
    <3>1. d \in Datasets
      BY <1>0, <3>0, GatheredNext
    <3>2. Unread[d] = NoView /\ now[d] = View(Op(r), d, ctl, mem[r].seen)
      BY <2>1, <3>1 DEF Unread
    <3> HIDE DEF now
    <3>3. QED
      BY <2>1, <3>2
  <2>5. last <=> n = 3
    BY <1>0, <2>1
  <2> HIDE DEF now, last
  <2>6. Reads(r)' /\ ("read_state" \notin touched[r] => Reviewed(r)')
    BY <1>x, <2>1, <2>2, <2>3, <2>4, <2>5
    DEF controller, IpCourse, Reads, Reviewed, Ready, Unwritten, Planning, Committed, Op
  <2>7. QED
    BY <1>x, <2>1, <2>2, <2>6
    DEF controller, IpCourse, Refetched, InFlight, Ready, Approved, Recorded, Sent
<1>7. CASE Validate(r) \/ SaveSnapshot(r)
  <2>1. CASE Exit(r, "done", "ERROR")
    BY <1>2, <1>7, <2>1 DEF Validate, SaveSnapshot, disk
  <2>2. CASE ~Exit(r, "done", "ERROR")
    <3>1. /\ pc[r] \in {"validating", "saving"} /\ pc'[r] \in {"saving", "recording"}
          /\ UNCHANGED <<cmd, mem, network, journal>>
      BY <1>0, <1>7, <2>2 DEF Validate, SaveSnapshot, Goto, disk
    <3>2. journal[r] = "NO_RECORD"
      BY <1>0, <3>1 DEF Phase, Unrecorded
    <3>3. QED
      BY <1>3, <3>1, <3>2 DEF Unwritten, Planning
  <2>3. QED
    BY <2>1, <2>2
<1>8. CASE Plan(r)
  <2>1. CASE Goto(r, "authorizing") /\ UNCHANGED <<cmd, mem>> /\ pc[r] = "recording"
             /\ journal' = [journal EXCEPT ![r] = "PLANNED_NO_WRITE"]
    BY <1>0, <1>3, <1>8, <2>1 DEF Plan, Goto, Unwritten, Planning
  <2>2. CASE (Exit(r, "done", "PLAN") \/ Exit(r, "done", "ERROR")) /\ pc[r] = "recording"
    <3>1. journal'[r] # "REFUSED_STALE_APPROVAL"
      BY <1>0, <1>8, <2>2 DEF Plan, Phase, Unrecorded
    <3>2. QED
      BY <1>1, <1>8, <2>2, <3>1 DEF Plan
  <2>3. QED
    BY <1>8, <2>1, <2>2 DEF Plan
<1>9. CASE Authorize(r)
  <2>1. CASE Authorized(r) /\ Proceed(r, "identifying")
    <3>1. pc[r] = "authorizing" /\ Granted(r, mem[r].seen) /\ journal[r] = "PLANNED_NO_WRITE"
      BY <1>0, <1>9, <2>1 DEF Authorize, Authorized, Granted, Phase, Recorded
    <3>2. QED
      BY <1>0, <1>3, <2>1, <3>1 DEF Proceed, Goto, disk, Unwritten, Planning
  <2>2. QED
    BY <1>0, <1>1, <1>9, <2>1 DEF Authorize, Refuse
<1>10. CASE RecheckIdentity(r)
  <2>1. CASE Proceed(r, "refetching") /\ pc[r] = "identifying"
    <3>1. /\ mem[r].fresh = Unread /\ mem[r].got = 0 /\ wire[r] = "idle"
          /\ journal[r] = "PLANNED_NO_WRITE"
      BY <1>0, <2>1 DEF Memory, Planning, Phase, Recorded
    <3>2. /\ pc'[r] = "refetching"
          /\ UNCHANGED <<cmd, mem, wire, journal>>
      BY <1>0, <2>1 DEF Proceed, Goto, disk, network
    <3>3. QED
      BY <1>x, <2>1, <3>1, <3>2
      DEF controller, IpCourse, Reads, Reviewed, Refetched, InFlight, Granted, Op, Ready,
          Unwritten, Planning, Committed, Approved, Recorded, Sent, Held, Agrees
  <2>2. QED
    BY <1>0, <1>1, <1>10, <2>1 DEF RecheckIdentity, Refuse
<1>11. CASE RefetchNext(r)
  <2> DEFINE n == mem[r].got
             d == ReadState(Op(r))[n + 1]
             last == n + 1 >= Len(ReadState(Op(r)))
             now == [mem[r].fresh EXCEPT ![d] = View(Op(r), d, ctl, mem[r].fresh)]
  <2>1. /\ pc[r] = "refetching" /\ n \in 0 .. 3 /\ wire[r] = "idle"
        /\ DOMAIN mem[r].fresh = Datasets
        /\ View(Op(r), d, ctl, mem[r].fresh) # NoView
    BY <1>0, <1>11 DEF RefetchNext, Memory, Phase, Recorded
  <2>2. /\ pc'[r] = IF last THEN "comparing" ELSE "refetching"
        /\ mem'[r].fresh = now /\ mem'[r].seen = mem[r].seen
        /\ mem'[r].got = IF last THEN 0 ELSE n + 1
        /\ cmd' = cmd /\ wire' = wire /\ journal' = journal
    BY <1>0, <1>11, SMTT(30) DEF RefetchNext, Goto, Blank, disk, network
  <2>3. /\ Held(n + 1, now)
        /\ Agrees(Op(r), n, mem[r].fresh, ctl) => Agrees(Op(r), n + 1, now, ctl)
    BY <1>0, <2>1, AgreesNext DEF IpCourse, Reads
  <2>4. now # Unread
    <3>0. n \in Nat /\ n < Len(ReadState(Op(r)))
      BY <1>0, <2>1
    <3>1. d \in Datasets
      BY <1>0, <3>0, GatheredNext
    <3>2. Unread[d] = NoView /\ now[d] = View(Op(r), d, ctl, mem[r].fresh)
      BY <2>1, <3>1 DEF Unread
    <3> HIDE DEF now
    <3>3. QED
      BY <2>1, <3>2
  <2>5. last <=> n = 3
    BY <1>0, <2>1
  <2> HIDE DEF now, last
  <2>6. Reads(r)'
    BY <2>1, <2>2, <2>3, <2>5 DEF IpCourse, Reads, Ready, Planning, Committed
  <2>7. "read_state" \notin touched[r] => Reviewed(r)'
    BY <1>x, <2>1, <2>2
    DEF controller, IpCourse, Reviewed, Unwritten, Planning, Op
  <2>8. "freshness" \notin touched[r] => Refetched(r)'
    BY <1>x, <2>1, <2>2, <2>3, <2>4, <2>5
    DEF controller, IpCourse, Refetched, InFlight, Ready, Op
  <2>9. pc'[r] \in Approved => Granted(r, mem[r].seen)'
    BY <2>1, <2>2 DEF IpCourse, Approved, Recorded, Granted, Op
  <2>10. QED
    BY <1>x, <2>6, <2>7, <2>8, <2>9 DEF controller, IpCourse
<1>12. CASE ReadFails(r) \/ Crash(r)
  BY <1>2, <1>12 DEF ReadFails, Crash, disk
<1>13. CASE RefetchFails(r) \/ Complete(r)
  <2>1. journal'[r] # "REFUSED_STALE_APPROVAL"
    BY <1>0, <1>13 DEF RefetchFails, Complete, Refuse, Verdict
  <2>2. QED
    BY <1>1, <1>13, <2>1 DEF RefetchFails, Complete, Refuse
<1>14. CASE CheckFresh(r)
  <2>0. /\ pc[r] = "comparing" /\ wire[r] = "idle" /\ journal[r] = "PLANNED_NO_WRITE"
        /\ Target(mem[r].seen) \in Records \cup {Absent}
        /\ Target(mem[r].fresh) \in Records \cup {Absent}
    BY <1>0, <1>14 DEF CheckFresh, Phase, Recorded, IpCourse, Reads, Held, Committed
  <2>1. CASE ~Unchanged(r) /\ Refuse(r, "REFUSED_STALE_APPROVAL")
    <3>1. ASSUME "read_state" \notin touched[r]
          PROVE  Unchanged(r)
      <4>1. /\ Agrees(Op(r), 4, mem[r].seen, ctl)
            /\ Agrees(Op(r), 4, mem[r].fresh, ctl)
        BY <2>0, <3>1 DEF IpCourse, Reviewed, Refetched, Unwritten
      <4>2. CASE Target(mem[r].seen) = Absent
        <5>1. Target(mem[r].fresh) = Absent
          BY <4>1, <4>2 DEF Agrees, Alike
        <5>2. QED
          BY <4>2, <5>1 DEF Unchanged, IpFamily, IpPrecondition
      <4>3. CASE Target(mem[r].seen) # Absent
        <5>1. Target(mem[r].fresh) # Absent
          BY <4>1, <4>3 DEF Agrees, Alike
        <5>2. QED
          BY <1>0, <2>0, <4>1, <4>3, <5>1, AlikeViews DEF Unchanged
      <4>4. QED
        BY <4>2, <4>3
    <3>2. QED
      BY <1>1, <2>1, <3>1 DEF Refuse
  <2>2. CASE Refuse(r, "REFUSED_RUNTIME_SAFETY_CHECK")
    BY <1>0, <1>1, <2>2 DEF Refuse
  <2>3. CASE /\ Unchanged(r) /\ RuntimeSafe(Op(r), mem[r].seen, mem[r].fresh)
             /\ Proceed(r, "attempting")
    <3>1. IpRuntimeSafe(Op(r), mem[r].seen, mem[r].fresh)
      BY <2>3 DEF IpFamily
    <3>2. Target(mem[r].fresh) \in Records
      BY <2>0, <3>1 DEF IpRuntimeSafe
    <3>3. /\ Target(mem[r].seen) \in Records
          /\ ApprovalMaterial(Op(r), mem[r].seen) = ApprovalMaterial(Op(r), mem[r].fresh)
      <4>1. IpPrecondition(Op(r), mem[r].seen) = IpPrecondition(Op(r), mem[r].fresh)
        BY <2>3 DEF Unchanged, IpFamily
      <4>2. Target(mem[r].fresh) # Absent /\ Stable(Target(mem[r].fresh)) # Absent
        <5>1. Stable(Target(mem[r].fresh)) \in Records
          BY <3>2, StampAssumption DEF Stable, Records, Objects
        <5>2. QED
          BY <3>2, <5>1, AbsentIsNoRecord
      <4>3. /\ Target(mem[r].seen) \in Records
            /\ Stable(Target(mem[r].seen)) = Stable(Target(mem[r].fresh))
        BY <2>0, <4>1, <4>2 DEF IpPrecondition
      <4>4. /\ Target(mem[r].seen).network = Target(mem[r].fresh).network
            /\ Target(mem[r].seen).use_fixedip = Target(mem[r].fresh).use_fixedip
            /\ Target(mem[r].seen).fixed_ip = Target(mem[r].fresh).fixed_ip
            /\ Target(mem[r].seen).fixedIpEnabled = Target(mem[r].fresh).fixedIpEnabled
            /\ Target(mem[r].seen).fixedIpAddress = Target(mem[r].fresh).fixedIpAddress
        BY <3>2, <4>3 DEF Stable, Records, Objects
      <4>5. /\ FixedIpState(Target(mem[r].seen)) = FixedIpState(Target(mem[r].fresh))
            /\ FixedIpState(Rewritten(Op(r), Target(mem[r].seen)))
                 = FixedIpState(Rewritten(Op(r), Target(mem[r].fresh)))
        BY <1>0, <3>2, <4>3, <4>4, RewrittenIsRecord DEF FixedIpState, Enabled, Address
      <4>6. QED
        BY <4>3, <4>5 DEF IpFamily, IpApprovalMaterial
    <3>4. Granted(r, mem[r].seen)
      BY <2>0 DEF IpCourse, Approved, Recorded
    <3>5. ASSUME "freshness" \notin touched[r]
          PROVE  Standing(r)
      <4>1. Agrees(Op(r), 4, mem[r].fresh, ctl)
        BY <2>0, <3>5 DEF IpCourse, Refetched
      <4>2. /\ ctl.users[Op(r).client] # Absent
            /\ ApprovalMaterial(Op(r), mem[r].fresh) = ApprovalMaterial(Op(r), Look(Op(r), ctl))
            /\ Available(Op(r), mem[r].fresh) => Available(Op(r), Look(Op(r), ctl))
        BY <1>0, <3>2, <4>1, AlikeViews, AbsentIsNoRecord
      <4>3. QED
        BY <3>1, <3>3, <3>4, <4>2 DEF Standing, Granted, ApprovalToken, IpRuntimeSafe
    <3>6. /\ pc'[r] = "attempting" /\ UNCHANGED <<cmd, mem, wire, journal>>
      BY <1>0, <2>0, <2>3 DEF Proceed, Goto, disk, network
    <3>7. "freshness" \notin touched[r] => Refetched(r)'
      BY <1>x, <2>0, <3>5, <3>6
      DEF controller, IpCourse, Refetched, InFlight, Standing, Granted, Op, Ready
    <3>8. QED
      BY <1>x, <2>0, <3>4, <3>6, <3>7
      DEF controller, IpCourse, Reads, Reviewed, Granted, Op, Ready, Unwritten, Planning,
          Committed, Approved, Recorded, Sent
  <2>4. QED
    BY <1>14, <2>1, <2>2, <2>3 DEF CheckFresh
<1>15. CASE RecordAttempt(r)
  <2>1. /\ pc[r] = "attempting" /\ pc'[r] = "sending" /\ wire[r] = "idle"
        /\ journal'[r] = "WRITE_ATTEMPTED" /\ UNCHANGED <<cmd, mem, wire>>
    BY <1>0, <1>15 DEF RecordAttempt, Goto, network, Phase, Recorded
  <2>2. QED
    BY <1>x, <2>1
    DEF controller, IpCourse, Reads, Reviewed, Refetched, InFlight, Standing, Granted, Op,
        Ready, Unwritten, Planning, Committed, Approved, Recorded, Sent
<1>16. CASE Send(r)
  <2>1. /\ pc[r] = "sending" /\ pc'[r] = "waiting" /\ wire'[r] = "sent"
        /\ UNCHANGED <<cmd, mem, journal>> /\ journal[r] = "WRITE_ATTEMPTED"
        /\ body'[r] = Rewritten(Op(r), Target(mem[r].fresh))
    BY <1>0, <1>16 DEF Send, Goto, disk, Phase, IpFamily, IpRequest
  <2>2. Target(mem[r].fresh) \in Records \cup {Absent}
    BY <2>1 DEF IpCourse, Reads, Ready, Held
  <2>3. ASSUME "freshness" \notin touched[r]
        PROVE  /\ Standing(r)
               /\ body'[r].settings = ctl.users[Op(r).client].settings
               /\ body'[r].network = ctl.users[Op(r).client].network
    <3>1. Standing(r) /\ Alike(Target(mem[r].fresh), ctl.users[Op(r).client])
      BY <2>1, <2>3 DEF IpCourse, Refetched, Ready, Agrees
    <3>2. Target(mem[r].fresh) \in Records
      BY <2>2, <3>1 DEF Standing, Alike
    <3>3. /\ body'[r].settings = Target(mem[r].fresh).settings
          /\ body'[r].network = Target(mem[r].fresh).network
      BY <2>1, <3>2 DEF Rewritten, Records, Objects
    <3>4. QED
      BY <3>1, <3>3 DEF Standing, Alike
  <2>4. "freshness" \notin touched[r] => Refetched(r)'
    BY <1>x, <2>1, <2>3
    DEF controller, Refetched, InFlight, Standing, Granted, Op, Ready
  <2>5. QED
    BY <1>x, <2>1, <2>4
    DEF controller, IpCourse, Reads, Reviewed, Granted, Op, Ready, Unwritten, Planning,
        Committed, Approved, Recorded, Sent
<1>17. CASE Receive(r) \/ VerifyNext(r) \/ Judge(r) \/ VerifyFails(r)
  <2>1. /\ pc[r] \in {"waiting", "verifying"} /\ pc'[r] \in {"verifying", "completing"}
        /\ mem'[r].seen = mem[r].seen /\ UNCHANGED <<cmd, wire, body, journal>>
    BY <1>0, <1>17, SMTT(30)
    DEF Receive, VerifyNext, Judge, VerifyFails, Reconcile, Goto, Blank, disk, network
  <2>2. QED
    BY <1>x, <2>1
    DEF controller, IpCourse, Reads, Reviewed, Refetched, InFlight, Standing, Granted, Op,
        Ready, Unwritten, Planning, Committed, Approved, Recorded, Sent
<1>18. QED
  BY <1>4, <1>5, <1>6, <1>7, <1>8, <1>9, <1>10, <1>11, <1>12, <1>13, <1>14, <1>15,
     <1>16, <1>17 DEF Step

\* Somebody else's change marks the runs that have begun to read.
LEMMA IpCourseDisturbed ==
  ASSUME TypeOK, NEW s \in Runs, Memory(s), Phase(s), IpCourse(s), Same(s),
         NEW others \in SUBSET Runs, s \in others, Disturb(others)
  PROVE  IpCourse(s)'
<1>1. touched'[s] = touched[s]
         \cup (IF ReadBegun(s) THEN {"read_state"} ELSE {})
         \cup (IF RefetchBegun(s) THEN {"freshness"} ELSE {})
  BY DEF Disturb
<1>2. mem[s].got \in Nat
  BY DEF TypeOK
<1>3. ASSUME "read_state" \notin touched'[s]
      PROVE  Reviewed(s)'
  <2>1. "read_state" \notin touched[s] /\ ~ReadBegun(s) /\ Reviewed(s)
    BY <1>1, <1>3 DEF IpCourse
  <2>2. /\ pc[s] \notin Planning \cup {"refetching", "comparing"}
        /\ pc[s] = "reading" => mem[s].got = 0
    BY <1>2, <2>1 DEF Reviewed, ReadBegun, Working, Planning
  <2>3. pc[s] \in Unwritten => "freshness" \notin touched'[s]
    <3>1. pc[s] \in Unwritten => wire[s] = "idle" /\ mem[s].fresh = Unread
      BY <2>2, BlankShape
      DEF Unwritten, Phase, Unrecorded, Recorded, Memory, Ended, Planning
    <3>2. QED
      BY <1>1, <2>1, <3>1 DEF RefetchBegun, Reviewed
  <2>4. QED
    BY <2>1, <2>2, <2>3 DEF Same, Reviewed, Agrees, Op
<1>4. ASSUME "freshness" \notin touched'[s]
      PROVE  Refetched(s)'
  <2>1. "freshness" \notin touched[s] /\ ~RefetchBegun(s) /\ Refetched(s)
    BY <1>1, <1>4 DEF IpCourse
  <2>2. /\ ~InFlight(s) /\ pc[s] \notin {"comparing"} \cup Ready
        /\ pc[s] = "refetching" => mem[s].got = 0
    BY <1>2, <2>1 DEF Refetched, RefetchBegun, InFlight, Working, Ready
  <2>3. QED
    BY <2>1, <2>2 DEF Same, Refetched, InFlight, Agrees, Op
<1>5. QED
  BY <1>3, <1>4 DEF Same, IpCourse, Reads, Granted, Op

\* What moves by itself changes nothing that anybody compares.
LEMMA TickKeeps ==
  ASSUME IpFamily, TypeOK, Tick
  PROVE  /\ \A k \in Clients : /\ Alike(ctl'.users[k], ctl.users[k])
                               /\ ctl'.users[k] \in Records \cup {Absent}
         /\ ctl'.leases = ctl.leases /\ ctl'.usable = ctl.usable
         /\ ctl \in States /\ ctl' \in States
<1>1. ctl \in IpStates /\ ctl' \in IpStates
  BY DEF TypeOK, Tick, IpFamily
<1>2. PICK k \in Known(ctl) : ctl' = [ctl EXCEPT !.users[k].stamp = @ + 1]
  BY DEF Tick, IpFamily, IpTicks
<1>3. /\ k \in Clients /\ ctl.users[k] \in Records
      /\ ctl.users \in [Clients -> Records \cup {Absent}]
  BY <1>1, <1>2 DEF Known, IpStates
<1>4. /\ ctl'.users = [ctl.users EXCEPT ![k] = [ctl.users[k] EXCEPT !.stamp = @ + 1]]
      /\ ctl'.leases = ctl.leases /\ ctl'.usable = ctl.usable
  BY <1>1, <1>2 DEF IpStates
<1>5. ctl'.users \in [Clients -> Records \cup {Absent}]
  BY <1>1 DEF IpStates
<1>6. Alike(ctl'.users[k], ctl.users[k])
  <2>1. /\ ctl'.users[k].network = ctl.users[k].network
        /\ ctl'.users[k].use_fixedip = ctl.users[k].use_fixedip
        /\ ctl'.users[k].fixed_ip = ctl.users[k].fixed_ip
        /\ ctl'.users[k].fixedIpEnabled = ctl.users[k].fixedIpEnabled
        /\ ctl'.users[k].fixedIpAddress = ctl.users[k].fixedIpAddress
        /\ ctl'.users[k].settings = ctl.users[k].settings
    BY <1>3, <1>4 DEF Records, Objects
  <2>2. ctl'.users[k] # Absent /\ ctl.users[k] # Absent
    <3>1. ctl.users[k] # Absent
      BY <1>2 DEF Known
    <3>2. ctl'.users[k] = [ctl.users[k] EXCEPT !.stamp = @ + 1]
      BY <1>3, <1>4
    <3>3. ctl'.users[k] \in Objects(Nat)
      BY <1>3, <3>2 DEF Records, Objects
    <3>4. QED
      BY <3>1, <3>3, ClientAssumption
  <2>3. QED
    BY <2>1, <2>2 DEF Alike
<1>7. \A j \in Clients : j # k => ctl'.users[j] = ctl.users[j]
  BY <1>3, <1>4
<1>8. QED
  BY <1>1, <1>4, <1>5, <1>6, <1>7 DEF Alike, IpFamily

LEMMA IpCourseTick ==
  ASSUME IpFamily, TypeOK, Tick, NEW s \in Runs, IpCourse(s)
  PROVE  IpCourse(s)'
<1>0. /\ UNCHANGED <<process, disk, network, touched>>
      /\ Op(s) \in Operations /\ Op(s).client \in Clients
      /\ ctl \in States /\ ctl' \in States
  BY TickKeeps DEF Tick, TypeOK, Op, IpFamily
<1>1. ASSUME NEW n, NEW read, Agrees(Op(s), n, read, ctl)
      PROVE  Agrees(Op(s), n, read, ctl')
  BY <1>0, <1>1, TickKeeps DEF Agrees, Alike
<1>2. ASSUME Standing(s)
      PROVE  Standing(s)'
  <2>1. Target(Look(Op(s), ctl)) = ctl.users[Op(s).client]
    BY <1>0, <1>2, LookIs DEF Standing
  <2>2. /\ Agrees(Op(s), 4, Look(Op(s), ctl), ctl)
        /\ Target(Look(Op(s), ctl)) \in Records
    <3>1. ctl.users \in [Clients -> Records \cup {Absent}]
      BY <1>0 DEF IpFamily, IpStates
    <3>2. QED
      BY <1>0, <1>2, <2>1, <3>1, LookIs DEF Agrees, Alike, Standing
  <2>3. Agrees(Op(s), 4, Look(Op(s), ctl), ctl')
    BY <1>1, <2>2
  <2>4. /\ ctl'.users[Op(s).client] # Absent
        /\ ApprovalMaterial(Op(s), Look(Op(s), ctl)) = ApprovalMaterial(Op(s), Look(Op(s), ctl'))
        /\ Available(Op(s), Look(Op(s), ctl)) => Available(Op(s), Look(Op(s), ctl'))
    BY <1>0, <2>2, <2>3, AlikeViews, AbsentIsNoRecord
  <2>5. QED
    BY <1>0, <1>2, <2>4 DEF Standing, Granted, ApprovalToken, process, Op
<1>3. Reviewed(s) => Reviewed(s)'
  BY <1>0, <1>1 DEF Reviewed, process, disk, Op
<1>4. Refetched(s) => Refetched(s)'
  <2>1. /\ ctl'.users[Op(s).client].settings = ctl.users[Op(s).client].settings
             \/ ctl.users[Op(s).client] = Absent
        /\ ctl'.users[Op(s).client].network = ctl.users[Op(s).client].network
             \/ ctl.users[Op(s).client] = Absent
    BY <1>0, TickKeeps DEF Alike
  <2>2. QED
    BY <1>0, <1>1, <1>2, <2>1 DEF Refetched, InFlight, Standing, process, network, Op
<1>5. QED
  BY <1>0, <1>3, <1>4 DEF IpCourse, Reads, Granted, process, Op

LEMMA IpCourseOutside ==
  ASSUME IpFamily, IInv, \A s \in Runs : Memory(s) /\ IpCourse(s),
         \/ \E r \in Runs : Accept(r) \/ Reject(r) \/ Land(r)
         \/ Edit \/ Tick
  PROVE  \A s \in Runs : Memory(s)' /\ IpCourse(s)'
<1>0. TypeOK /\ \A s \in Runs : Phase(s)
  BY DEF IInv
<1>1. UNCHANGED <<process, disk>>
  BY DEF Accept, Reject, Land, Edit, Tick
<1>2. \A s \in Runs : Memory(s)'
  BY <1>1 DEF process, Memory, Op
<1>3. ASSUME NEW r \in Runs, Accept(r) \/ Reject(r), NEW s \in Runs
      PROVE  IpCourse(s)'
  <2>1. /\ wire'[s] \in {"sent", "accepted"} => wire[s] \in {"sent", "accepted"}
        /\ UNCHANGED <<process, disk, body, controller>>
    BY <1>0, <1>3, SMTT(30) DEF Accept, Reject, TypeOK
  <2>2. QED
    BY <2>1
    DEF process, disk, controller, IpCourse, Reads, Reviewed, Refetched, InFlight,
        Standing, Granted, Op
<1>4. ASSUME NEW r \in Runs, Land(r), NEW s \in Runs
      PROVE  IpCourse(s)'
  <2>1. CASE s = r
    <3>1. wire[r] = "accepted" /\ wire'[r] = "applied" /\ touched'[r] = touched[r]
      BY <1>0, <1>4, SMTT(30) DEF Land, Disturb, TypeOK
    <3>2. pc[r] \notin Unwritten \cup Ready
      BY <1>0, <1>2, <3>1
      DEF Phase, Unrecorded, Recorded, Unwritten, Planning, Ready
    <3>3. QED
      BY <1>1, <2>1, <3>1, <3>2
      DEF process, disk, IpCourse, Reads, Reviewed, Refetched, InFlight, Granted, Op,
          Unwritten, Ready
  <2>2. CASE s # r
    <3>1. Same(s)
      BY <1>0, <1>1, <1>4, <2>2, SMTT(30) DEF Same, Land, TypeOK, process, disk
    <3>2. QED
      BY <1>0, <1>4, <2>2, <3>1, IpCourseDisturbed DEF Land
  <2>3. QED
    BY <2>1, <2>2
<1>5. ASSUME Edit, NEW s \in Runs
      PROVE  IpCourse(s)'
  <2>1. Same(s)
    BY <1>1, <1>5 DEF Same, Edit, process, disk, network
  <2>2. CASE Disturb(Runs)
    BY <1>0, <2>1, <2>2, IpCourseDisturbed
  <2>3. CASE UNCHANGED <<ctl, touched>>
    BY <2>1, <2>3
    DEF Same, IpCourse, Reads, Reviewed, Refetched, InFlight, Standing, Granted, Op
  <2>4. QED
    BY <1>5, <2>2, <2>3 DEF Edit
<1>6. CASE Tick
  BY <1>0, <1>2, <1>6, IpCourseTick
<1>7. QED
  BY <1>2, <1>3, <1>4, <1>5, <1>6

\* Memory and course of every run, next to the invariant of the engine.
IpInv == IInv /\ \A r \in Runs : Memory(r) /\ IpCourse(r)

LEMMA NextIpCourse ==
  ASSUME IpFamily, IpInv, [Next]_vars
  PROVE  IpInv'
<1>1. IInv'
  BY NextInv DEF IpInv
<1>2. ASSUME NEW r \in Runs, Step(r) \/ Receive(r) \/ Crash(r), NEW s \in Runs
      PROVE  Memory(s)' /\ IpCourse(s)'
  <2>1. CASE s = r
    BY <1>2, <2>1, MemoryStep, IpCourseStep DEF IpInv, IInv
  <2>2. CASE s # r
    <3>1. Same(s) /\ UNCHANGED controller
      BY <1>2, <2>2, OthersKeep DEF IpInv, IInv
    <3>2. Memory(s)'
      BY <3>1 DEF IpInv, Same, Memory, Op
    <3>3. QED
      BY <3>1, <3>2, IpCourseKept DEF IpInv
  <2>3. QED
    BY <2>1, <2>2
<1>3. CASE UNCHANGED vars
  <2>1. ASSUME NEW s \in Runs
        PROVE  Memory(s)' /\ IpCourse(s)'
    <3>1. Same(s) /\ UNCHANGED controller
      BY <1>3 DEF Same, vars, process, disk, network, controller
    <3>2. Memory(s) /\ IpCourse(s)
      BY DEF IpInv
    <3>3. Memory(s)'
      BY <3>1, <3>2 DEF Same, Memory, Op
    <3>4. QED
      BY <3>1, <3>2, <3>3, IpCourseKept
  <2>2. QED
    BY <1>1, <2>1 DEF IpInv
<1>4. QED
  BY <1>1, <1>2, <1>3, IpCourseOutside DEF Next, Environment, IpInv

LEMMA IpInvariant ==
  ASSUME IpFamily
  PROVE  Spec => []IpInv
<1>1. Init => IpInv
  BY InitInv, InitMemory, InitIpCourse DEF IpInv
<1>2. IpInv /\ [Next]_vars => IpInv'
  BY NextIpCourse
<1>3. QED
  BY <1>1, <1>2, PTL DEF Spec

\* A reservation that nobody disturbs is sent for the very network, reservation
\* and address its token was printed for, although other fields may have moved.
THEOREM ApprovedReservation ==
  ASSUME IpFamily
  PROVE  Spec => []WritesWhatWasApproved
<1>1. IpInv => WritesWhatWasApproved
  BY DEF IpInv, IpCourse, Refetched, InFlight, Standing, Granted, WritesWhatWasApproved
<1>2. QED
  BY <1>1, IpInvariant, PTL

\* Fields that move by themselves never make an approval stale.
THEOREM NoFalseAlarm ==
  ASSUME IpFamily
  PROVE  Spec => []StaleMeansChanged
<1>1. IpInv => StaleMeansChanged
  BY DEF IpInv, IpCourse, Reviewed, StaleMeansChanged
<1>2. QED
  BY <1>1, IpInvariant, PTL

\* The step by which a request replaces its client.
LEMMA ReplacesIsLand ==
  ASSUME IpFamily, IpInv, Next, NEW r \in Runs, Replaces(r), Undisturbed(r)
  PROVE  /\ Standing(r)
         /\ After(r) = body[r]
         /\ body[r].settings = Before(r).settings
         /\ body[r].network = Before(r).network
<1>0. TypeOK /\ IpCourse(r) /\ \A s \in Runs : Phase(s)
  BY DEF IpInv, IInv
<1>1. Standing(r) /\ body[r].settings = Before(r).settings
                  /\ body[r].network = Before(r).network
  BY <1>0 DEF Replaces, Undisturbed, IpCourse, Refetched, InFlight, Before
<1>2. Land(r)
  BY TakesEffect DEF IpInv, Replaces
<1>3. ctl' = [ctl EXCEPT !.users[Op(r).client] = body[r]]
  BY <1>2 DEF Land, IpFamily, IpLanding
<1>4. ctl \in IpStates /\ Op(r).client \in Clients
  BY <1>0 DEF TypeOK, IpFamily, Op
<1>5. ctl'.users[Op(r).client] = body[r]
  BY <1>3, <1>4 DEF IpStates
<1>6. Op(r)' = Op(r)
  BY <1>2 DEF Land, process, Op
<1>7. QED
  BY <1>1, <1>5, <1>6 DEF After

\* Whatever was edited before the refetch is in the body of the PUT.
THEOREM NothingOverwritten ==
  ASSUME IpFamily
  PROVE  Spec => OverwritesNothingItCouldSee
<1>1. ASSUME IpInv, [Next]_vars
      PROVE  [\A r \in Runs : (Replaces(r) /\ Undisturbed(r)) =>
                /\ After(r).settings = Before(r).settings
                /\ After(r).network = Before(r).network]_vars
  BY <1>1, ReplacesIsLand
<1>2. QED
  BY <1>1, IpInvariant, PTL DEF Spec, OverwritesNothingItCouldSee

\* No request that nobody disturbs gives an address away twice.
THEOREM FreeAddresses ==
  ASSUME IpFamily
  PROVE  Spec => ReservesOnlyFreeAddresses
<1>1. ASSUME IpInv, [Next]_vars
      PROVE  [\A r \in Runs :
                (Replaces(r) /\ Undisturbed(r) /\ Op(r).address # NoAddress) =>
                  Available(Op(r), Look(Op(r), ctl))]_vars
  BY <1>1, ReplacesIsLand DEF Standing
<1>2. QED
  BY <1>1, IpInvariant, PTL DEF Spec, ReservesOnlyFreeAddresses

-----------------------------------------------------------------------------
(* What APPLIED says of a run that was alone: what it verified is the client *)
(* as the refetch read it, or as its request leaves it.                     *)

Was(r) == Target(mem[r].fresh)
Asked(r) == Rewritten(Op(r), Was(r))
Here(r) == ctl.users[Op(r).client]

\* The reservation is the one asked for, in either spelling.
Meets(op, record) ==
    /\ Enabled(record) = (op.address # NoAddress)
    /\ Address(record) = op.address

\* Nobody has disturbed the run since it began to refetch.
Alone(r) ==
    /\ pc[r] \in Ready \cup Sent =>
         /\ mem[r].fresh # Unread
         /\ Alike(Here(r), IF wire[r] = "applied" THEN Asked(r) ELSE Was(r))
    /\ InFlight(r) /\ pc[r] \in Sent => body[r] = Asked(r)
    /\ pc[r] = "verifying" /\ mem[r].got = 1 =>
         LET item == mem[r].found["rest/user/id"]
         IN  \/ Alike(item, Was(r))
             \/ Alike(item, Asked(r)) /\ wire[r] = "applied"
    /\ pc[r] = "completing" /\ mem[r].verified /\ Switches(r) =>
         /\ Meets(Op(r), Asked(r))
         /\ wire[r] # "applied" => Meets(Op(r), Was(r))

Outcome(r) ==
    /\ pc[r] \in Ready \cup Sent => Was(r) \in Records
    /\ "freshness" \notin touched[r] => Alone(r)

LEMMA InitOutcome == Init => \A r \in Runs : Outcome(r)
  BY DEF Init, Outcome, Alone, InFlight, Ready, Approved, Recorded, Sent

LEMMA OutcomeKept ==
  ASSUME NEW s \in Runs, Outcome(s), Same(s), UNCHANGED controller
  PROVE  Outcome(s)'
  BY DEF Same, controller, Outcome, Alone, InFlight, Was, Asked, Here, Switches, Op

\* Where a run has not come to its request, or has ended, there is no outcome.
LEMMA NoOutcome ==
  ASSUME NEW r \in Runs, pc'[r] \notin Ready \cup Sent
  PROVE  Outcome(r)'
  BY DEF Outcome, Alone, InFlight, Ready, Sent

LEMMA OutcomeStep ==
  ASSUME IpFamily, IInv, NEW r \in Runs, Memory(r), IpCourse(r), Outcome(r),
         Step(r) \/ Receive(r) \/ Crash(r)
  PROVE  Outcome(r)'
<1>0. /\ mem[r].got \in Nat /\ DOMAIN mem = Runs /\ r \in DOMAIN pc
      /\ r \in DOMAIN wire /\ DOMAIN body = Runs
      /\ DOMAIN mem[r] = DOMAIN Blank /\ TypeOK /\ Op(r) \in Operations
      /\ Phase(r) /\ ctl \in States
      /\ VerifyReads(Op(r)) = <<"rest/user/id">>
  BY DEF IInv, TypeOK, Op, IpFamily, IpVerifyReads
<1>x. UNCHANGED controller
  BY <1>0, OthersKeep
<1>1. ASSUME NEW where \in Ended, NEW words, Exit(r, where, words)
      PROVE  Outcome(r)'
  BY <1>0, <1>1, ExitForgets, NoOutcome DEF Ended, Ready, Approved, Recorded, Sent
<1>2. CASE Begin(r) \/ TakeLock(r) \/ ReadNext(r) \/ ReadFails(r) \/ Validate(r)
           \/ SaveSnapshot(r) \/ Plan(r) \/ Authorize(r) \/ RecheckIdentity(r)
           \/ RefetchNext(r) \/ RefetchFails(r) \/ Complete(r) \/ Crash(r)
  <2>1. pc'[r] \notin Ready \cup Sent
    <3>1. ASSUME NEW where \in Ended, NEW words, Exit(r, where, words)
          PROVE  pc'[r] \in Ended
      BY <1>0, <3>1, ExitForgets
    <3>2. ASSUME NEW where, Goto(r, where)
          PROVE  pc'[r] = where
      BY <1>0, <3>2 DEF Goto
    <3>3. pc'[r] \in {"locking", "reading", "validating", "saving", "recording",
                     "authorizing", "identifying", "refetching", "comparing"} \cup Ended
      BY <1>2, <3>1, <3>2
      DEF Begin, TakeLock, ReadNext, ReadFails, Validate, SaveSnapshot, Plan, Authorize,
          RecheckIdentity, RefetchNext, RefetchFails, Complete, Crash, Proceed, Refuse,
          Ended
    <3>4. QED
      BY <3>3 DEF Ended, Ready, Sent
  <2>2. QED
    BY <2>1, NoOutcome
<1>6. CASE CheckFresh(r)
  <2>1. CASE /\ Unchanged(r) /\ RuntimeSafe(Op(r), mem[r].seen, mem[r].fresh)
             /\ Proceed(r, "attempting")
    <3>1. /\ pc[r] = "comparing" /\ wire[r] = "idle"
          /\ Was(r) \in Records \cup {Absent}
      BY <1>0, <1>6
      DEF CheckFresh, Phase, Recorded, IpCourse, Reads, Held, Was
    <3>2. Was(r) \in Records
      BY <2>1, <3>1 DEF IpFamily, IpRuntimeSafe, Was
    <3>3. /\ pc'[r] = "attempting" /\ UNCHANGED <<cmd, mem, wire>>
      BY <1>0, <3>1, <2>1 DEF Proceed, Goto, network
    <3>4. ASSUME "freshness" \notin touched[r]
          PROVE  mem[r].fresh # Unread /\ Alike(Here(r), Was(r))
      BY <3>1, <3>4 DEF IpCourse, Refetched, Agrees, Alike, Here, Was
    <3>5. "freshness" \notin touched[r] => Alone(r)'
      BY <1>x, <3>1, <3>3, <3>4
      DEF controller, Alone, Here, Was, Op, InFlight, Ready, Sent
    <3>6. QED
      BY <1>x, <3>2, <3>3, <3>5 DEF controller, Outcome, Was, Op
  <2>2. QED
    BY <1>1, <1>6, <2>1 DEF CheckFresh, Refuse, Ended
<1>7. CASE RecordAttempt(r)
  <2>1. /\ pc[r] = "attempting" /\ pc'[r] = "sending" /\ wire[r] = "idle"
        /\ UNCHANGED <<cmd, mem, wire>>
    BY <1>0, <1>7 DEF RecordAttempt, Goto, network, Phase, Recorded
  <2>2. QED
    BY <1>x, <2>1
    DEF controller, Outcome, Alone, InFlight, Was, Asked, Here, Op, Ready, Sent
<1>8. CASE Send(r)
  <2>1. /\ pc[r] = "sending" /\ pc'[r] = "waiting" /\ wire'[r] = "sent"
        /\ wire[r] = "idle" /\ UNCHANGED <<cmd, mem>> /\ body'[r] = Asked(r)
    BY <1>0, <1>8 DEF Send, Goto, disk, Phase, IpFamily, IpRequest, Asked, Was
  <2>2. QED
    BY <1>x, <2>1
    DEF controller, Outcome, Alone, InFlight, Was, Asked, Here, Op, Ready, Sent
<1>9. CASE Receive(r)
  <2>1. /\ pc[r] = "waiting" /\ pc'[r] = "verifying" /\ mem[r].got = 0
        /\ mem'[r].seen = mem[r].seen /\ mem'[r].fresh = mem[r].fresh
        /\ mem'[r].got = mem[r].got /\ UNCHANGED <<cmd, wire, body>>
    BY <1>0, <1>9, SMTT(30) DEF Receive, Goto, Blank, network, Memory, Committed
  <2>2. QED
    BY <1>x, <2>1
    DEF controller, Outcome, Alone, InFlight, Was, Asked, Here, Op, Ready, Sent
<1>10. CASE VerifyNext(r)
  <2> DEFINE now == View(Op(r), "rest/user/id", ctl, mem[r].found)
  <2>1. /\ pc[r] = "verifying" /\ mem[r].got = 0
        /\ mem[r].found = Unread /\ DOMAIN mem[r].found = Datasets
    BY <1>0, <1>10 DEF VerifyNext, Memory
  <2>2. /\ pc'[r] = "verifying" /\ UNCHANGED <<cmd, wire, body>>
        /\ mem'[r].seen = mem[r].seen /\ mem'[r].fresh = mem[r].fresh
        /\ mem'[r].found = [mem[r].found EXCEPT !["rest/user/id"] = now]
    BY <1>0, <1>10, <2>1, SMTT(30) DEF VerifyNext, Blank, network
  <2>3. "rest/user/id" \in Datasets /\ Unread["rest/user"] = NotRead
    BY DEF IpFamily, IpDatasets, Unread
  <2>4. mem'[r].found["rest/user/id"] = now
    BY <2>1, <2>2, <2>3
  <2>5. Here(r) # Absent => now = Here(r)
    BY <2>1, <2>3 DEF IpFamily, IpView, Here
  <2>6. ASSUME "freshness" \notin touched[r]
        PROVE  \/ Alike(now, Was(r))
               \/ Alike(now, Asked(r)) /\ wire[r] = "applied"
    <3>1. /\ Alike(Here(r), IF wire[r] = "applied" THEN Asked(r) ELSE Was(r))
          /\ Was(r) \in Records
      BY <2>1, <2>6 DEF Outcome, Alone, Sent
    <3>2. Was(r) # Absent /\ Asked(r) # Absent
      BY <1>0, <3>1, AbsentIsNoRecord, RewrittenIsRecord DEF Asked
    <3>3. Here(r) # Absent
      BY <3>1, <3>2 DEF Alike
    <3>4. QED
      BY <2>5, <3>1, <3>3
  <2> HIDE DEF now
  <2>7. "freshness" \notin touched[r] => Alone(r)'
    BY <1>x, <2>1, <2>2, <2>4, <2>6
    DEF controller, Outcome, Alone, InFlight, Was, Asked, Here, Op, Ready, Sent
  <2>8. QED
    BY <1>x, <2>1, <2>2, <2>7 DEF controller, Outcome, Was, Op, Ready, Sent
<1>11. CASE Judge(r) \/ VerifyFails(r)
  <2>1. PICK verified \in BOOLEAN :
          /\ pc[r] = "verifying" /\ pc'[r] \in {"verifying", "completing"}
          /\ mem'[r].seen = mem[r].seen /\ mem'[r].fresh = mem[r].fresh
          /\ mem'[r].verified = verified /\ mem'[r].got = 0
          /\ verified => /\ mem[r].got = 1
                         /\ IpVerified(Op(r), mem[r].seen, mem[r].fresh, mem[r].found,
                                       AnsweredId(r))
    <3>1. CASE VerifyFails(r)
      <4>1. /\ pc[r] = "verifying" /\ pc'[r] \in {"verifying", "completing"}
            /\ mem'[r].seen = mem[r].seen /\ mem'[r].fresh = mem[r].fresh
            /\ mem'[r].verified = FALSE /\ mem'[r].got = 0
        BY <1>0, <3>1, SMTT(30) DEF VerifyFails, Reconcile, Goto, Blank
      <4>2. QED
        BY <4>1
    <3>2. CASE Judge(r)
      <4> DEFINE v == Verified(Op(r), mem[r].seen, mem[r].fresh, mem[r].found, AnsweredId(r))
      <4>1. v = IpVerified(Op(r), mem[r].seen, mem[r].fresh, mem[r].found, AnsweredId(r))
            /\ v \in BOOLEAN
        BY DEF IpFamily, IpVerified
      <4>2. mem[r].got = 1 /\ pc[r] = "verifying"
        BY <1>0, <3>2 DEF Judge
      <4>3. /\ pc'[r] \in {"verifying", "completing"}
            /\ mem'[r].seen = mem[r].seen /\ mem'[r].fresh = mem[r].fresh
            /\ mem'[r].verified = v /\ mem'[r].got = 0
        BY <1>0, <3>2, SMTT(30) DEF Judge, Reconcile, Goto, Blank
      <4> HIDE DEF v
      <4>4. QED
        BY <4>1, <4>2, <4>3
    <3>3. QED
      BY <1>11, <3>1, <3>2
  <2>2. UNCHANGED <<cmd, wire, body>>
    BY <1>11 DEF Judge, VerifyFails, Reconcile, network
  <2>3. ASSUME "freshness" \notin touched[r], verified, Switches(r)
        PROVE  /\ Meets(Op(r), Asked(r))
               /\ wire[r] # "applied" => Meets(Op(r), Was(r))
    <3> DEFINE item == mem[r].found["rest/user/id"]
    <3>1. /\ Was(r) \in Records
          /\ Alike(item, Was(r)) \/ (Alike(item, Asked(r)) /\ wire[r] = "applied")
          /\ Enabled(item) = (Op(r).address # NoAddress)
          /\ Op(r).address # NoAddress => Address(item) = Op(r).address
      <4>1. /\ Was(r) \in Records
            /\ Alike(item, Was(r)) \/ (Alike(item, Asked(r)) /\ wire[r] = "applied")
        BY <2>1, <2>3 DEF Outcome, Alone, Sent
      <4>2. /\ Enabled(item) = (Op(r).address # NoAddress)
            /\ Op(r).address # NoAddress => Address(item) = Op(r).address
        BY <2>1, <2>3 DEF IpVerified
      <4>3. QED
        BY <4>1, <4>2
    <3>a. /\ Asked(r).use_fixedip = (Op(r).address # NoAddress)
          /\ Asked(r).fixed_ip = Op(r).address
          /\ Op(r).address = NoAddress => Asked(r).fixedIpAddress = NoAddress
      BY <1>0, <3>1, RewrittenIsRecord DEF Asked
    <3>2. Was(r) # Absent /\ Asked(r) # Absent
      BY <1>0, <3>1, AbsentIsNoRecord, RewrittenIsRecord DEF Asked
    <3>3. ASSUME NEW record, Alike(item, record), record # Absent
          PROVE  Enabled(item) = Enabled(record) /\ Address(item) = Address(record)
      BY <3>3 DEF Alike, Enabled, Address
    <3>4. CASE Op(r).address # NoAddress
      <4>1. Meets(Op(r), Asked(r))
        BY <3>a, <3>4 DEF Meets, Enabled, Address
      <4>2. wire[r] # "applied" => Meets(Op(r), Was(r))
        BY <3>1, <3>2, <3>3, <3>4 DEF Meets
      <4>3. QED
        BY <4>1, <4>2
    <3>5. CASE Op(r).address = NoAddress
      <4>1. Enabled(Was(r)) /\ ~Enabled(item)
        BY <2>3, <3>1, <3>5 DEF Switches, Was
      <4>2. Alike(item, Asked(r)) /\ wire[r] = "applied"
        BY <3>1, <3>2, <3>3, <4>1
      <4>3. ~Enabled(Asked(r))
        BY <3>2, <3>3, <4>1, <4>2
      <4>4. Address(Asked(r)) = NoAddress
        BY <3>a, <3>5 DEF Address
      <4>5. QED
        BY <3>5, <4>2, <4>3, <4>4 DEF Meets, Enabled
    <3>6. QED
      BY <3>4, <3>5
  <2>4. "freshness" \notin touched[r] => Alone(r)'
    BY <1>x, <2>1, <2>2, <2>3
    DEF controller, Outcome, Alone, InFlight, Was, Asked, Here, Switches, Op, Ready, Sent
  <2>5. QED
    BY <1>x, <2>1, <2>2, <2>4 DEF controller, Outcome, Was, Op, Ready, Sent
<1>12. QED
  BY <1>2, <1>6, <1>7, <1>8, <1>9, <1>10, <1>11 DEF Step

LEMMA OutcomeDisturbed ==
  ASSUME NEW s \in Runs, Phase(s), Outcome(s), Same(s),
         NEW others \in SUBSET Runs, s \in others, Disturb(others)
  PROVE  Outcome(s)'
<1>1. touched'[s] = touched[s]
         \cup (IF ReadBegun(s) THEN {"read_state"} ELSE {})
         \cup (IF RefetchBegun(s) THEN {"freshness"} ELSE {})
  BY DEF Disturb
<1>2. ASSUME "freshness" \notin touched'[s]
      PROVE  Alone(s)'
  <2>1. /\ "freshness" \notin touched[s] /\ ~RefetchBegun(s) /\ Alone(s)
    BY <1>1, <1>2 DEF Outcome
  <2>2. pc[s] \notin Ready \cup Sent
    BY <2>1 DEF Alone, RefetchBegun, Ready, Sent, Working
  <2>3. QED
    BY <2>2 DEF Same, Alone, Sent
<1>3. QED
  BY <1>2 DEF Same, Outcome, Was, Asked, Op

LEMMA OutcomeTick ==
  ASSUME IpFamily, TypeOK, Tick, NEW s \in Runs, Outcome(s)
  PROVE  Outcome(s)'
<1>1. /\ UNCHANGED <<process, disk, network, touched>> /\ Op(s).client \in Clients
  BY DEF Tick, TypeOK, Op, IpFamily
<1>2. Alike(ctl'.users[Op(s).client], ctl.users[Op(s).client])
  BY <1>1, TickKeeps
<1>3. ASSUME NEW b, Alike(Here(s), b)
      PROVE  Alike(ctl'.users[Op(s).client], b)
  BY <1>2, <1>3 DEF Here, Alike
<1>4. Alone(s) => Alone(s)'
  BY <1>1, <1>3
  DEF Alone, process, network, InFlight, Was, Asked, Here, Switches, Op
<1>5. QED
  BY <1>1, <1>4 DEF process, Outcome, Was, Asked, Op

LEMMA OutcomeOutside ==
  ASSUME IpFamily, IpInv, \A s \in Runs : Outcome(s),
         \/ \E r \in Runs : Accept(r) \/ Reject(r) \/ Land(r)
         \/ Edit \/ Tick
  PROVE  \A s \in Runs : Outcome(s)'
<1>0. TypeOK /\ \A s \in Runs : Phase(s) /\ IpCourse(s)
  BY DEF IpInv, IInv
<1>1. UNCHANGED <<process, disk>>
  BY DEF Accept, Reject, Land, Edit, Tick
<1>3. ASSUME NEW r \in Runs, Accept(r) \/ Reject(r), NEW s \in Runs
      PROVE  Outcome(s)'
  <2>1. /\ wire'[s] \in {"sent", "accepted"} => wire[s] \in {"sent", "accepted"}
        /\ wire'[s] = "applied" <=> wire[s] = "applied"
        /\ UNCHANGED <<process, body, controller>>
    BY <1>0, <1>3, SMTT(30) DEF Accept, Reject, TypeOK
  <2>2. QED
    BY <2>1
    DEF process, controller, Outcome, Alone, InFlight, Was, Asked, Here, Switches, Op
<1>4. ASSUME NEW r \in Runs, Land(r), NEW s \in Runs
      PROVE  Outcome(s)'
  <2>1. CASE s = r
    <3>1. /\ wire[r] = "accepted" /\ wire'[r] = "applied" /\ touched'[r] = touched[r]
          /\ UNCHANGED body
      BY <1>0, <1>4, SMTT(30) DEF Land, Disturb, TypeOK
    <3>2. ctl' = [ctl EXCEPT !.users[Op(r).client] = body[r]]
      BY <1>4 DEF Land, IpFamily, IpLanding
    <3>3. ctl \in IpStates /\ Op(r).client \in Clients
      BY <1>0 DEF TypeOK, IpFamily, Op
    <3>4. ctl'.users[Op(r).client] = body[r]
      BY <3>2, <3>3 DEF IpStates
    <3>5. pc[r] \notin Ready
      BY <1>0, <3>1 DEF Phase, Recorded, Ready
    <3>6. ASSUME "freshness" \notin touched[r]
          PROVE  Alone(r)'
      <4>1. pc[r] \in Sent => mem[r].fresh # Unread /\ body[r] = Asked(r)
        BY <3>1, <3>6 DEF Outcome, Alone, InFlight
      <4>2. Alike(body[r], body[r])
        BY DEF Alike
      <4>3. Alone(r)
        BY <3>6 DEF Outcome
      <4>4. QED
        BY <1>1, <3>1, <3>4, <3>5, <4>1, <4>2, <4>3
        DEF process, Alone, InFlight, Was, Asked, Here, Switches, Op
    <3>7. QED
      BY <1>1, <2>1, <3>1, <3>6 DEF process, Outcome, Was, Asked, Op
  <2>2. CASE s # r
    <3>1. Same(s)
      BY <1>0, <1>1, <1>4, <2>2, SMTT(30) DEF Same, Land, TypeOK, process, disk
    <3>2. QED
      BY <1>0, <1>4, <2>2, <3>1, OutcomeDisturbed DEF Land
  <2>3. QED
    BY <2>1, <2>2
<1>5. ASSUME Edit, NEW s \in Runs
      PROVE  Outcome(s)'
  <2>1. Same(s)
    BY <1>1, <1>5 DEF Same, Edit, process, disk, network
  <2>2. CASE Disturb(Runs)
    BY <1>0, <2>1, <2>2, OutcomeDisturbed
  <2>3. CASE UNCHANGED <<ctl, touched>>
    BY <2>1, <2>3 DEF Same, Outcome, Alone, InFlight, Was, Asked, Here, Switches, Op
  <2>4. QED
    BY <1>5, <2>2, <2>3 DEF Edit
<1>6. CASE Tick
  BY <1>0, <1>6, OutcomeTick
<1>7. QED
  BY <1>3, <1>4, <1>5, <1>6

OInv == IpInv /\ \A r \in Runs : Outcome(r)

LEMMA OutcomeInvariant ==
  ASSUME IpFamily
  PROVE  Spec => []OInv
<1>1. Init => OInv
  BY InitInv, InitMemory, InitIpCourse, InitOutcome DEF IpInv, OInv
<1>2. OInv /\ [Next]_vars => OInv'
  <2>1. ASSUME OInv, [Next]_vars
        PROVE  OInv'
    <3>1. IpInv'
      BY <2>1, NextIpCourse DEF OInv
    <3>2. ASSUME NEW r \in Runs, Step(r) \/ Receive(r) \/ Crash(r), NEW s \in Runs
          PROVE  Outcome(s)'
      <4>1. CASE s = r
        BY <2>1, <3>2, <4>1, OutcomeStep DEF OInv, IpInv
      <4>2. CASE s # r
        BY <2>1, <3>2, <4>2, OthersKeep, OutcomeKept DEF OInv, IpInv, IInv
      <4>3. QED
        BY <4>1, <4>2
    <3>3. ASSUME UNCHANGED vars, NEW s \in Runs
          PROVE  Outcome(s)'
      <4>1. Same(s) /\ UNCHANGED controller
        BY <3>3 DEF Same, vars, process, disk, network, controller
      <4>2. QED
        BY <2>1, <4>1, OutcomeKept DEF OInv
    <3>4. QED
      BY <2>1, <3>1, <3>2, <3>3, OutcomeOutside DEF Next, Environment, OInv
  <2>2. QED
    BY <2>1
<1>3. QED
  BY <1>1, <1>2, PTL DEF Spec

\* APPLIED, said by a run that was alone and had something to switch, is true.
THEOREM TrueReservations ==
  ASSUME IpFamily
  PROVE  Spec => AppliedMeansReserved
<1>1. ASSUME OInv, [Next]_vars
      PROVE  [\A r \in Runs : (AppliedAlone(r) /\ Switches(r)) => Reserved(r)]_vars
  <2>1. ASSUME Next, NEW r \in Runs, AppliedAlone(r), Switches(r)
        PROVE  Reserved(r)
    <3>1. pc[r] = "completing" /\ mem[r].verified
      BY <1>1, <2>1, AppliedIsVerified DEF AppliedAlone, OInv, IpInv
    <3>2. Alone(r) /\ Was(r) \in Records /\ Op(r) \in Operations
      BY <1>1, <2>1, <3>1
      DEF OInv, Outcome, AppliedAlone, Undisturbed, Sent, IpInv, IInv, TypeOK, Op
    <3>3. PICK record : /\ record \in {Asked(r), Was(r)}
                        /\ Meets(Op(r), record) /\ Alike(Here(r), record)
      BY <2>1, <3>1, <3>2 DEF Alone, Sent
    <3>4. record # Absent
      BY <3>2, <3>3, AbsentIsNoRecord, RewrittenIsRecord DEF Asked
    <3>5. Meets(Op(r), Here(r))
      BY <3>3, <3>4 DEF Alike, Meets, Enabled, Address
    <3>6. QED
      BY <3>5 DEF Meets, Reserved, Here, Before
  <2>2. QED
    BY <1>1, <2>1
<1>2. QED
  BY <1>1, OutcomeInvariant, PTL DEF Spec, AppliedMeansReserved
=============================================================================
