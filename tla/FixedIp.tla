------------------------------ MODULE FixedIp ------------------------------
(***************************************************************************)
(* The callbacks of client fixed-ip set and remove                         *)
(* (GuardedMutator.fixed_ip_change) and the controller's side of them.     *)
(*                                                                         *)
(* A configuration has the configured clients (rest/user), each with its   *)
(* network, its reservation, the settings the operation must not touch and *)
(* a volatile field; the leases of the active clients (stat/sta); for each *)
(* network the addresses a client of it may be given (rest/networkconf: in *)
(* the subnet, and not its network, broadcast or gateway address); and how *)
(* this controller answers a GET of an item that is gone.                  *)
(*                                                                         *)
(* A reservation has two spellings, use_fixedip with fixed_ip and          *)
(* fixedIpEnabled with fixedIpAddress.  The code reads both and writes the *)
(* first.                                                                  *)
(*                                                                         *)
(* An operation is [client, address]; NoAddress removes the reservation.   *)
(***************************************************************************)
EXTENDS Naturals, FiniteSets, FiniteSetsExt

CONSTANTS
    Clients,     \* configured clients, their id and MAC at once
    Networks,
    Addresses,
    Contested,   \* bound: the addresses others may reserve or lease
    NoAddress,   \* no reservation, no lease
    Settings,    \* every other field of a client object
    MaxStamp,    \* bound: moves of volatile fields
    Absent,      \* no such client
    NotRead      \* what a GET that fails gives

Objects(stamps) ==
    [network : Networks,
     use_fixedip : BOOLEAN, fixed_ip : Addresses \cup {NoAddress},
     fixedIpEnabled : BOOLEAN, fixedIpAddress : Addresses \cup {NoAddress},
     settings : Settings, stamp : stamps]
Records == Objects(0 .. MaxStamp)

\* A client that is not there has no object.
ASSUME ClientAssumption == Absent \notin Objects(Nat)
ASSUME StampAssumption == MaxStamp \in Nat

IpStates ==
    [users : [Clients -> Records \cup {Absent}],
     leases : [Clients -> Addresses \cup {NoAddress}],
     usable : [Networks -> SUBSET Addresses],
     gone : {"404", "empty list"}]

IpDatasets == {"rest/user", "rest/user/id", "stat/sta", "rest/networkconf"}
IpReadState(op) == <<"rest/user", "rest/user/id", "stat/sta", "rest/networkconf">>
IpVerifyReads(op) == <<"rest/user/id">>

\* A reservation in either spelling.
Enabled(record) == record.use_fixedip \/ record.fixedIpEnabled
Address(record) ==
    IF record.fixed_ip # NoAddress THEN record.fixed_ip ELSE record.fixedIpAddress

\* An item that is gone is an error, or an empty list: then read_state falls
\* back to the record of the collection, which verify has not read.
Gone(op, c, sofar) ==
    IF c.gone = "404" \/ sofar["rest/user"] = NotRead THEN NotRead
    ELSE sofar["rest/user"][op.client]

\* The item is asked for only if the collection, read before, has the client.
IpView(op, dataset, c, sofar) ==
    CASE dataset = "rest/user" -> c.users
      [] dataset = "rest/user/id" ->
           IF sofar["rest/user"] # NotRead /\ sofar["rest/user"][op.client] = Absent
           THEN Absent
           ELSE IF c.users[op.client] = Absent THEN Gone(op, c, sofar)
           ELSE c.users[op.client]
      [] dataset = "stat/sta" -> c.leases
      [] dataset = "rest/networkconf" -> c.usable

Target(seen) == seen["rest/user/id"]

\* validate_fixed_ip: the address suits the network, no other configured
\* client holds it, enabled or not, and no other client has a lease on it.
Available(op, seen) ==
    LET users == seen["rest/user"]
    IN  /\ op.address \in seen["rest/networkconf"][Target(seen).network]
        /\ \A other \in Clients \ {op.client} :
             /\ users[other] # Absent => Address(users[other]) # op.address
             /\ seen["stat/sta"][other] # op.address

IpValidated(op, seen) ==
    /\ Target(seen) # Absent
    /\ op.address # NoAddress => Available(op, seen)

\* Mutation of Rewritten: a new object, not a copy of the one there is.
RewrittenAnew(op, record) ==
    [record EXCEPT !.use_fixedip = (op.address # NoAddress),
                   !.fixed_ip = op.address,
                   !.settings = CHOOSE s \in Settings : s # record.settings]

\* The deep copy with use_fixedip and fixed_ip replaced; a removal drops the
\* address in the other spelling too, but leaves fixedIpEnabled as it is.
Rewritten(op, record) ==
    [record EXCEPT !.use_fixedip = (op.address # NoAddress),
                   !.fixed_ip = op.address,
                   !.fixedIpAddress = IF op.address = NoAddress THEN NoAddress ELSE @]

IpHasDiff(op, seen) == Rewritten(op, Target(seen)) # Target(seen)

\* _fixed_ip_state: the allowlist of fields an approval covers.
FixedIpState(record) ==
    [network |-> record.network, use_fixedip |-> Enabled(record),
     fixed_ip |-> Address(record)]

IpApprovalMaterial(op, seen) ==
    [operation |-> IF op.address = NoAddress THEN "remove" ELSE "set",
     target |-> op.client,
     before |-> FixedIpState(Target(seen)),
     after |-> FixedIpState(Rewritten(op, Target(seen)))]

\* Mutation of Stable: volatile fields are kept.
StableComplete(record) == record

\* _strip_keys(..., VOLATILE_KEYS)
Stable(record) == [record EXCEPT !.stamp = 0]

IpSnapshotValue(op, seen) == Target(seen)

\* Mutation of IpPrecondition: the reservation itself is not compared.
IpPreconditionSettings(op, seen) ==
    IF Target(seen) = Absent THEN Absent
    ELSE <<Target(seen).network, Target(seen).settings>>

IpPrecondition(op, seen) ==
    IF Target(seen) = Absent THEN Absent ELSE Stable(Target(seen))

\* Mutation of IpRuntimeSafe: conflicts are not looked for again.
IpRuntimeSafeNetwork(op, seen, fresh) ==
    Target(fresh).network = Target(seen).network

\* validate_runtime, on what the refetch read.
IpRuntimeSafe(op, seen, fresh) ==
    /\ Target(fresh) # Absent
    /\ Target(fresh).network = Target(seen).network
    /\ op.address # NoAddress => Available(op, fresh)

\* The PUT body is made of what the refetch read.
IpRequest(op, seen, fresh) == Rewritten(op, Target(fresh))

\* The controller replaces the object.
IpLanding(r, op, object, c) ==
    IF c.users[op.client] = Absent THEN {}
    ELSE {[c EXCEPT !.users[op.client] = object]}

IpAttempts(op) == 1
IpSeveralMatches(op, seen, found, answered) == FALSE

\* Mutation of IpVerified: only the preserved fields are compared.
IpVerifiedPreserved(op, seen, fresh, found, answered) ==
    LET updated == found["rest/user/id"]
    IN  updated # NotRead /\ updated.settings = Target(fresh).settings

\* verify: the reservation, in either spelling, is the one asked for, and every
\* other field of the object, the volatile one included, is what the refetch
\* had read.
IpVerified(op, seen, fresh, found, answered) ==
    LET updated == found["rest/user/id"]
    IN  /\ updated # NotRead
        /\ Enabled(updated) = (op.address # NoAddress)
        /\ op.address # NoAddress => Address(updated) = op.address
        /\ updated.settings = Target(fresh).settings
        /\ updated.stamp = Target(fresh).stamp
        /\ updated.network = Target(seen).network

\* The configured clients there are.
Known(c) == {k \in Clients : c.users[k] # Absent}

\* Administrators change, move, reserve for and forget clients, switch a
\* reservation off, which keeps its address, and renumber networks; clients
\* get leases.
IpEdits(c) ==
    {[c EXCEPT !.users[k].settings = s] : k \in Known(c), s \in Settings}
      \cup {[c EXCEPT !.users[k].network = n] : k \in Known(c), n \in Networks}
      \cup {[c EXCEPT !.users[k].use_fixedip = TRUE, !.users[k].fixed_ip = a] :
              k \in Known(c), a \in Contested}
      \cup {[c EXCEPT !.users[k].use_fixedip = FALSE,
                      !.users[k].fixedIpEnabled = FALSE] : k \in Known(c)}
      \cup {[c EXCEPT !.users[k] = Absent] : k \in Known(c)}
      \cup {[c EXCEPT !.usable[n] = {}] : n \in Networks}
      \cup {[c EXCEPT !.leases[k] = a] : k \in Clients, a \in Contested}

\* Volatile fields move by themselves, MaxStamp times in all.
Observations(c) == MapThenSumSet(LAMBDA k : c.users[k].stamp, Known(c))
IpTicks(c) ==
    IF Observations(c) >= MaxStamp THEN {}
    ELSE {[c EXCEPT !.users[k].stamp = @ + 1] : k \in Known(c)}
=============================================================================
