--------------------------- MODULE GuardedFixedIp ---------------------------
(***************************************************************************)
(* The guarded engine with the callbacks of the fixed-IP operations (its   *)
(* constant operators are given those of FixedIp): what a replacement PUT  *)
(* of a whole client object owes the client, its settings and the clients  *)
(* around it.                                                              *)
(***************************************************************************)
EXTENDS GuardedMutator, FixedIp

\* The controller replaces the object, as a run's PUT asks.
Replaces(r) == wire[r] = "accepted" /\ wire'[r] = "applied"
Undisturbed(r) == "freshness" \notin touched[r]

Before(r) == ctl.users[Op(r).client]
After(r) == ctl'.users[Op(r).client]

\* A PUT changes nothing but the reservation of its client, unless somebody
\* edited the configuration after the refetch began: whatever was edited
\* before is in the body (precondition, write_source).
OverwritesNothingItCouldSee ==
    [][\A r \in Runs : (Replaces(r) /\ Undisturbed(r)) =>
         /\ After(r).settings = Before(r).settings
         /\ After(r).network = Before(r).network]_vars

\* An address is given to a client only if, when the PUT lands on a
\* configuration nobody changed since the refetch began, it suits the
\* client's network and no other client holds or leases it.
ReservesOnlyFreeAddresses ==
    [][\A r \in Runs :
         (Replaces(r) /\ Undisturbed(r) /\ Op(r).address # NoAddress) =>
           Available(Op(r), Look(Op(r), ctl))]_vars

\* A PUT of a whole object never takes back what somebody edited in it after
\* the refetch (mutation-safety.md: "This prevents a replacement PUT from
\* overwriting an unrelated concurrent edit").  The API has no conditional
\* write: EditOverwritten.cfg refutes this.
NeverOverwritesAnEdit ==
    [][\A r \in Runs : Replaces(r) =>
         /\ After(r).settings = Before(r).settings
         /\ After(r).network = Before(r).network]_vars

\* APPLIED is said by a run that was alone.
AppliedAlone(r) ==
    /\ journal[r] = "WRITE_ATTEMPTED" /\ journal'[r] = "APPLIED"
    /\ Undisturbed(r)

\* The run has something to switch on, or off.
Switches(r) == Op(r).address # NoAddress \/ Enabled(Target(mem[r].fresh))

\* The client has the reservation asked for, or none, in either spelling.
Reserved(r) ==
    /\ Enabled(Before(r)) = (Op(r).address # NoAddress)
    /\ Address(Before(r)) = Op(r).address

\* APPLIED, said by a run that was alone and had a reservation to switch on or
\* off, is true: the client has the reservation asked for, or none.
AppliedMeansReserved ==
    [][\A r \in Runs : (AppliedAlone(r) /\ Switches(r)) => Reserved(r)]_vars

\* APPLIED, said of a removal by a run that was alone, is true: the client has
\* no address left (mutation-safety.md: an uncertain result is not APPLIED).
\* verify (1274) does not look at the address: RemovalApplied.cfg refutes this.
AppliedMeansReleased ==
    [][\A r \in Runs : (AppliedAlone(r) /\ Op(r).address = NoAddress) =>
           Address(Before(r)) = NoAddress]_vars
=============================================================================
