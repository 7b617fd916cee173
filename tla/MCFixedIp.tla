----------------------------- MODULE MCFixedIp -----------------------------
EXTENDS GuardedFixedIp, TLC

CONSTANTS r1, r2, r3, k1, k2

SetFirst == [client |-> k1, address |-> "a1"]
RemoveFirst == [client |-> k1, address |-> NoAddress]
SetSecond == [client |-> k2, address |-> "a1"]

\* The first client has an address, the second has none.
Client(k, spelled) ==
    [network |-> "lan",
     use_fixedip |-> k = k1 /\ spelled = "legacy",
     fixed_ip |-> IF k = k1 /\ spelled = "legacy" THEN "a2" ELSE NoAddress,
     fixedIpEnabled |-> k = k1 /\ spelled = "modern",
     fixedIpAddress |-> IF k = k1 /\ spelled = "modern" THEN "a2" ELSE NoAddress,
     settings |-> "kept", stamp |-> 0]

\* A controller that answers 404 and one that answers an empty list.
IpInit ==
    {[users |-> [k \in Clients |->
                   Client(k, IF missing = "404" THEN "legacy" ELSE "modern")],
      leases |-> [k \in Clients |-> NoAddress],
      usable |-> [n \in Networks |-> IF n = "lan" THEN Addresses ELSE {}],
      gone |-> missing] : missing \in {"404", "empty list"}}

IpOps == {SetFirst, SetSecond, RemoveFirst}
RunSymmetry == Permutations(Runs)

=============================================================================
