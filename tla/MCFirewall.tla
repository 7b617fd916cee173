----------------------------- MODULE MCFirewall -----------------------------
EXTENDS GuardedFirewall, TLC

CONSTANTS r1, r2, r3, p1, sys, hand

\* "old" is the service of another host, "wanted" and "through" are about the
\* same one and differ in what else they let in; "through" is limited to a
\* network at its source.
FwTowards ==
    [m \in Meanings |-> IF m = "old" THEN "another host" ELSE "the host"]
FwPrefixes == {<<n, n>> : n \in Names}

Create ==
    [kind |-> "create", id |-> Absent, meaning |-> "wanted", name |-> "plan",
     schedule |-> "always"]
CreateNightly == [Create EXCEPT !.schedule = "nightly"]
Update ==
    [kind |-> "update", id |-> p1, meaning |-> "wanted", name |-> "plan",
     schedule |-> AsIs]
Rename == [Update EXCEPT !.meaning = AsIs]
Delete ==
    [kind |-> "delete", id |-> p1, meaning |-> AsIs, name |-> AsIs, schedule |-> AsIs]
DeleteSystem == [Delete EXCEPT !.id = sys]
DeleteReturn == [Delete EXCEPT !.id = ReturnOf(hand)]
DeleteEarlier == [Delete EXCEPT !.id = hand]

FirstPolicy ==
    [meaning |-> "old", name |-> "draft", schedule |-> "always", index |-> 1,
     origin |-> "USER_DEFINED", configurable |-> TRUE]
FwInit ==
    {Settled([policies |-> [i \in Ids |-> CASE i = p1 -> FirstPolicy
                                           [] i = sys -> BlockPolicy
                                           [] OTHER -> Absent],
              zones |-> "complete"])}

\* The same with an earlier policy that allows return traffic, made by hand,
\* whose metadata may call it not configurable.
Earlier(configurable) ==
    [FirstPolicy EXCEPT !.meaning = "through", !.index = LastIndex,
                        !.configurable = configurable]
FwInitReturning ==
    {Settled([c EXCEPT !.policies[ByHand] = Earlier(b)]) : c \in FwInit, b \in BOOLEAN}

CreateOnly == {Create}
CreateTwoWays == {Create, CreateNightly}
RenameOnly == {Rename}
ChangeOps == {Update, Delete, DeleteSystem, DeleteReturn, DeleteEarlier}
RunSymmetry == Permutations(Runs)
=============================================================================
