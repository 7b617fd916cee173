--------------------------- MODULE MCPortForward ---------------------------
EXTENDS GuardedPortForward, TLC

CONSTANTS r1, r2, f1, f2, hand

Remove == [kind |-> "delete", id |-> f1, expected |-> "ssh"]
Restore == [kind |-> "restore", id |-> f1, expected |-> Anything]

Rule(sense) == [sense |-> sense, stamp |-> 0]
StartingWith(senses) ==
    [forwards |-> [i \in PfIds |-> IF senses[i] = Absent THEN Absent
                                   ELSE Rule(senses[i])],
     policies |-> senses, status |-> senses, file |-> "ssh"]

Both == [i \in PfIds |-> CASE i = f1 -> "ssh" [] i = f2 -> "web" [] OTHER -> Absent]
Neither == [i \in PfIds |-> Absent]
PfInit == {StartingWith(Both), StartingWith(Neither)}

Substitutes == {"web", NotRead}
Commands == {Remove, Restore}
RunSymmetry == Permutations(Runs)
=============================================================================
