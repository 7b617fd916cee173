--------------------------- MODULE PaginatedRead ---------------------------
(***************************************************************************)
(* Reading an Integration v1 collection page by page while other people    *)
(* work on it.  Two loops do this: _collect_spec of the inventory, which   *)
(* believes the total of the first page and settles for what it has when a *)
(* later page fails, and _get_official_collection of the mutator, which    *)
(* looks at every page's total and gives up on any failure.                *)
(*                                                                         *)
(* A controller may serve shorter pages than it is asked for, and it may   *)
(* leave the limit or the total out of a page.  The loops then go on by    *)
(* the limit they asked for, or take the page for all there is.            *)
(***************************************************************************)
EXTENDS Naturals, Functions, SequencesExt

CONSTANTS
    Records,        \* what a collection may hold
    InitialTables,  \* the collections a read may find at its beginning
    Limit,          \* the records asked for; 200 in the code
    Servers,        \* the ways of a controller to serve pages
    MaxEdits        \* bound: what others do to the collection during the read

ASSUME TableAssumption ==
    InitialTables \subseteq {t \in Seq(Records) : IsInjective(t)}
ASSUME LimitAssumption == Limit \in Nat \ {0}
ASSUME ServerAssumption ==
    Servers \subseteq {s \in [served : 1 .. Limit, limit : 0 .. Limit, total : BOOLEAN] :
                          s.limit \in {0, s.served}}
ASSUME EditAssumption == MaxEdits \in Nat

VARIABLES
    table,   \* the collection, in the controller's order
    server,  \* records on a page, the limit (0: none) and whether a total is named
    reader,  \* "inventory" or "mutation"
    offset,  \* of the next page to ask for
    total,   \* what the reader takes for the size of the collection
    got,     \* the records it has so far
    status,  \* "reading"; then the collection's status, or "refused"
    kept,    \* history: records there at every moment since the first page
    edits    \* history: what others did since then, in order

vars == <<table, server, reader, offset, total, got, status, kept, edits>>

Statuses == {"available", "partial", "unavailable", "refused"}
EditKinds == {"append", "insert", "move", "remove"}

TypeOK ==
    /\ table \in Seq(Records) /\ IsInjective(table)
    /\ server \in Servers
    /\ reader \in {"inventory", "mutation"}
    /\ offset \in Nat /\ total \in Nat
    /\ got \in Seq(Records)
    /\ status \in Statuses \cup {"reading"}
    /\ kept \subseteq Records
    /\ edits \in Seq(EditKinds)

Init ==
    /\ table \in InitialTables
    /\ server \in Servers
    /\ reader \in {"inventory", "mutation"}
    /\ offset = 0 /\ total = 0 /\ got = <<>> /\ status = "reading"
    /\ kept = Range(table)
    /\ edits = <<>>

-----------------------------------------------------------------------------
(* One GET. *)

\* The controller's answer to ?offset=o&limit=Limit.
Page(o) ==
    SubSeq(table, o + 1, IF o + server.served < Len(table) THEN o + server.served
                         ELSE Len(table))

\* The size of the collection by the page just read: without a total, the
\* records of that page.
Reported == IF server.total THEN Len(table) ELSE Len(Page(offset))

\* Mutation of TotalTaken: the mutator, too, keeps the total of its first page.
TotalTakenOnce == IF offset > 0 THEN total ELSE Reported

\* The inventory keeps the total of its first page.
TotalTaken == IF reader = "inventory" /\ offset > 0 THEN total ELSE Reported

\* Mutation of Stride: pages overlap by one record.
StrideShort == IF server.served > 1 THEN server.served - 1 ELSE 1

\* From page to page: a limit that is missing, or zero, stands for the one
\* asked for.
Stride == IF server.limit = 0 THEN Limit ELSE server.limit

\* More pages after one of n records; the mutator also stops at an empty one.
More(n) == offset + n < TotalTaken /\ (reader = "mutation" => n # 0)

GetPage ==
    /\ status = "reading"
    /\ got' = got \o Page(offset)
    /\ total' = TotalTaken
    /\ IF More(Len(Page(offset)))
       THEN offset' = offset + Stride /\ UNCHANGED status
       ELSE status' = "available" /\ UNCHANGED offset
    /\ UNCHANGED <<table, server, reader, kept, edits>>

\* Mutation of PageFails: a status that nobody knows.
PageFailsUnnamed ==
    /\ status = "reading" /\ status' = "error"
    /\ UNCHANGED <<table, server, reader, offset, total, got, kept, edits>>

\* Mutation of PageFails: what was read so far passes for the collection.
PageFailsQuietly ==
    /\ status = "reading"
    /\ status' = IF offset = 0 THEN "unavailable" ELSE "available"
    /\ UNCHANGED <<table, server, reader, offset, total, got, kept, edits>>

\* A GET that fails: nothing on the first page of an inventory dataset, what
\* was read so far on a later one; never less than everything for the mutator.
PageFails ==
    /\ status = "reading"
    /\ status' = CASE reader = "mutation" -> "refused"
                   [] reader = "inventory" /\ offset = 0 -> "unavailable"
                   [] reader = "inventory" /\ offset > 0 -> "partial"
    /\ UNCHANGED <<table, server, reader, offset, total, got, kept, edits>>

-----------------------------------------------------------------------------
(* Other people, between two pages.  Ids are never used again. *)

Change(kind, new) ==
    /\ status = "reading" /\ offset > 0
    /\ Len(edits) < MaxEdits
    /\ table' = new
    /\ kept' = kept \cap Range(new)
    /\ edits' = Append(edits, kind)
    /\ UNCHANGED <<server, reader, offset, total, got, status>>

Unused == Records \ (Range(table) \cup Range(got))

Addition == \E r \in Unused : Change("append", Append(table, r))

Insertion == \E r \in Unused, i \in DOMAIN table :
                 Change("insert", InsertAt(table, i, r))

Removal == \E i \in DOMAIN table : Change("remove", RemoveAt(table, i))

\* Reordering, as of firewall policies.
Reordering == \E i, j \in DOMAIN table :
            i # j /\ Change("move", InsertAt(RemoveAt(table, i), j, table[i]))

Next == GetPage \/ PageFails \/ Addition \/ Insertion \/ Removal \/ Reordering

Spec == Init /\ [][Next]_vars

-----------------------------------------------------------------------------
(* Properties. *)

Done(kind) == kind \in Range(edits)

\* What the loops rely on: every page names the total, and the limit where the
\* controller serves less than it is asked for.  A first page without a total
\* passes for the collection, and a shorter page without its limit loses what
\* lies between it and the next.
Explicit == server.total /\ Stride = server.served

\* With nobody at work on it, a collection is returned whole and in order, and
\* a partial one is its beginning, never all of it (the loops of _collect_spec
\* and _get_official_collection; the status of a dataset), from a controller
\* that serves pages of any size and is explicit about them.
QuietReadIsExact ==
    (Explicit /\ edits = <<>>) =>
        /\ status = "available" => got = table
        /\ status = "partial" => IsStrictPrefix(got, table)

\* What has an effect on a loop so that it can miss a record that was there all
\* the time: the inventory, with its old total, also misses what an insertion
\* pushes behind that.
Hides == [inventory |-> {"insert", "move", "remove"},
          mutation  |-> {"move", "remove"}]

\* A collection called complete has every record that was there from the first
\* page to the last, whatever was added meanwhile; only a removal or a move
\* (for the inventory, an insertion too) can make a read skip one.  Of a
\* controller that is explicit about its pages.
NothingLostToAdditions ==
    (Explicit /\ status = "available" /\ \A kind \in Hides[reader] : ~Done(kind)) =>
        kept \subseteq Range(got)

\* A record comes twice only after an insertion or a move: removals and
\* additions at the end, in any order, do not repeat one, whatever a controller
\* leaves out of its pages.
NothingTwiceWithoutInsertion ==
    (~Done("insert") /\ ~Done("move")) => IsInjective(got)
=============================================================================
