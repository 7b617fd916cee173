------------------------ MODULE PaginatedReadProofs ------------------------
(***************************************************************************)
(* What a read by pages returns, for collections and pages of every size   *)
(* and any number of changes between the pages.                            *)
(***************************************************************************)
EXTENDS PaginatedRead, SequenceTheorems, TLAPS

-----------------------------------------------------------------------------
(* Sequences, place by place. *)

LEMMA RemovedAt ==
  ASSUME NEW S, NEW s \in Seq(S), NEW i \in DOMAIN s
  PROVE  /\ RemoveAt(s, i) \in Seq(S)
         /\ Len(RemoveAt(s, i)) = Len(s) - 1
         /\ \A k \in 1 .. Len(s) - 1 :
              RemoveAt(s, i)[k] = IF k < i THEN s[k] ELSE s[k + 1]
<1> DEFINE a == SubSeq(s, 1, i - 1)
           b == SubSeq(s, i + 1, Len(s))
<1>1. i \in 1 .. Len(s) /\ Len(s) \in Nat
  BY LenProperties
<1>2. /\ a \in Seq(S) /\ Len(a) = i - 1
      /\ \A k \in 1 .. i - 1 : a[k] = s[k]
  BY <1>1, SubSeqProperties
<1>3. /\ b \in Seq(S) /\ Len(b) = Len(s) - i
      /\ \A k \in 1 .. Len(s) - i : b[k] = s[i + k]
  BY <1>1, SubSeqProperties
<1> HIDE DEF a, b
<1>4. /\ a \o b \in Seq(S) /\ Len(a \o b) = Len(s) - 1
      /\ \A k \in 1 .. Len(s) - 1 :
            (a \o b)[k] = IF k <= i - 1 THEN a[k] ELSE b[k - (i - 1)]
  <2>1. /\ a \o b \in Seq(S) /\ Len(a \o b) = Len(a) + Len(b)
        /\ \A k \in 1 .. Len(a) + Len(b) :
              (a \o b)[k] = IF k <= Len(a) THEN a[k] ELSE b[k - Len(a)]
    BY <1>2, <1>3, ConcatProperties
  <2>2. Len(a) + Len(b) = Len(s) - 1
    BY <1>1, <1>2, <1>3
  <2>3. QED
    BY <1>2, <2>1, <2>2
<1>5. ASSUME NEW k \in 1 .. Len(s) - 1
      PROVE  (a \o b)[k] = IF k < i THEN s[k] ELSE s[k + 1]
  <2>1. CASE k < i
    BY <1>1, <1>2, <1>4, <2>1
  <2>2. CASE ~(k < i)
    <3>1. k - (i - 1) \in 1 .. Len(s) - i /\ i + (k - (i - 1)) = k + 1
      BY <1>1, <2>2
    <3>2. b[k - (i - 1)] = s[i + (k - (i - 1))]
      BY <1>3, <3>1
    <3>3. (a \o b)[k] = b[k - (i - 1)]
      <4>1. (a \o b)[k] = IF k <= i - 1 THEN a[k] ELSE b[k - (i - 1)]
        BY <1>4
      <4>2. ~(k <= i - 1)
        BY <1>1, <2>2
      <4>3. QED
        BY <4>1, <4>2
    <3>4. s[i + (k - (i - 1))] = s[k + 1]
      BY <3>1
    <3>5. QED
      BY <2>2, <3>2, <3>3, <3>4
  <2>3. QED
    BY <2>1, <2>2
<1>6. QED
  BY <1>4, <1>5 DEF RemoveAt, a, b

Inserted(s, i, e, k) == IF k < i THEN s[k] ELSE IF k = i THEN e ELSE s[k - 1]

LEMMA InsertedAt ==
  ASSUME NEW S, NEW s \in Seq(S), NEW i \in 1 .. Len(s) + 1, NEW e \in S
  PROVE  /\ InsertAt(s, i, e) \in Seq(S)
         /\ Len(InsertAt(s, i, e)) = Len(s) + 1
         /\ \A k \in 1 .. Len(s) + 1 :
              InsertAt(s, i, e)[k] = Inserted(s, i, e, k)
<1> DEFINE a == SubSeq(s, 1, i - 1)
           b == SubSeq(s, i, Len(s))
           c == a \o <<e>>
<1>1. i \in 1 .. Len(s) + 1 /\ Len(s) \in Nat
  BY LenProperties
<1>2. /\ a \in Seq(S) /\ Len(a) = i - 1
      /\ \A k \in 1 .. i - 1 : a[k] = s[k]
  BY <1>1, SubSeqProperties
<1>3. /\ b \in Seq(S) /\ Len(b) = Len(s) - i + 1
      /\ \A k \in 1 .. Len(s) - i + 1 : b[k] = s[i + k - 1]
  BY <1>1, SubSeqProperties
<1> HIDE DEF a, b
<1>4. /\ c \in Seq(S) /\ Len(c) = i
      /\ \A k \in 1 .. i : c[k] = IF k < i THEN a[k] ELSE e
  BY <1>1, <1>2
<1> HIDE DEF c
<1>5. /\ c \o b \in Seq(S) /\ Len(c \o b) = Len(s) + 1
      /\ \A k \in 1 .. Len(s) + 1 :
            (c \o b)[k] = IF k <= i THEN c[k] ELSE b[k - i]
  BY <1>1, <1>3, <1>4, ConcatProperties
<1>6. ASSUME NEW k \in 1 .. Len(s) + 1
      PROVE  (c \o b)[k] = IF k < i THEN s[k] ELSE IF k = i THEN e ELSE s[k - 1]
  <2>1. CASE k <= i
    BY <1>1, <1>2, <1>4, <1>5, <2>1
  <2>2. CASE ~(k <= i)
    <3>1. k - i \in 1 .. Len(s) - i + 1 /\ i + (k - i) - 1 = k - 1
      BY <1>1, <2>2
    <3>2. b[k - i] = s[i + (k - i) - 1]
      BY <1>3, <3>1
    <3>3. QED
      BY <1>1, <1>5, <2>2, <3>1, <3>2
  <2>3. QED
    BY <2>1, <2>2
<1>7. QED
  BY <1>5, <1>6 DEF InsertAt, Inserted, a, b, c

\* A controller serves some records at a time, and no step is shorter.
LEMMA ServerIs ==
  ASSUME server \in Servers
  PROVE  /\ server.served \in Nat \ {0} /\ Stride \in Nat \ {0}
         /\ server.served <= Stride
         /\ server.total \in BOOLEAN
<1>1. /\ server \in [served : 1 .. Limit, limit : 0 .. Limit, total : BOOLEAN]
      /\ server.limit \in {0, server.served} /\ Limit \in Nat \ {0}
  BY ServerAssumption, LimitAssumption
<1>2. /\ server.served \in 1 .. Limit /\ server.limit \in 0 .. Limit
      /\ server.total \in BOOLEAN
  BY <1>1
<1>3. QED
  BY <1>1, <1>2 DEF Stride

\* A page is what the collection has from its offset on, up to what the controller
\* serves.
LEMMA PageIs ==
  ASSUME table \in Seq(Records), server \in Servers, NEW o \in Nat
  PROVE  /\ Page(o) \in Seq(Records) /\ Len(Page(o)) \in Nat
         /\ Len(table) <= o => Len(Page(o)) = 0
         /\ (o < Len(table) /\ Len(table) <= o + server.served) =>
                Len(Page(o)) = Len(table) - o
         /\ o + server.served < Len(table) => Len(Page(o)) = server.served
         /\ Len(Page(o)) <= server.served
         /\ \A k \in 1 .. Len(Page(o)) :
                o + k \in DOMAIN table /\ Page(o)[k] = table[o + k]
<1> DEFINE last == IF o + server.served < Len(table) THEN o + server.served ELSE Len(table)
<1>1. /\ Len(table) \in Nat /\ server.served \in Nat \ {0} /\ last \in Nat
      /\ last <= Len(table) /\ DOMAIN table = 1 .. Len(table)
  BY LenProperties, ServerIs
<1> HIDE DEF last
<1>2. /\ SubSeq(table, o + 1, last) \in Seq(Records)
      /\ Len(SubSeq(table, o + 1, last)) =
           IF o + 1 <= last THEN last - (o + 1) + 1 ELSE 0
      /\ \A k \in 1 .. last - (o + 1) + 1 :
           SubSeq(table, o + 1, last)[k] = table[o + 1 + k - 1]
  BY <1>1, SubSeqProperties
<1>3. ASSUME NEW k \in 1 .. Len(SubSeq(table, o + 1, last))
      PROVE  /\ o + k \in DOMAIN table
             /\ SubSeq(table, o + 1, last)[k] = table[o + k]
  <2>1. k \in 1 .. last - (o + 1) + 1 /\ o + 1 + k - 1 = o + k
    BY <1>1, <1>2
  <2>2. o + k \in DOMAIN table
    BY <1>1, <2>1
  <2>3. SubSeq(table, o + 1, last)[k] = table[o + 1 + k - 1]
    BY <1>2, <2>1
  <2>4. QED
    BY <2>1, <2>2, <2>3
<1>4. Page(o) = SubSeq(table, o + 1, last)
  BY DEF Page, last
<1>5. /\ Len(Page(o)) \in Nat
      /\ Len(table) <= o => Len(Page(o)) = 0
      /\ (o < Len(table) /\ Len(table) <= o + server.served) =>
             Len(Page(o)) = Len(table) - o
      /\ o + server.served < Len(table) => Len(Page(o)) = server.served
      /\ Len(Page(o)) <= server.served
  <2>1. Len(Page(o)) = IF o + 1 <= last THEN last - (o + 1) + 1 ELSE 0
    BY <1>2, <1>4
  <2>2. last = IF o + server.served < Len(table) THEN o + server.served ELSE Len(table)
    BY DEF last
  <2> DEFINE n == Len(Page(o))
             m == Len(table)
  <2>3. n = (IF o + 1 <= last THEN last - (o + 1) + 1 ELSE 0)
    BY <2>1
  <2>4. m \in Nat /\ last = IF o + server.served < m THEN o + server.served ELSE m
    BY <1>1, <2>2
  <2> HIDE DEF n, m
  <2>5. /\ n \in Nat /\ m <= o => n = 0
        /\ o < m /\ m <= o + server.served => n = m - o
        /\ o + server.served < m => n = server.served
        /\ n <= server.served
    BY <1>1, <2>3, <2>4
  <2>6. QED
    BY <2>5 DEF n, m
<1>6. QED
  BY <1>2, <1>3, <1>4, <1>5

\* Sequences without repetition stay so.
LEMMA RemovedInjective ==
  ASSUME NEW S, NEW s \in Seq(S), IsInjective(s), NEW i \in DOMAIN s
  PROVE  IsInjective(RemoveAt(s, i)) /\ s[i] \notin Range(RemoveAt(s, i))
<1>1. /\ i \in 1 .. Len(s) /\ Len(s) \in Nat /\ DOMAIN s = 1 .. Len(s)
      /\ DOMAIN RemoveAt(s, i) = 1 .. Len(s) - 1
  BY LenProperties, RemovedAt
<1> DEFINE place(k) == IF k < i THEN k ELSE k + 1
<1>2. ASSUME NEW k \in 1 .. Len(s) - 1
      PROVE  RemoveAt(s, i)[k] = s[place(k)] /\ place(k) \in DOMAIN s /\ place(k) # i
  <2>1. RemoveAt(s, i)[k] = IF k < i THEN s[k] ELSE s[k + 1]
    BY RemovedAt
  <2>2. QED
    BY <1>1, <2>1
<1>3. ASSUME NEW k \in 1 .. Len(s) - 1, NEW m \in 1 .. Len(s) - 1, place(k) = place(m)
      PROVE  k = m
  BY <1>1, <1>3
<1> HIDE DEF place
<1>4. IsInjective(RemoveAt(s, i))
  BY <1>1, <1>2, <1>3 DEF IsInjective
<1>5. s[i] \notin Range(RemoveAt(s, i))
  BY <1>1, <1>2 DEF IsInjective, Range
<1>6. QED
  BY <1>4, <1>5

LEMMA InsertedInjective ==
  ASSUME NEW S, NEW s \in Seq(S), IsInjective(s), NEW i \in 1 .. Len(s) + 1,
         NEW e \in S, e \notin Range(s)
  PROVE  IsInjective(InsertAt(s, i, e))
<1>1. /\ Len(s) \in Nat /\ DOMAIN s = 1 .. Len(s)
      /\ DOMAIN InsertAt(s, i, e) = 1 .. Len(s) + 1
  BY LenProperties, InsertedAt
<1> DEFINE place(k) == IF k < i THEN k ELSE k - 1
<1>2. InsertAt(s, i, e)[i] = e
  <2>1. InsertAt(s, i, e)[i] = Inserted(s, i, e, i)
    BY InsertedAt
  <2>2. QED
    BY <1>1, <2>1 DEF Inserted
<1>3. ASSUME NEW k \in 1 .. Len(s) + 1, k # i
      PROVE  InsertAt(s, i, e)[k] = s[place(k)] /\ place(k) \in DOMAIN s
  <2>1. InsertAt(s, i, e)[k] = Inserted(s, i, e, k)
    BY InsertedAt
  <2>2. QED
    BY <1>1, <1>3, <2>1 DEF Inserted
<1>4. ASSUME NEW k \in (1 .. Len(s) + 1) \ {i}, NEW m \in (1 .. Len(s) + 1) \ {i},
             place(k) = place(m)
      PROVE  k = m
  BY <1>1, <1>4
<1> HIDE DEF place
<1>5. \A k \in (1 .. Len(s) + 1) \ {i} : InsertAt(s, i, e)[k] # e
  BY <1>1, <1>3 DEF Range
<1>6. QED
  BY <1>1, <1>2, <1>3, <1>4, <1>5 DEF IsInjective

-----------------------------------------------------------------------------
(* The invariant. *)

\* While nothing changes, a read has the beginning of the collection.
QuietSoFar ==
    (Explicit /\ edits = <<>> /\ status = "reading") =>
        /\ Len(got) = offset /\ offset <= Len(table)
        /\ \A k \in 1 .. offset : got[k] = table[k]
        /\ offset > 0 => offset < Len(table) /\ total = Len(table)

\* Without insertions and moves, what is still to come was not read yet.
NewAhead ==
    (~Done("insert") /\ ~Done("move")) =>
        /\ IsInjective(got)
        /\ status = "reading" =>
             \A i \in DOMAIN table, k \in DOMAIN got : i > offset => table[i] # got[k]

\* Without the changes that hide, every record that was there all the time has
\* been read or is still to come.
StillAhead(x) ==
    \E i \in DOMAIN table :
        /\ i > offset /\ table[i] = x
        /\ (reader = "inventory" /\ offset > 0) => i <= total
OldReadOrAhead ==
    (Explicit /\ \A kind \in Hides[reader] : ~Done(kind)) =>
        \A x \in kept : \/ x \in Range(got)
                        \/ status = "reading" /\ StillAhead(x)
                        \/ status \notin {"reading", "available"}

IInv == TypeOK /\ QuietSoFar /\ QuietReadIsExact /\ NewAhead /\ OldReadOrAhead

LEMMA InvariantSuffices ==
  IInv => TypeOK /\ QuietReadIsExact /\ NothingLostToAdditions /\ NothingTwiceWithoutInsertion
<1>1. ASSUME IInv PROVE NothingLostToAdditions
  BY <1>1 DEF IInv, OldReadOrAhead, NothingLostToAdditions
<1>2. QED
  BY <1>1 DEF IInv, NewAhead, NothingTwiceWithoutInsertion

LEMMA InitInvariant == Init => IInv
<1> SUFFICES ASSUME Init PROVE IInv
  OBVIOUS
<1> USE DEF Init
<1>1. table \in Seq(Records) /\ IsInjective(table)
  BY TableAssumption
<1>2. Range(table) \subseteq Records
  BY <1>1 DEF Range
<1>3. /\ got = <<>> /\ <<>> \in Seq(Records) /\ <<>> \in Seq(EditKinds)
      /\ Len(<<>>) = 0 /\ DOMAIN <<>> = {} /\ Len(table) \in Nat
      /\ DOMAIN table \subseteq Nat \ {0}
  BY <1>1, LenProperties
<1>4. TypeOK
  BY <1>1, <1>2, <1>3 DEF TypeOK
<1>5. QuietSoFar
  BY <1>3 DEF QuietSoFar
<1>6. QuietReadIsExact
  BY DEF QuietReadIsExact
<1>7. NewAhead
  BY <1>3 DEF NewAhead, IsInjective
<1>8. OldReadOrAhead
  BY <1>3 DEF OldReadOrAhead, StillAhead, Range
<1>9. QED
  BY <1>4, <1>5, <1>6, <1>7, <1>8 DEF IInv

-----------------------------------------------------------------------------
(* A page. *)

LEMMA PageRead ==
  ASSUME TypeOK, GetPage
  PROVE  /\ got' = got \o Page(offset) /\ got' \in Seq(Records)
         /\ DOMAIN got' = 1 .. Len(got) + Len(Page(offset))
         /\ \A k \in 1 .. Len(got) : got'[k] = got[k]
         /\ \A k \in 1 .. Len(Page(offset)) :
                got'[Len(got) + k] = table[offset + k]
         /\ total' = TotalTaken /\ total' \in Nat
         /\ \/ /\ status' = "reading" /\ offset' = offset + Stride
               /\ More(Len(Page(offset)))
            \/ /\ status' = "available" /\ offset' = offset
               /\ ~More(Len(Page(offset)))
         /\ UNCHANGED <<table, server, reader, kept, edits>> /\ status = "reading"
<1>1. /\ table \in Seq(Records) /\ offset \in Nat /\ got \in Seq(Records)
      /\ total \in Nat /\ server \in Servers
  BY DEF TypeOK
<1>2. /\ Page(offset) \in Seq(Records)
      /\ \A k \in 1 .. Len(Page(offset)) : Page(offset)[k] = table[offset + k]
      /\ Len(Page(offset)) \in Nat
  BY <1>1, PageIs
<1>3. got' = got \o Page(offset) /\ total' = TotalTaken /\ status = "reading"
  BY DEF GetPage
<1>4. /\ got' \in Seq(Records) /\ Len(got') = Len(got) + Len(Page(offset))
      /\ \A k \in 1 .. Len(got) + Len(Page(offset)) :
            got'[k] = IF k <= Len(got) THEN got[k] ELSE Page(offset)[k - Len(got)]
      /\ Len(got) \in Nat
  BY <1>1, <1>2, <1>3, ConcatProperties, LenProperties
<1>5. DOMAIN got' = 1 .. Len(got) + Len(Page(offset))
  BY <1>4, LenProperties
<1>6. \A k \in 1 .. Len(got) : got'[k] = got[k]
  BY <1>2, <1>4
<1>7. ASSUME NEW k \in 1 .. Len(Page(offset))
      PROVE  got'[Len(got) + k] = table[offset + k]
  <2>1. /\ Len(got) + k \in 1 .. Len(got) + Len(Page(offset))
        /\ ~(Len(got) + k <= Len(got)) /\ (Len(got) + k) - Len(got) = k
    BY <1>2, <1>4
  <2>2. got'[Len(got) + k] = Page(offset)[(Len(got) + k) - Len(got)]
    BY <1>4, <2>1
  <2>3. QED
    BY <1>2, <2>1, <2>2
<1>8. TotalTaken \in Nat
  BY <1>1, <1>2, LenProperties DEF TotalTaken, Reported
<1>9. QED
  BY <1>3, <1>4, <1>5, <1>6, <1>7, <1>8 DEF GetPage

\* A record beyond a page means that the page is a full one.
LEMMA BeyondPage ==
  ASSUME TypeOK, NEW i \in DOMAIN table, i > offset
  PROVE  /\ i <= offset + Len(Page(offset)) =>
                i - offset \in 1 .. Len(Page(offset))
         /\ i > offset + Len(Page(offset)) =>
                Len(Page(offset)) = server.served /\ i > offset + server.served
<1>1. /\ table \in Seq(Records) /\ offset \in Nat /\ server.served \in Nat \ {0}
      /\ server \in Servers
      /\ Len(table) \in Nat /\ i \in 1 .. Len(table)
  BY LenProperties, ServerIs DEF TypeOK
<1> DEFINE n == Len(Page(offset))
<1>2. /\ n \in Nat
      /\ (offset < Len(table) /\ Len(table) <= offset + server.served) =>
             n = Len(table) - offset
      /\ offset + server.served < Len(table) => n = server.served
  BY <1>1, PageIs
<1> HIDE DEF n
<1>3. /\ i <= offset + n => i - offset \in 1 .. n
      /\ i > offset + n => n = server.served /\ i > offset + server.served
  BY <1>1, <1>2
<1>4. QED
  BY <1>3 DEF n

\* Where a page ends in a collection of m records.
LEMMA PageEnds ==
  ASSUME NEW o \in Nat, NEW m \in Nat, NEW n \in Nat, NEW l \in Nat \ {0}, o <= m,
         m <= o => n = 0, (o < m /\ m <= o + l) => n = m - o, o + l < m => n = l
  PROVE  /\ o + n <= m
         /\ o + n < m => n = l
         /\ n = 0 => o = m
  OBVIOUS

LEMMA PageKeepsInvariant ==
  ASSUME IInv, GetPage
  PROVE  IInv'
<1>1. /\ TypeOK /\ server \in Servers
      /\ server.served \in Nat \ {0} /\ Stride \in Nat \ {0} /\ server.served <= Stride
  BY ServerIs DEF IInv, TypeOK
<1>2. /\ offset \in Nat /\ got \in Seq(Records) /\ table \in Seq(Records)
      /\ Len(got) \in Nat /\ Len(table) \in Nat /\ total \in Nat
      /\ DOMAIN table = 1 .. Len(table) /\ DOMAIN got = 1 .. Len(got)
      /\ reader \in {"inventory", "mutation"} /\ IsInjective(table)
  BY <1>1, LenProperties DEF TypeOK
<1> DEFINE p == Page(offset)
           n == Len(p)
<1>3. /\ n \in Nat /\ n <= server.served
      /\ \A k \in 1 .. n : offset + k \in DOMAIN table /\ p[k] = table[offset + k]
  BY <1>1, <1>2, PageIs
<1>4. /\ got' = got \o p /\ got' \in Seq(Records)
      /\ DOMAIN got' = 1 .. Len(got) + n
      /\ \A k \in 1 .. Len(got) : got'[k] = got[k]
      /\ \A k \in 1 .. n : got'[Len(got) + k] = table[offset + k]
      /\ total' = TotalTaken /\ total' \in Nat
      /\ \/ status' = "reading" /\ offset' = offset + Stride /\ More(n)
         \/ status' = "available" /\ offset' = offset /\ ~More(n)
      /\ UNCHANGED <<table, server, reader, kept, edits>> /\ status = "reading"
  BY <1>1, PageRead
<1>5. \A i \in DOMAIN table : i > offset =>
        /\ i <= offset + n => i - offset \in 1 .. n
        /\ i > offset + n => n = server.served /\ i > offset + server.served
  BY <1>1, BeyondPage
<1>6. /\ Len(table) <= offset => n = 0
      /\ (offset < Len(table) /\ Len(table) <= offset + server.served) => n = Len(table) - offset
      /\ offset + server.served < Len(table) => n = server.served
  BY <1>1, <1>2, PageIs
<1> HIDE DEF p, n
<1>7. Len(got') = Len(got) + n
  BY <1>2, <1>3, <1>4, LenProperties
<1>8. TypeOK'
  BY <1>1, <1>2, <1>4 DEF TypeOK, Statuses
<1>9. ASSUME Explicit, edits = <<>>
      PROVE  /\ QuietSoFar'
             /\ status' = "available" => got' = table
  <2>1. /\ Len(got) = offset /\ offset <= Len(table)
        /\ \A k \in 1 .. offset : got[k] = table[k]
        /\ offset > 0 => offset < Len(table) /\ total = Len(table)
    BY <1>4, <1>9 DEF IInv, QuietSoFar
  <2>2. TotalTaken = Len(table) /\ Stride = server.served
    BY <1>2, <1>9, <2>1 DEF TotalTaken, Reported, Explicit
  <2>3. /\ offset + n <= Len(table)
        /\ offset + n < Len(table) => n = server.served
        /\ n = 0 => offset = Len(table)
    <3> DEFINE m == Len(table)
    <3>1. /\ m \in Nat /\ offset \in Nat /\ n \in Nat /\ server.served \in Nat \ {0}
          /\ offset <= m /\ (m <= offset => n = 0)
          /\ ((offset < m /\ m <= offset + server.served) => n = m - offset)
          /\ (offset + server.served < m => n = server.served)
      BY <1>1, <1>2, <1>3, <1>6, <2>1
    <3> HIDE DEF m
    <3>2. offset + n <= m /\ (offset + n < m => n = server.served) /\ (n = 0 => offset = m)
      BY <3>1, PageEnds
    <3>3. QED
      BY <3>2 DEF m
  <2>4. ASSUME NEW k \in 1 .. offset + n PROVE got'[k] = table[k]
    <3>1. CASE k <= offset
      <4> offset \in Nat /\ n \in Nat
        BY <1>2, <1>3
      <4>0. k \in 1 .. offset
        BY <3>1
      <4>1. k \in 1 .. offset /\ k \in 1 .. Len(got)
        BY <2>1, <4>0
      <4>2. got'[k] = got[k] /\ got[k] = table[k]
        BY <1>4, <2>1, <4>1
      <4>3. QED
        BY <4>2
    <3>2. CASE ~(k <= offset)
      <4>1. k - offset \in 1 .. n /\ offset + (k - offset) = k
        BY <1>2, <1>3, <3>2
      <4>2. got'[Len(got) + (k - offset)] = table[offset + (k - offset)]
        BY <1>4, <4>1
      <4>3. QED
        BY <2>1, <4>1, <4>2
    <3>3. QED
      BY <3>1, <3>2
  <2>5. CASE More(n)
    <3>1. offset + n < Len(table)
      BY <2>2, <2>5 DEF More
    <3>2. n = server.served
      BY <2>3, <3>1
    <3>3. status' = "reading" /\ offset' = offset + Stride
      BY <1>4, <2>5
    <3>4. offset' = offset + n
      BY <2>2, <3>2, <3>3
    <3>5. Len(got') = offset' /\ offset' < Len(table') /\ table' = table
      BY <1>4, <1>7, <2>1, <3>1, <3>4
    <3>6. offset' <= Len(table')
      BY <1>2, <1>3, <3>4, <3>5
    <3>7. \A k \in 1 .. offset' : got'[k] = table'[k]
      BY <2>4, <3>4, <3>5
    <3>8. total' = Len(table')
      BY <1>4, <2>2
    <3>9. QED
      BY <3>3, <3>5, <3>6, <3>7, <3>8 DEF QuietSoFar
  <2>6. CASE ~More(n)
    <3>1. offset + n = Len(table)
      <4>1. ~(offset + n < Len(table)) \/ n = 0
        BY <2>2, <2>6 DEF More
      <4>2. CASE n = 0
        <5>1. offset + 0 = offset
          BY <1>2
        <5>2. QED
          BY <2>3, <4>2, <5>1
      <4>3. CASE ~(offset + n < Len(table))
        <5> DEFINE m == Len(table)
        <5>1. m \in Nat /\ offset \in Nat /\ n \in Nat /\ offset + n <= m /\ ~(offset + n < m)
          BY <1>2, <1>3, <2>3, <4>3
        <5> HIDE DEF m
        <5>2. offset + n = m
          BY <5>1
        <5>3. QED
          BY <5>2 DEF m
      <4>4. QED
        BY <4>1, <4>2, <4>3
    <3>2. got' = table
      BY <1>2, <1>4, <1>7, <2>1, <2>4, <3>1, SeqEqual
    <3>3. status' = "available"
      BY <1>4, <2>6
    <3>4. QED
      BY <3>2, <3>3 DEF QuietSoFar
  <2>7. QED
    BY <2>5, <2>6
<1>10. QuietSoFar' /\ QuietReadIsExact'
  <2>1. status' # "partial"
    BY <1>4
  <2>2. CASE Explicit /\ edits = <<>>
    BY <1>4, <1>9, <2>1, <2>2 DEF QuietReadIsExact
  <2>3. CASE ~(Explicit /\ edits = <<>>)
    BY <1>4, <2>3 DEF QuietSoFar, QuietReadIsExact, Explicit, Stride
  <2>4. QED
    BY <2>2, <2>3
<1>11. NewAhead'
  <2> SUFFICES ASSUME ~Done("insert")', ~Done("move")'
               PROVE  /\ IsInjective(got')
                      /\ status' = "reading" =>
                           \A i \in DOMAIN table, k \in DOMAIN got' :
                               i > offset' => table[i] # got'[k]
    BY <1>4 DEF NewAhead
  <2>1. /\ IsInjective(got)
        /\ \A i \in DOMAIN table, k \in DOMAIN got : i > offset => table[i] # got[k]
    BY <1>4 DEF IInv, NewAhead, Done
  <2>2. ASSUME NEW k \in DOMAIN got'
        PROVE  \/ k \in DOMAIN got /\ got'[k] = got[k]
               \/ \E m \in 1 .. n : /\ k = Len(got) + m /\ got'[k] = table[offset + m]
                                    /\ offset + m \in DOMAIN table
    <3>1. CASE k <= Len(got)
      BY <1>2, <1>3, <1>4, <3>1
    <3>2. CASE ~(k <= Len(got))
      <4>1. k - Len(got) \in 1 .. n /\ k = Len(got) + (k - Len(got))
        BY <1>2, <1>3, <1>4, <3>2
      <4>2. QED
        BY <1>3, <1>4, <4>1
    <3>3. QED
      BY <3>1, <3>2
  <2>3. ASSUME NEW k \in DOMAIN got', NEW l \in DOMAIN got', got'[k] = got'[l]
        PROVE  k = l
    <3> DEFINE Old(a) == a \in DOMAIN got /\ got'[a] = got[a]
               New(a, m) == /\ m \in 1 .. n /\ a = Len(got) + m
                            /\ got'[a] = table[offset + m]
                            /\ offset + m \in DOMAIN table
    <3>1. /\ Old(k) \/ \E m \in 1 .. n : New(k, m)
          /\ Old(l) \/ \E m \in 1 .. n : New(l, m)
      BY <2>2
    <3>2. CASE Old(k) /\ Old(l)
      BY <2>1, <2>3, <3>2 DEF IsInjective
    <3>3. ASSUME NEW a, NEW b, NEW m, Old(a), New(b, m)
          PROVE  got'[a] # got'[b]
      <4>1. offset + m > offset
        BY <1>2, <1>3, <3>3
      <4>2. QED
        BY <2>1, <3>3, <4>1
    <3>4. ASSUME NEW m1, NEW m2, New(k, m1), New(l, m2)
          PROVE  k = l
      <4>1. offset + m1 = offset + m2
        BY <1>2, <2>3, <3>4 DEF IsInjective
      <4>2. m1 = m2
        BY <1>2, <1>3, <3>4, <4>1
      <4>3. QED
        BY <3>4, <4>2
    <3>5. QED
      BY <2>3, <3>1, <3>2, <3>3, <3>4
  <2>4. ASSUME status' = "reading", NEW i \in DOMAIN table, NEW k \in DOMAIN got',
               i > offset'
        PROVE  table[i] # got'[k]
    <3>1. offset' = offset + Stride
      BY <1>4, <2>4
    <3>2. i > offset /\ i > offset + n
      <4>1. /\ i \in Nat /\ i > offset + Stride /\ Stride \in Nat /\ n <= Stride
            /\ n \in Nat /\ offset \in Nat
        BY <1>1, <1>2, <1>3, <2>4, <3>1
      <4>2. QED
        BY <4>1
    <3>3. QED
      BY <1>2, <1>3, <2>1, <2>2, <3>2 DEF IsInjective
  <2>5. QED
    BY <2>3, <2>4 DEF IsInjective
<1>12. OldReadOrAhead'
  <2> SUFFICES ASSUME Explicit, \A kind \in Hides[reader] : ~Done(kind), NEW x \in kept
               PROVE  \/ x \in Range(got')
                      \/ status' = "reading" /\ StillAhead(x)'
    BY <1>4 DEF OldReadOrAhead, Done, Explicit, Stride
  <2>1. x \in Range(got) \/ StillAhead(x)
    BY <1>4 DEF IInv, OldReadOrAhead
  <2>2. CASE x \in Range(got)
    BY <1>2, <1>3, <1>4, <2>2 DEF Range
  <2>3. CASE StillAhead(x)
    <3>1. PICK i \in DOMAIN table :
            /\ i > offset /\ table[i] = x
            /\ (reader = "inventory" /\ offset > 0) => i <= total
      BY <2>3 DEF StillAhead
    <3>2. CASE i <= offset + n
      <4>1. i - offset \in 1 .. n /\ offset + (i - offset) = i
        BY <1>2, <1>5, <3>1, <3>2
      <4>2. got'[Len(got) + (i - offset)] = table[offset + (i - offset)]
        BY <1>4, <4>1
      <4>3. Len(got) + (i - offset) \in 1 .. Len(got) + n
        BY <1>2, <1>3, <4>1
      <4>4. QED
        BY <1>4, <3>1, <4>1, <4>2, <4>3 DEF Range
    <3>3. CASE ~(i <= offset + n)
      <4>1. n = server.served /\ i > offset + server.served
        BY <1>2, <1>3, <1>5, <3>1, <3>3
      <4>2. i <= TotalTaken
        BY <1>2, <3>1 DEF TotalTaken, Reported, Explicit
      <4>3. More(n)
        BY <1>1, <1>2, <1>4, <4>1, <4>2 DEF More
      <4>4. status' = "reading" /\ offset' = offset + Stride
        BY <1>4, <4>3
      <4>5. Stride = server.served
        BY DEF Explicit
      <4>6. QED
        BY <1>4, <3>1, <4>1, <4>2, <4>4, <4>5 DEF StillAhead
    <3>4. QED
      BY <3>2, <3>3
  <2>4. QED
    BY <2>1, <2>2, <2>3
<1>13. QED
  BY <1>8, <1>10, <1>11, <1>12 DEF IInv

\* A page that fails leaves what was read, and that is not everything.
LEMMA FailureKeepsInvariant ==
  ASSUME IInv, PageFails
  PROVE  IInv'
<1>1. /\ TypeOK /\ status = "reading"
      /\ UNCHANGED <<table, server, reader, offset, total, got, kept, edits>>
  BY DEF IInv, PageFails
<1>2. /\ status' \in {"refused", "unavailable", "partial"}
      /\ status' = "partial" => offset > 0
  <2>1. reader \in {"inventory", "mutation"} /\ offset \in Nat
    BY <1>1 DEF TypeOK
  <2>2. QED
    BY <2>1 DEF PageFails
<1>3. TypeOK'
  BY <1>1, <1>2 DEF TypeOK, Statuses
<1>4. QuietSoFar'
  BY <1>2 DEF QuietSoFar
<1>5. QuietReadIsExact'
  <2> SUFFICES ASSUME Explicit, edits = <<>>, offset > 0
               PROVE  IsStrictPrefix(got, table)
    BY <1>1, <1>2 DEF QuietReadIsExact, Explicit, Stride
  <2>1. /\ Len(got) = offset /\ offset <= Len(table)
        /\ \A k \in 1 .. offset : got[k] = table[k]
        /\ offset < Len(table)
    BY <1>1 DEF IInv, QuietSoFar
  <2>2. /\ got \in Seq(Records) /\ table \in Seq(Records) /\ offset \in Nat
        /\ Len(table) \in Nat
    BY <1>1, LenProperties DEF TypeOK
  <2>3. /\ SubSeq(got, 1, offset) \in Seq(Records)
        /\ SubSeq(table, 1, offset) \in Seq(Records)
        /\ Len(SubSeq(got, 1, offset)) = offset
        /\ Len(SubSeq(table, 1, offset)) = offset
        /\ \A k \in 1 .. offset : SubSeq(got, 1, offset)[k] = got[k]
        /\ \A k \in 1 .. offset : SubSeq(table, 1, offset)[k] = table[k]
    BY <2>1, <2>2
  <2>4. SubSeq(got, 1, offset) = SubSeq(table, 1, offset)
    BY <2>1, <2>3, SeqEqual
  <2>5. QED
    BY <2>1, <2>4 DEF IsStrictPrefix, IsPrefix
<1>6. NewAhead'
  BY <1>1, <1>2 DEF IInv, NewAhead, Done
<1>7. OldReadOrAhead'
  BY <1>2 DEF OldReadOrAhead
<1>8. QED
  BY <1>3, <1>4, <1>5, <1>6, <1>7 DEF IInv

-----------------------------------------------------------------------------
(* Other people. *)

\* What a change must not do to a read: bring back a record that was read,
\* unless its kind is one that repeats, or pass one that was not, unless its
\* kind is one that hides.
BringsNothingBack(kind, new) ==
    kind \notin {"insert", "move"} =>
        \A i \in DOMAIN new : i > offset =>
            \/ new[i] \notin Range(got)
            \/ \E j \in DOMAIN table : j > offset /\ table[j] = new[i]
PassesNothing(kind, new) ==
    kind \notin Hides[reader] =>
        \A i \in DOMAIN table : i > offset =>
            \E j \in DOMAIN new : /\ j > offset /\ new[j] = table[i]
                                  /\ reader = "inventory" => j <= i

LEMMA ChangeKeepsInvariant ==
  ASSUME IInv, NEW kind \in EditKinds, NEW new \in Seq(Records), IsInjective(new),
         Change(kind, new), BringsNothingBack(kind, new), PassesNothing(kind, new)
  PROVE  IInv'
<1>1. /\ TypeOK /\ status = "reading" /\ offset > 0
      /\ table' = new /\ kept' = kept \cap Range(new) /\ edits' = Append(edits, kind)
      /\ UNCHANGED <<server, reader, offset, total, got, status>>
  BY DEF IInv, Change
<1>2. /\ edits \in Seq(EditKinds) /\ edits' \in Seq(EditKinds) /\ edits' # <<>>
      /\ \A k \in Range(edits') : k \in Range(edits) \/ k = kind
      /\ Range(edits) \subseteq Range(edits') /\ kind \in Range(edits')
  <2>1. edits \in Seq(EditKinds) /\ Len(edits) \in Nat
    BY <1>1, LenProperties DEF TypeOK
  <2>2. /\ edits' \in Seq(EditKinds) /\ Len(edits') = Len(edits) + 1
        /\ \A k \in 1 .. Len(edits) : edits'[k] = edits[k]
        /\ edits'[Len(edits) + 1] = kind
    BY <1>1, <2>1
  <2>3. DOMAIN edits' = 1 .. Len(edits) + 1 /\ DOMAIN edits = 1 .. Len(edits)
    BY <2>1, <2>2, LenProperties
  <2>4. edits' # <<>>
    BY <2>1, <2>2
  <2>5. \A k \in 1 .. Len(edits) + 1 : k \in 1 .. Len(edits) \/ k = Len(edits) + 1
    BY <2>1
  <2>6. 1 .. Len(edits) \subseteq 1 .. Len(edits) + 1 /\ Len(edits) + 1 \in 1 .. Len(edits) + 1
    BY <2>1
  <2>7. QED
    BY <2>1, <2>2, <2>3, <2>4, <2>5, <2>6 DEF Range
<1>3. TypeOK'
  BY <1>1, <1>2 DEF TypeOK
<1>4. QuietSoFar' /\ QuietReadIsExact'
  BY <1>2 DEF QuietSoFar, QuietReadIsExact
<1>5. NewAhead'
  <2> SUFFICES ASSUME "insert" \notin Range(edits'), "move" \notin Range(edits')
               PROVE  /\ IsInjective(got)
                      /\ \A i \in DOMAIN new, k \in DOMAIN got :
                             i > offset => new[i] # got[k]
    BY <1>1 DEF NewAhead, Done
  <2>1. kind \notin {"insert", "move"} /\ ~Done("insert") /\ ~Done("move")
    BY <1>2 DEF Done
  <2>2. /\ IsInjective(got)
        /\ \A i \in DOMAIN table, k \in DOMAIN got : i > offset => table[i] # got[k]
    BY <1>1, <2>1 DEF IInv, NewAhead
  <2>3. QED
    BY <2>1, <2>2 DEF BringsNothingBack, Range
<1>6. OldReadOrAhead'
  <2> SUFFICES ASSUME Explicit, \A k \in Hides[reader] : k \notin Range(edits'), NEW x \in kept,
                      x \notin Range(got)
               PROVE  StillAhead(x)'
    BY <1>1 DEF OldReadOrAhead, Done, Explicit, Stride
  <2>1. kind \notin Hides[reader] /\ \A k \in Hides[reader] : ~Done(k)
    BY <1>2 DEF Done
  <2>2. StillAhead(x)
    BY <1>1, <2>1 DEF IInv, OldReadOrAhead
  <2>3. PICK i \in DOMAIN table :
          /\ i > offset /\ table[i] = x
          /\ (reader = "inventory" /\ offset > 0) => i <= total
    BY <2>2 DEF StillAhead
  <2>4. PICK j \in DOMAIN new : /\ j > offset /\ new[j] = table[i]
                                /\ reader = "inventory" => j <= i
    BY <2>1, <2>3 DEF PassesNothing
  <2>5. reader = "inventory" => j <= total
    <3>1. /\ DOMAIN table = 1 .. Len(table) /\ DOMAIN new = 1 .. Len(new)
          /\ Len(table) \in Nat /\ Len(new) \in Nat /\ total \in Nat
      BY <1>1, LenProperties DEF TypeOK
    <3>2. QED
      BY <1>1, <2>3, <2>4, <3>1
  <2>6. QED
    BY <1>1, <2>3, <2>4, <2>5 DEF StillAhead
<1>7. QED
  BY <1>3, <1>4, <1>5, <1>6 DEF IInv

LEMMA AdditionKeepsInvariant ==
  ASSUME IInv, Addition
  PROVE  IInv'
<1>1. /\ table \in Seq(Records) /\ IsInjective(table) /\ Len(table) \in Nat
      /\ DOMAIN table = 1 .. Len(table) /\ offset \in Nat
  BY LenProperties DEF IInv, TypeOK
<1>2. PICK r \in Unused : Change("append", Append(table, r))
  BY DEF Addition
<1> DEFINE new == Append(table, r)
<1>3. r \in Records /\ r \notin Range(table) /\ r \notin Range(got)
  BY <1>2 DEF Unused
<1>4. /\ new \in Seq(Records) /\ DOMAIN new = 1 .. Len(table) + 1
      /\ \A k \in DOMAIN table : new[k] = table[k]
      /\ new[Len(table) + 1] = r
  BY <1>1, <1>3, LenProperties
<1> HIDE DEF new
<1>5. \A k \in DOMAIN new : k \in DOMAIN table \/ k = Len(table) + 1
  BY <1>1, <1>4
<1>6. IsInjective(new)
  BY <1>1, <1>3, <1>4, <1>5 DEF IsInjective, Range
<1>7. BringsNothingBack("append", new)
  BY <1>3, <1>4, <1>5 DEF BringsNothingBack
<1>8. PassesNothing("append", new)
  BY <1>1, <1>4 DEF PassesNothing
<1>9. Change("append", new)
  BY <1>2 DEF new
<1>10. QED
  BY <1>4, <1>6, <1>7, <1>8, <1>9, ChangeKeepsInvariant DEF EditKinds

LEMMA InsertionKeepsInvariant ==
  ASSUME IInv, Insertion
  PROVE  IInv'
<1>1. /\ table \in Seq(Records) /\ IsInjective(table) /\ Len(table) \in Nat
      /\ DOMAIN table = 1 .. Len(table) /\ offset \in Nat
      /\ reader \in {"inventory", "mutation"}
  BY LenProperties DEF IInv, TypeOK
<1>2. PICK r \in Unused : \E i \in DOMAIN table : Change("insert", InsertAt(table, i, r))
  BY DEF Insertion
<1>3. PICK i \in DOMAIN table : Change("insert", InsertAt(table, i, r))
  BY <1>2
<1> DEFINE new == InsertAt(table, i, r)
<1>4. r \in Records /\ r \notin Range(table)
  BY <1>2 DEF Unused
<1>5. i \in 1 .. Len(table) + 1 /\ i \in 1 .. Len(table)
  BY <1>1, <1>3
<1>6. /\ new \in Seq(Records) /\ Len(new) = Len(table) + 1
      /\ \A k \in 1 .. Len(table) + 1 :
            new[k] = Inserted(table, i, r, k)
  <2>1. ASSUME NEW e \in Records, NEW m \in 1 .. Len(table) + 1
        PROVE  /\ InsertAt(table, m, e) \in Seq(Records)
               /\ Len(InsertAt(table, m, e)) = Len(table) + 1
               /\ \A k \in 1 .. Len(table) + 1 :
                     InsertAt(table, m, e)[k] = Inserted(table, m, e, k)
    BY <1>1, InsertedAt
  <2>2. QED
    BY <1>4, <1>5, <2>1
<1>7. IsInjective(new)
  BY <1>1, <1>4, <1>5, InsertedInjective
<1> HIDE DEF new
<1>8. DOMAIN new = 1 .. Len(table) + 1
  BY <1>6, LenProperties
<1>9. BringsNothingBack("insert", new)
  BY DEF BringsNothingBack
<1>10. PassesNothing("insert", new)
  <2> SUFFICES ASSUME reader = "mutation", NEW k \in DOMAIN table, k > offset
               PROVE  \E j \in DOMAIN new : j > offset /\ new[j] = table[k]
    BY <1>1 DEF PassesNothing, Hides
  <2>1. k \in 1 .. Len(table)
    BY <1>1
  <2>2. CASE k < i
    BY <1>1, <1>6, <1>8, <2>1, <2>2 DEF Inserted
  <2>3. CASE ~(k < i)
    <3>1. /\ k + 1 \in 1 .. Len(table) + 1 /\ (k + 1) - 1 = k
          /\ ~(k + 1 < i) /\ k + 1 # i /\ k + 1 > offset
      BY <1>1, <1>5, <2>1, <2>3
    <3>2. new[k + 1] = table[(k + 1) - 1]
      BY <1>6, <3>1 DEF Inserted
    <3>3. QED
      BY <1>8, <3>1, <3>2
  <2>4. QED
    BY <2>2, <2>3
<1>11. Change("insert", new)
  BY <1>3 DEF new
<1>12. QED
  BY <1>6, <1>7, <1>9, <1>10, <1>11, ChangeKeepsInvariant DEF EditKinds

LEMMA RemovalKeepsInvariant ==
  ASSUME IInv, Removal
  PROVE  IInv'
<1>1. /\ table \in Seq(Records) /\ IsInjective(table) /\ Len(table) \in Nat
      /\ DOMAIN table = 1 .. Len(table) /\ offset \in Nat
      /\ reader \in {"inventory", "mutation"}
  BY LenProperties DEF IInv, TypeOK
<1>2. PICK i \in DOMAIN table : Change("remove", RemoveAt(table, i))
  BY DEF Removal
<1> DEFINE new == RemoveAt(table, i)
<1>3. /\ new \in Seq(Records) /\ Len(new) = Len(table) - 1
      /\ \A k \in 1 .. Len(table) - 1 :
            new[k] = IF k < i THEN table[k] ELSE table[k + 1]
  BY <1>1, <1>2, RemovedAt
<1>4. IsInjective(new)
  BY <1>1, <1>2, RemovedInjective
<1> HIDE DEF new
<1>5. DOMAIN new = 1 .. Len(table) - 1
  BY <1>3, LenProperties
<1>6. BringsNothingBack("remove", new)
  <2> SUFFICES ASSUME NEW k \in DOMAIN new, k > offset
               PROVE  \E j \in DOMAIN table : j > offset /\ table[j] = new[k]
    BY DEF BringsNothingBack
  <2>1. /\ k \in 1 .. Len(table) - 1 /\ k \in DOMAIN table /\ k + 1 \in DOMAIN table
        /\ k + 1 > offset
    BY <1>1, <1>5
  <2>2. new[k] = table[k] \/ new[k] = table[k + 1]
    BY <1>3, <2>1
  <2>3. QED
    BY <2>1, <2>2
<1>7. PassesNothing("remove", new)
  BY <1>1 DEF PassesNothing, Hides
<1>8. Change("remove", new)
  BY <1>2 DEF new
<1>9. QED
  BY <1>3, <1>4, <1>6, <1>7, <1>8, ChangeKeepsInvariant DEF EditKinds

LEMMA ReorderingKeepsInvariant ==
  ASSUME IInv, Reordering
  PROVE  IInv'
<1>1. /\ table \in Seq(Records) /\ IsInjective(table) /\ Len(table) \in Nat
      /\ DOMAIN table = 1 .. Len(table) /\ reader \in {"inventory", "mutation"}
  BY LenProperties DEF IInv, TypeOK
<1>2. PICK i \in DOMAIN table :
        \E j \in DOMAIN table :
            Change("move", InsertAt(RemoveAt(table, i), j, table[i]))
  BY DEF Reordering
<1>3. PICK j \in DOMAIN table : Change("move", InsertAt(RemoveAt(table, i), j, table[i]))
  BY <1>2
<1> DEFINE rest == RemoveAt(table, i)
<1>4. /\ rest \in Seq(Records) /\ Len(rest) = Len(table) - 1
      /\ IsInjective(rest) /\ table[i] \notin Range(rest) /\ table[i] \in Records
  <2>1. table[i] \in Records
    BY <1>1
  <2>2. rest \in Seq(Records) /\ Len(rest) = Len(table) - 1
    BY <1>1, <1>2, RemovedAt
  <2>3. IsInjective(rest) /\ table[i] \notin Range(rest)
    BY <1>1, <1>2, RemovedInjective
  <2>4. QED
    BY <2>1, <2>2, <2>3
<1> HIDE DEF rest
<1>5. j \in 1 .. Len(rest) + 1
  BY <1>1, <1>3, <1>4
<1> DEFINE new == InsertAt(rest, j, table[i])
<1>6. new \in Seq(Records)
  BY <1>4, <1>5, InsertedAt
<1>7. IsInjective(new)
  BY <1>4, <1>5, InsertedInjective
<1>8. BringsNothingBack("move", new)
  BY DEF BringsNothingBack
<1>9. PassesNothing("move", new)
  BY <1>1 DEF PassesNothing, Hides
<1>10. Change("move", new)
  BY <1>3 DEF rest
<1> HIDE DEF new
<1>11. QED
  BY <1>6, <1>7, <1>8, <1>9, <1>10, ChangeKeepsInvariant DEF EditKinds

LEMMA NextInvariant == IInv /\ [Next]_vars => IInv'
<1> SUFFICES ASSUME IInv, [Next]_vars PROVE IInv'
  OBVIOUS
<1>1. CASE GetPage
  BY <1>1, PageKeepsInvariant
<1>2. CASE PageFails
  BY <1>2, FailureKeepsInvariant
<1>3. CASE Addition
  BY <1>3, AdditionKeepsInvariant
<1>4. CASE Insertion
  BY <1>4, InsertionKeepsInvariant
<1>5. CASE Removal
  BY <1>5, RemovalKeepsInvariant
<1>6. CASE Reordering
  BY <1>6, ReorderingKeepsInvariant
<1>7. CASE UNCHANGED vars
  BY <1>7 DEF vars, IInv, TypeOK, QuietSoFar, QuietReadIsExact, NewAhead,
              OldReadOrAhead, StillAhead, Done, Explicit, Stride
<1>8. QED
  BY <1>1, <1>2, <1>3, <1>4, <1>5, <1>6, <1>7 DEF Next

-----------------------------------------------------------------------------
(* The results. *)

\* What has been read, what is still to come and where the read stands fit
\* together at every moment (_collect_spec, _get_official_collection).
THEOREM ReadInvariant == Spec => []IInv
BY InitInvariant, NextInvariant, PTL DEF Spec

\* The collection, the reader and its results have their types.
THEOREM TypeCorrect == Spec => []TypeOK
BY ReadInvariant, InvariantSuffices, PTL

\* Undisturbed, a read returns the collection, whole and in its order, and a
\* partial one is a beginning that lacks something.
THEOREM QuietReads == Spec => []QuietReadIsExact
BY ReadInvariant, InvariantSuffices, PTL

\* Nobody who only adds records can make a read miss one that was there.
THEOREM CompleteReads == Spec => []NothingLostToAdditions
BY ReadInvariant, InvariantSuffices, PTL

\* Nobody who only adds at the end and removes can make a record come twice.
THEOREM SingleReads == Spec => []NothingTwiceWithoutInsertion
BY ReadInvariant, InvariantSuffices, PTL
=============================================================================
