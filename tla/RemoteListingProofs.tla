------------------------ MODULE RemoteListingProofs ------------------------
(***************************************************************************)
(* Proofs about RemoteListing, for any server, page size and list size.    *)
(***************************************************************************)
EXTENDS RemoteListing, SearchProofs, SequenceTheorems, TLAPS

\* What find_existing_remote_index returns: the list's row of the same ROM
\* and slot if there is one, else one of the same name and slot, else none.
LEMMA ExistingFinds ==
  ASSUME NEW list \in Seq(Rows), NEW r \in Rows
  PROVE  LET e == Existing(list, r) IN
         \/ e \in 1..Len(list) /\ SameRomAndSlot(list[e], r)
         \/ /\ \/ e = NoMatch
               \/ e \in 1..Len(list) /\ SameNameAndSlot(list[e], r)
            /\ \A i \in 1..Len(list) : ~SameRomAndSlot(list[i], r)
<1> DEFINE owned == {i \in 1..Len(list) : SameRomAndSlot(list[i], r)}
           named == {i \in 1..Len(list) : SameNameAndSlot(list[i], r)}
<1>0. owned \in SUBSET Nat /\ named \in SUBSET Nat
  OBVIOUS
<1>1. CASE owned # {}
  <2>1. First(owned) \in owned
    <3> HIDE DEF owned
    <3> QED BY <1>0, <1>1, FirstIsLeast
  <2>2. Existing(list, r) = First(owned)
    BY <1>1 DEF Existing
  <2> QED BY <2>1, <2>2
<1>2. CASE owned = {} /\ named # {}
  <2>1. First(named) \in named
    <3> HIDE DEF named
    <3> QED BY <1>0, <1>2, FirstIsLeast
  <2>2. Existing(list, r) = First(named)
    BY <1>2 DEF Existing
  <2> QED BY <1>2, <2>1, <2>2
<1>3. CASE owned = {} /\ named = {}
  <2>1. Existing(list, r) = NoMatch
    BY <1>3 DEF Existing
  <2> QED BY <1>3, <2>1
<1> QED BY <1>1, <1>2, <1>3

\* No two rows of a list have the same ROM and slot.
Distinct(list) ==
  \A i, j \in 1..Len(list) : SameIdentity(list[i], list[j]) => i = j

\* Taking a row keeps the list a bounded list of rows with distinct ROMs
\* and slots, whichever way the row is merged.
LEMMA MergeKeepsDistinct ==
  ASSUME NEW list \in Seq(Rows), Len(list) <= MaxItems, Distinct(list),
         NEW r \in Rows
  PROVE  LET new == Merge(list, r) IN
         new \in Seq(Rows) /\ Len(new) <= MaxItems /\ Distinct(new)
<1> DEFINE e == Existing(list, r)
<1>0. \A q \in Rows : q.rom \in Nat /\ q.slot \in SyncSlot
  BY RowsAssumption
<1>1. CASE Merge(list, r) = list
  BY <1>1
<1>2. CASE e \in 1..Len(list) /\ Merge(list, r) = [list EXCEPT ![e] = r]
  <2> DEFINE new == [list EXCEPT ![e] = r]
  <2>1. new \in Seq(Rows) /\ Len(new) = Len(list)
    BY <1>2
  <2>2. \A i \in 1..Len(list) : new[i] = IF i = e THEN r ELSE list[i]
    BY <1>2
  <2>3. \A i \in 1..Len(list) : i # e => ~SameIdentity(list[i], r)
    <3>1. CASE SameRomAndSlot(list[e], r)
      <4> SUFFICES ASSUME NEW i \in 1..Len(list), SameIdentity(list[i], r)
                   PROVE  i = e
        OBVIOUS
      <4>1. SameIdentity(list[i], list[e])
        BY <3>1 DEF SameIdentity, SameRomAndSlot
      <4> QED BY <1>2, <4>1 DEF Distinct
    <3>2. CASE \A i \in 1..Len(list) : ~SameRomAndSlot(list[i], r)
      BY <3>2 DEF SameIdentity, SameRomAndSlot
    <3> QED BY <1>2, <3>1, <3>2, ExistingFinds
  <2>4. \A i \in 1..Len(list) : i # e => ~SameIdentity(r, list[i])
    BY <2>3 DEF SameIdentity
  <2>5. Distinct(new)
    <3> SUFFICES ASSUME NEW i \in 1..Len(list), NEW j \in 1..Len(list),
                        SameIdentity(new[i], new[j]), i # j
                 PROVE  FALSE
      BY <2>1 DEF Distinct
    <3>1. CASE i = e
      BY <2>2, <2>4, <3>1
    <3>2. CASE j = e
      BY <2>2, <2>3, <3>2
    <3>3. CASE i # e /\ j # e
      BY <2>2, <3>3 DEF Distinct
    <3> QED BY <3>1, <3>2, <3>3
  <2> QED BY <1>2, <2>1, <2>5
<1>3. CASE /\ e = NoMatch
           /\ Len(list) < MaxItems
           /\ Merge(list, r) = Append(list, r)
  <2> DEFINE new == Append(list, r)
  <2>1. /\ new \in Seq(Rows)
        /\ Len(new) = Len(list) + 1
        /\ \A i \in 1..Len(list) : new[i] = list[i]
        /\ new[Len(list) + 1] = r
    OBVIOUS
  <2>2. Len(new) <= MaxItems
    BY <1>3, <2>1, SizesAssumption
  <2>3. \A i \in 1..Len(list) : ~SameRomAndSlot(list[i], r)
    BY <1>3, ExistingFinds DEF NoMatch
  <2>4. \A i \in 1..Len(list) : /\ ~SameIdentity(list[i], r)
                                /\ ~SameIdentity(r, list[i])
    BY <2>3 DEF SameIdentity, SameRomAndSlot
  <2>5. Distinct(new)
    <3> SUFFICES ASSUME NEW i \in 1..Len(new), NEW j \in 1..Len(new),
                        SameIdentity(new[i], new[j]), i # j
                 PROVE  FALSE
      BY DEF Distinct
    <3>1. CASE i \in 1..Len(list) /\ j \in 1..Len(list)
      BY <2>1, <3>1 DEF Distinct
    <3>2. CASE i = Len(list) + 1
      <4>1. j \in 1..Len(list)
        BY <2>1, <3>2
      <4> QED BY <2>1, <2>4, <3>2, <4>1
    <3>3. CASE j = Len(list) + 1
      <4>1. i \in 1..Len(list)
        BY <2>1, <3>3
      <4> QED BY <2>1, <2>4, <3>3, <4>1
    <3> QED BY <2>1, <3>1, <3>2, <3>3
  <2> QED BY <1>3, <2>1, <2>2, <2>5
<1>4. \/ Merge(list, r) = list
      \/ e \in 1..Len(list) /\ Merge(list, r) = [list EXCEPT ![e] = r]
      \/ /\ e = NoMatch
         /\ Len(list) < MaxItems
         /\ Merge(list, r) = Append(list, r)
  BY ExistingFinds DEF Merge
<1> QED BY <1>1, <1>2, <1>3, <1>4

\* The inductive invariant.
IInv == TypeOK /\ Distinct(items)

LEMMA InitIInv == Init => IInv
<1> SUFFICES ASSUME Init PROVE IInv
  OBVIOUS
<1>1. server \in Seq(Rows)
  BY RowsAssumption DEF Init
<1>2. <<>> \in Seq(Rows) /\ Len(<<>>) = 0
  OBVIOUS
<1>3. TypeOK
  <2>1. server \in Seq(Rows) /\ begun \in Seq(Rows)
    BY <1>1, <1>2 DEF Init
  <2>2. page \in Seq(Rows) /\ Len(page) <= fetched /\ fetched \in 0..PageLimit
    BY <1>2, SizesAssumption DEF Init
  <2>3. items \in Seq(Rows) /\ Len(items) <= MaxItems
    BY <1>2, SizesAssumption DEF Init
  <2>4. changes \in 0..MaxChanges
    BY BoundsAssumption DEF Init
  <2>5. shrunk \in BOOLEAN /\ cutShort \in BOOLEAN
    BY Zenon DEF Init
  <2> QED BY <2>1, <2>2, <2>3, <2>4, <2>5 DEF Init, TypeOK, NoTotal
<1>4. Distinct(items)
  BY <1>2 DEF Init, Distinct
<1> QED BY <1>3, <1>4 DEF IInv

LEMMA NextIInv == IInv /\ [Next]_vars => IInv'
<1> SUFFICES ASSUME IInv, [Next]_vars PROVE IInv'
  OBVIOUS
<1> USE DEF IInv
<1>1. CASE Refuse
  BY <1>1 DEF Refuse, TypeOK, Distinct, history
<1>2. CASE Begin
  BY <1>2 DEF Begin, TypeOK, Distinct
<1>3. CASE FetchPage
  <2>1. page' \in Seq(Rows) /\ Len(page') \in 0..PageLimit
    <3> DEFINE m == Shorter(offset + PageLimit, Len(server))
    <3>1. m \in Nat /\ m <= offset + PageLimit /\ m <= Len(server)
      BY SizesAssumption DEF Shorter, TypeOK
    <3>2. page' = SubSeq(server, offset + 1, m)
      BY <1>3 DEF FetchPage
    <3>3. page' \in Seq(Rows)
      BY <3>1, <3>2 DEF TypeOK
    <3>4. Len(page') = IF offset + 1 <= m THEN m - offset ELSE 0
      BY <3>1, <3>2 DEF TypeOK
    <3> QED BY <3>1, <3>3, <3>4, SizesAssumption DEF TypeOK
  <2>2. total' \in {NoTotal} \cup Nat
    BY <1>3 DEF FetchPage, TypeOK
  <2> QED BY <1>3, <2>1, <2>2 DEF FetchPage, TypeOK, Distinct, history
<1>11. CASE FetchCutShort
  <2>1. page' \in Seq(Rows) /\ Len(page') = 0 /\ fetched' = 0
    BY <1>11 DEF FetchCutShort
  <2> QED BY <1>11, <2>1, SizesAssumption DEF FetchCutShort, TypeOK, Distinct
<1>4. CASE FetchFails
  BY <1>4 DEF FetchFails, TypeOK, Distinct, history
<1>5. CASE TakeRow
  <2>1. Head(page) \in Rows /\ Tail(page) \in Seq(Rows)
        /\ Len(Tail(page)) <= fetched
    BY <1>5 DEF TakeRow, TypeOK
  <2>2. items' \in Seq(Rows) /\ Len(items') <= MaxItems /\ Distinct(items')
    BY <1>5, <2>1, MergeKeepsDistinct DEF TakeRow, TypeOK
  <2> QED BY <1>5, <2>1, <2>2 DEF TakeRow, TypeOK, Distinct, history
<1>6. CASE PageDone
  <2>1. offset' \in Nat
    BY <1>6, SizesAssumption DEF PageDone, Advance, TypeOK
  <2> QED BY <1>6, <2>1 DEF PageDone, TypeOK, Distinct, history
<1>7. CASE Add
  <2>1. PICK r \in Rows, n \in 0..Len(server) :
          server' = SubSeq(server, 1, n) \o <<r>>
                      \o SubSeq(server, n + 1, Len(server))
    BY <1>7 DEF Add
  <2>2. SubSeq(server, 1, n) \in Seq(Rows)
        /\ SubSeq(server, n + 1, Len(server)) \in Seq(Rows)
    BY DEF TypeOK
  <2>3. server' \in Seq(Rows)
    BY <2>1, <2>2
  <2> QED BY <1>7, <2>3, BoundsAssumption
          DEF Add, Change, TypeOK, Distinct, listing
<1>8. CASE Touch
  <2>1. server' \in Seq(Rows)
    BY <1>8 DEF Touch, TypeOK
  <2> QED BY <1>8, <2>1, BoundsAssumption
          DEF Touch, Change, TypeOK, Distinct, listing
<1>9. CASE Delete
  <2>1. PICK n \in 1..Len(server) :
          server' = SubSeq(server, 1, n - 1)
                      \o SubSeq(server, n + 1, Len(server))
    BY <1>9 DEF Delete
  <2>2. SubSeq(server, 1, n - 1) \in Seq(Rows)
        /\ SubSeq(server, n + 1, Len(server)) \in Seq(Rows)
    BY DEF TypeOK
  <2>3. server' \in Seq(Rows)
    BY <2>1, <2>2
  <2> QED BY <1>9, <2>3, BoundsAssumption
          DEF Delete, Change, TypeOK, Distinct, listing
<1>10. CASE UNCHANGED vars
  BY <1>10 DEF vars, listing, history, TypeOK, Distinct
<1> QED BY <1>1, <1>2, <1>3, <1>4, <1>5, <1>6, <1>7, <1>8, <1>9, <1>10, <1>11
     DEF Next

(***************************************************************************)
(* The invariant holds of every behaviour of the listing.                  *)
(***************************************************************************)
THEOREM Invariance == Spec => []IInv
BY InitIInv, NextIInv, PTL DEF Spec

(***************************************************************************)
(* The listing's variables keep their types, out_items its bound.          *)
(***************************************************************************)
THEOREM TypeCorrect == Spec => []TypeOK
<1>1. IInv => TypeOK
  BY DEF IInv
<1> QED BY <1>1, Invariance, PTL

(***************************************************************************)
(* The engine is never given two revisions of one ROM and slot.            *)
(***************************************************************************)
THEOREM RomsAreListedOnce == Spec => []RomsListedOnce
<1>1. IInv => RomsListedOnce
  BY DEF IInv, Distinct, RomsListedOnce
<1> QED BY <1>1, Invariance, PTL

-----------------------------------------------------------------------------
(***************************************************************************)
(* Nothing is missed.  As long as no row is deleted, a row only moves to   *)
(* later places, so what was on the server at the start is kept, or in the *)
(* page that is being merged, or in a page still to come; and that page is *)
(* fetched, since neither a short page nor the total ends the listing      *)
(* before it.                                                              *)
(***************************************************************************)
Revises(q, b) == q.id > 0 /\ SameIdentity(q, b) /\ q.time >= b.time

Holds(list, b) ==
  \E i \in 1..Len(list) : SameIdentity(list[i], b) /\ list[i].time >= b.time

Kept(b) == Len(items) >= MaxItems \/ Holds(items, b)

Arrives(b) == \E j \in 1..Len(page) : Revises(page[j], b)

Ahead(b, from) == \E p \in 1..Len(server) : p > from /\ Revises(server[p], b)

\* After this page another is fetched, unless the list is full.
Continues == fetched = PageLimit /\ (total = NoTotal \/ Advance < total)

Reached(b) ==
  /\ phase = "fetching" => Kept(b) \/ Ahead(b, offset)
  /\ phase = "merging" =>
       Kept(b) \/ Arrives(b) \/ (Continues /\ Ahead(b, Advance))
  /\ phase = "listed" => Kept(b)

Owed(b) == b.id > 0 /\ b.rom > 0 /\ Dated(b)

NothingMissed ==
  FilesTellRoms /\ ~shrunk /\ ~cutShort =>
    \A n \in 1..Len(begun) : Owed(begun[n]) => Reached(begun[n])

TotalIsStated ==
  /\ phase = "idle" => offset = 0 /\ total = NoTotal
  /\ ~ReportsTotal => total = NoTotal

LatestInv == NothingMissed /\ TotalIsStated

\* Merging a row keeps what the list holds of an identity, or something
\* newer, and takes the row itself unless the list is full.
LEMMA MergeKeepsLatest ==
  ASSUME FilesTellRoms, NEW list \in Seq(Rows), NEW r \in Rows, NEW b \in Rows,
         Owed(b)
  PROVE  LET new == Merge(list, r) IN
         /\ Len(new) >= Len(list)
         /\ Holds(list, b) => Holds(new, b)
         /\ Revises(r, b) => Len(new) >= MaxItems \/ Holds(new, b)
<1> DEFINE e == Existing(list, r)
<1>0. /\ \A q \in Rows : q.rom \in Nat /\ q.time \in Nat /\ q.id \in Nat
      /\ \A i \in 1..Len(list) : list[i] \in Rows
  <2>1. \A q \in Rows : q.rom \in Nat /\ q.time \in Nat /\ q.id \in Nat
    BY RowsAssumption
  <2> QED BY <2>1
<1>1. CASE r.id <= 0
  BY <1>0, <1>1 DEF Merge, Revises
<1>2. CASE r.id > 0 /\ e # NoMatch
  <2>1. /\ e \in 1..Len(list)
        /\ SameRomAndSlot(list[e], r) \/ SameNameAndSlot(list[e], r)
    BY <1>2, ExistingFinds
  <2>2. SameIdentity(list[e], b) <=> SameIdentity(r, b)
    <3>1. list[e].rom = r.rom /\ list[e].slot = r.slot
      BY <1>0, <2>1
         DEF SameRomAndSlot, SameNameAndSlot, SameText, FilesTellRoms
    <3> QED BY <3>1 DEF SameIdentity
  <2>3. \A q \in Rows : SameIdentity(q, b) => q.time > 0
    <3> SUFFICES ASSUME NEW q \in Rows, SameIdentity(q, b)
                 PROVE  q.time > 0
      OBVIOUS
    <3>1. SameIdentity(b, q)
      BY DEF SameIdentity
    <3> QED BY <3>1 DEF Owed, Dated
  <2>4. CASE Newer(list[e], r)
    <3> DEFINE new == [list EXCEPT ![e] = r]
    <3>1. Merge(list, r) = new
      BY <1>1, <1>2, <1>0, <2>4 DEF Merge
    <3>2. Len(new) = Len(list) /\ new[e] = r
          /\ \A i \in 1..Len(list) : i # e => new[i] = list[i]
      BY <2>1
    <3>3. SameIdentity(list[e], b) => r.time >= list[e].time
      BY <1>0, <2>1, <2>2, <2>3, <2>4 DEF Newer
    <3>4. Holds(list, b) => Holds(new, b)
      <4> SUFFICES ASSUME NEW i \in 1..Len(list), SameIdentity(list[i], b),
                          list[i].time >= b.time
                   PROVE  Holds(new, b)
        BY DEF Holds
      <4>1. CASE i = e
        <5>1. SameIdentity(new[e], b) /\ new[e].time >= b.time
          BY <1>0, <2>1, <2>2, <3>2, <3>3, <4>1
        <5> QED BY <2>1, <3>2, <5>1 DEF Holds
      <4>2. CASE i # e
        BY <3>2, <4>2 DEF Holds
      <4> QED BY <4>1, <4>2
    <3>5. Revises(r, b) => Holds(new, b)
      BY <2>1, <3>2 DEF Revises, Holds
    <3> HIDE DEF new
    <3> QED BY <3>1, <3>2, <3>4, <3>5, <1>0
  <2>5. CASE ~Newer(list[e], r)
    <3>1. Merge(list, r) = list
      BY <1>1, <1>2, <2>5 DEF Merge
    <3>2. Revises(r, b) => Holds(list, b)
      <4> SUFFICES ASSUME Revises(r, b) PROVE Holds(list, b)
        OBVIOUS
      <4>1. SameIdentity(list[e], b)
        BY <2>2 DEF Revises
      <4>2. list[e].time >= r.time
        BY <1>0, <2>1, <2>3, <2>5, <4>1 DEF Newer, Revises
      <4>3. list[e].time >= b.time
        BY <1>0, <2>1, <4>2 DEF Revises
      <4> QED BY <2>1, <4>1, <4>3 DEF Holds
    <3> QED BY <3>1, <3>2
  <2> QED BY <2>4, <2>5
<1>3. CASE r.id > 0 /\ e = NoMatch /\ Len(list) < MaxItems
  <2> DEFINE new == Append(list, r)
  <2>1. Merge(list, r) = new
    BY <1>3, <1>0 DEF Merge
  <2>2. /\ Len(new) = Len(list) + 1
        /\ \A i \in 1..Len(list) : new[i] = list[i]
        /\ new[Len(list) + 1] = r
    OBVIOUS
  <2>3. Holds(list, b) => Holds(new, b)
    <3> HIDE DEF new
    <3> QED BY <2>2 DEF Holds
  <2>4. Revises(r, b) => Holds(new, b)
    <3> HIDE DEF new
    <3> QED BY <2>2 DEF Holds, Revises
  <2> QED BY <2>1, <2>2, <2>3, <2>4
<1>4. CASE r.id > 0 /\ e = NoMatch /\ ~(Len(list) < MaxItems)
  <2>1. Merge(list, r) = list
    BY <1>4, <1>0 DEF Merge
  <2> QED BY <1>4, <2>1, SizesAssumption
<1> QED BY <1>0, <1>1, <1>2, <1>3, <1>4

LEMMA LatestInit == Init => LatestInv
<1> SUFFICES ASSUME Init PROVE LatestInv
  OBVIOUS
<1>1. Len(<<>>) = 0
  OBVIOUS
<1>2. NothingMissed
  BY <1>1 DEF Init, NothingMissed
<1>3. TotalIsStated
  BY DEF Init, TotalIsStated
<1> QED BY <1>2, <1>3 DEF LatestInv

\* A page holds the rows that were ahead, or there is another page to come.
LEMMA FetchReaches ==
  ASSUME TypeOK, TotalIsStated, FetchPage, NEW b \in Rows,
         Ahead(b, offset)
  PROVE  /\ phase' = "merging"
         /\ Arrives(b)' \/ (Continues /\ Ahead(b, Advance))'
<1> DEFINE m == Shorter(offset + PageLimit, Len(server))
<1>1. PICK p \in 1..Len(server) : p > offset /\ Revises(server[p], b)
  BY DEF Ahead
<1>2. /\ server \in Seq(Rows) /\ Len(server) \in Nat /\ offset \in Nat
      /\ PageLimit \in Nat \ {0} /\ p \in Nat
  BY SizesAssumption DEF TypeOK
<1>3. /\ m \in Nat /\ m <= offset + PageLimit /\ m <= Len(server)
      /\ m = offset + PageLimit \/ m = Len(server)
  BY <1>2 DEF Shorter
<1>4. m > offset
  BY <1>1, <1>2, <1>3
<1>5. page' = SubSeq(server, offset + 1, m)
  BY DEF FetchPage
<1> HIDE DEF m
<1>6. /\ Len(page') = m - offset
      /\ \A j \in 1..(m - offset) : page'[j] = server[offset + j]
  BY <1>2, <1>3, <1>4, <1>5
<1>7. page' # <<>>
  <2>1. Len(page') # 0
    BY <1>2, <1>3, <1>4, <1>6
  <2> QED BY <2>1
<1>8. phase' = "merging"
  BY <1>7 DEF FetchPage
<1>9. CASE p <= m
  <2>1. p - offset \in 1..(m - offset) /\ offset + (p - offset) = p
    BY <1>1, <1>2, <1>3, <1>9
  <2>2. page'[p - offset] = server[p] /\ p - offset \in 1..Len(page')
    BY <1>6, <2>1
  <2>3. Revises(page'[p - offset], b)
    BY <1>1, <2>2
  <2>4. Arrives(b)'
    BY <2>2, <2>3 DEF Arrives
  <2> QED BY <1>8, <2>4
<1>10. CASE p > m
  <2>1. m = offset + PageLimit /\ offset + PageLimit < Len(server)
    BY <1>1, <1>2, <1>3, <1>10
  <2>2. fetched' = PageLimit
    <3>1. m - offset = PageLimit
      BY <1>2, <2>1
    <3>2. fetched' = Len(page')
      BY DEF FetchPage
    <3> QED BY <1>6, <3>1, <3>2
  <2>3. total' = NoTotal \/ offset + PageLimit < total'
    <3>1. CASE ReportsTotal
      <4>1. total' = Len(server)
        BY <1>2, <2>1, <3>1 DEF FetchPage
      <4> QED BY <2>1, <4>1
    <3>2. CASE ~ReportsTotal
      BY <3>2 DEF FetchPage, TotalIsStated
    <3> QED BY <3>1, <3>2
  <2>4. offset' = offset /\ server' = server
    BY DEF FetchPage
  <2>5. Continues'
    BY <2>2, <2>3, <2>4 DEF Continues, Advance
  <2>6. Ahead(b, Advance)'
    BY <1>1, <1>10, <2>1, <2>4 DEF Ahead, Advance
  <2> QED BY <1>8, <2>5, <2>6
<1> QED BY <1>2, <1>3, <1>9, <1>10

\* A row that is added moves others to later places only; one that is
\* touched stays where it is, with a later date.
LEMMA ChangesKeepAhead ==
  ASSUME TypeOK, Add \/ Touch, NEW b \in Rows, NEW from \in Nat, Ahead(b, from)
  PROVE  Ahead(b, from)'
<1>1. PICK p \in 1..Len(server) : p > from /\ Revises(server[p], b)
  BY DEF Ahead
<1>2. server \in Seq(Rows) /\ Len(server) \in Nat /\ p \in Nat
  BY DEF TypeOK
<1>3. CASE Add
  <2>1. PICK r \in Rows, n \in 0..Len(server) :
          server' = SubSeq(server, 1, n) \o <<r>>
                      \o SubSeq(server, n + 1, Len(server))
    BY <1>3 DEF Add
  <2> DEFINE low == SubSeq(server, 1, n)
             high == SubSeq(server, n + 1, Len(server))
  <2>2. low \in Seq(Rows) /\ Len(low) = n
        /\ \A k \in 1..n : low[k] = server[k]
    BY <1>2
  <2>3. high \in Seq(Rows) /\ Len(high) = Len(server) - n
        /\ \A k \in 1..(Len(server) - n) : high[k] = server[n + k]
    BY <1>2
  <2>4. server' = low \o <<r>> \o high
    BY <2>1
  <2> HIDE DEF low, high
  <2>5. Len(server') = Len(server) + 1
    BY <1>2, <2>2, <2>3, <2>4
  <2>6. CASE p <= n
    <3>1. server'[p] = server[p]
      BY <1>2, <2>2, <2>3, <2>4, <2>6
    <3>2. p \in 1..Len(server')
      BY <1>2, <2>5
    <3> QED BY <1>1, <3>1, <3>2 DEF Ahead
  <2>7. CASE p > n
    <3>1. p + 1 \in 1..Len(server')
      BY <1>2, <2>5
    <3>2. server'[p + 1] = high[p - n]
      BY <1>2, <2>2, <2>3, <2>4, <2>7
    <3>3. high[p - n] = server[p]
      BY <1>2, <2>3, <2>7
    <3>4. p + 1 > from
      BY <1>1, <1>2
    <3>5. Revises(server'[p + 1], b)
      BY <1>1, <3>2, <3>3
    <3> QED BY <3>1, <3>4, <3>5 DEF Ahead
  <2> QED BY <1>2, <2>6, <2>7
<1>4. CASE Touch
  <2>1. PICK i \in 1..Len(server), r \in Rows :
          /\ r.time > server[i].time
          /\ r = [server[i] EXCEPT !.time = r.time]
          /\ server' = [server EXCEPT ![i] = r]
    BY <1>4 DEF Touch
  <2>2. Len(server') = Len(server) /\ server'[i] = r
        /\ \A k \in 1..Len(server) : k # i => server'[k] = server[k]
    BY <1>2, <2>1
  <2>3. r.id = server[i].id /\ r.rom = server[i].rom /\ r.slot = server[i].slot
        /\ server[i].time \in Nat /\ r.time \in Nat /\ b.time \in Nat
    <3>1. server[i] \in Rows
      BY <1>2
    <3> QED BY <2>1, <3>1, RowsAssumption
  <2>4. Revises(server'[p], b)
    <3>1. CASE p = i
      BY <1>1, <2>1, <2>2, <2>3, <3>1 DEF Revises, SameIdentity
    <3>2. CASE p # i
      BY <1>1, <2>2, <3>2
    <3> QED BY <3>1, <3>2
  <2> QED BY <1>1, <2>2, <2>4 DEF Ahead
<1> QED BY <1>3, <1>4

LEMMA LatestNext == TypeOK /\ LatestInv /\ [Next]_vars => LatestInv'
<1> SUFFICES ASSUME TypeOK, LatestInv, [Next]_vars PROVE LatestInv'
  OBVIOUS
<1>0. /\ NothingMissed /\ TotalIsStated
      /\ begun \in Seq(Rows) /\ Len(begun) \in Nat
      /\ offset \in Nat /\ Advance \in Nat
  BY SizesAssumption DEF LatestInv, TypeOK, Advance
\* Steps that keep what was there at first only have to keep each row reached.
<1>a. ASSUME begun' = begun, shrunk' = shrunk, cutShort' = cutShort,
             FilesTellRoms =>
               \A b \in Rows : Owed(b) /\ Reached(b) => Reached(b)'
      PROVE  NothingMissed'
  <2> SUFFICES ASSUME FilesTellRoms, ~shrunk, ~cutShort,
                      NEW n \in 1..Len(begun), Owed(begun[n])
               PROVE  Reached(begun[n])'
    BY <1>a DEF NothingMissed
  <2>1. begun[n] \in Rows /\ Reached(begun[n])
    BY <1>0 DEF NothingMissed
  <2>2. \A b \in Rows : Owed(b) /\ Reached(b) => Reached(b)'
    BY <1>a
  <2>3. begun'[n] = begun[n]
    BY <1>a
  <2> QED BY <2>1, <2>2, <2>3
<1>1. CASE Refuse \/ FetchFails
  <2>1. phase' = "failed" /\ begun' = begun /\ shrunk' = shrunk
        /\ cutShort' = cutShort /\ total' = total
    BY <1>1 DEF Refuse, FetchFails, history
  <2>2. \A b \in Rows : Reached(b)'
    BY <2>1 DEF Reached
  <2> QED BY <1>0, <1>a, <2>1, <2>2 DEF LatestInv, TotalIsStated
<1>2. CASE Begin
  <2>1. /\ phase' = "fetching" /\ begun' = server /\ server' = server
        /\ offset' = 0 /\ total' = NoTotal
    BY <1>0, <1>2 DEF Begin, TotalIsStated
  <2>2. ASSUME NEW n \in 1..Len(begun'), Owed(begun[n])'
        PROVE  Reached(begun[n])'
    <3> DEFINE b == server[n]
    <3>1. n \in 1..Len(server) /\ b \in Rows /\ b.time \in Nat
      <4>1. n \in 1..Len(server) /\ b \in Rows
        BY <2>1 DEF TypeOK
      <4> QED BY <4>1, RowsAssumption
    <3>2. Revises(b, b)
      BY <2>1, <2>2, <3>1 DEF Revises, SameIdentity, Owed
    <3>3. Ahead(b, offset)'
      BY <2>1, <3>1, <3>2 DEF Ahead
    <3>4. Reached(b)'
      BY <2>1, <3>3 DEF Reached
    <3> QED BY <2>1, <3>4
  <2>3. NothingMissed'
    BY <2>2 DEF NothingMissed
  <2> QED BY <2>1, <2>3 DEF LatestInv, TotalIsStated
<1>3. CASE FetchPage
  <2>1. /\ phase = "fetching" /\ phase' \in {"listed", "merging"}
        /\ items' = items /\ UNCHANGED history
        /\ ~ReportsTotal => total' = total
    BY <1>3 DEF FetchPage
  <2>2. ASSUME NEW b \in Rows, Reached(b) PROVE Reached(b)'
    <3>1. CASE Kept(b)
      BY <2>1, <3>1 DEF Reached, Kept
    <3>2. CASE Ahead(b, offset)
      BY <1>0, <1>3, <3>2, FetchReaches DEF Reached
    <3> QED BY <2>1, <2>2, <3>1, <3>2 DEF Reached
  <2>3. NothingMissed'
    BY <1>a, <2>1, <2>2 DEF history
  <2> QED BY <1>0, <2>1, <2>3 DEF LatestInv, TotalIsStated
<1>4. CASE FetchCutShort
  <2>1. cutShort' /\ total' = total /\ phase' = "listed"
    BY <1>4 DEF FetchCutShort
  <2> QED BY <1>0, <2>1 DEF LatestInv, NothingMissed, TotalIsStated
<1>5. CASE TakeRow
  <2>1. /\ phase = "merging" /\ phase' = "merging" /\ UNCHANGED history
        /\ total' = total /\ fetched' = fetched /\ offset' = offset
        /\ server' = server
    BY <1>5 DEF TakeRow
  <2>2. /\ items' = Merge(items, Head(page)) /\ page' = Tail(page)
        /\ page # <<>> /\ page \in Seq(Rows)
    BY <1>5 DEF TakeRow, TypeOK
  <2>3. /\ Head(page) = page[1] /\ page[1] \in Rows
        /\ Len(page') = Len(page) - 1 /\ Len(page) \in Nat
        /\ \A j \in 1..(Len(page) - 1) : page'[j] = page[j + 1]
    BY <2>2
  <2>4. ASSUME FilesTellRoms, NEW b \in Rows, Owed(b), Reached(b)
        PROVE  Reached(b)'
    <3>1. /\ Len(items') >= Len(items)
          /\ Holds(items, b) => Holds(items', b)
          /\ Revises(page[1], b) => Len(items') >= MaxItems \/ Holds(items', b)
      BY <2>2, <2>3, <2>4, MergeKeepsLatest DEF TypeOK
    <3>2. CASE Kept(b)
      <4>1. Kept(b)'
        <5>1. CASE Holds(items, b)
          BY <3>1, <5>1 DEF Kept
        <5>2. CASE Len(items) >= MaxItems
          <6>1. Len(items) \in Nat /\ MaxItems \in Nat
            BY SizesAssumption DEF TypeOK
          <6>2. items' \in Seq(Rows) \/ Len(items') >= MaxItems
            BY <3>1, <5>2, <6>1, <2>2 DEF Merge
          <6> QED BY <3>1, <5>2, <6>1, <6>2 DEF Kept
        <5> QED BY <3>2, <5>1, <5>2 DEF Kept
      <4> QED BY <2>1, <4>1 DEF Reached
    <3>3. CASE Arrives(b)
      <4>1. PICK j \in 1..Len(page) : Revises(page[j], b)
        BY <3>3 DEF Arrives
      <4>2. CASE j = 1
        BY <2>1, <3>1, <4>1, <4>2 DEF Reached, Kept
      <4>3. CASE j # 1
        <5>1. j - 1 \in 1..Len(page') /\ page'[j - 1] = page[j]
          BY <2>3, <4>3
        <5>2. Revises(page'[j - 1], b)
          BY <4>1, <5>1
        <5>3. Arrives(b)'
          BY <5>1, <5>2 DEF Arrives
        <5> QED BY <2>1, <5>3 DEF Reached
      <4> QED BY <4>2, <4>3
    <3>4. CASE Continues /\ Ahead(b, Advance)
      BY <2>1, <3>4 DEF Reached, Continues, Ahead, Advance
    <3> QED BY <2>1, <2>4, <3>2, <3>3, <3>4 DEF Reached
  <2>5. NothingMissed'
    BY <1>a, <2>1, <2>4 DEF history
  <2> QED BY <1>0, <2>1, <2>5 DEF LatestInv, TotalIsStated
<1>6. CASE PageDone
  <2>1. /\ phase = "merging" /\ page = <<>> /\ UNCHANGED history
        /\ total' = total /\ server' = server /\ items' = items
        /\ phase' \in {"listed", "fetching"}
    BY <1>6 DEF PageDone
  <2>2. ASSUME NEW b \in Rows, Reached(b) PROVE Reached(b)'
    <3>1. ~Arrives(b)
      BY <2>1 DEF Arrives
    <3>2. CASE Kept(b)
      BY <2>1, <3>2 DEF Reached, Kept
    <3>3. CASE ~Kept(b) /\ Continues /\ Ahead(b, Advance)
      <4>1. ~(Len(items) >= MaxItems) /\ fetched = PageLimit
        BY <3>3 DEF Kept, Continues
      <4>2. ~(fetched < PageLimit)
        BY <4>1, SizesAssumption
      <4>3. ~(total # NoTotal /\ Advance >= total)
        BY <1>0, <3>3 DEF Continues, TypeOK
      <4>4. phase' = "fetching" /\ offset' = Advance
        BY <1>6, <4>1, <4>2, <4>3 DEF PageDone
      <4>5. Ahead(b, offset)'
        BY <2>1, <3>3, <4>4 DEF Ahead
      <4> QED BY <4>4, <4>5 DEF Reached
    <3> QED BY <2>1, <2>2, <3>1, <3>2, <3>3 DEF Reached
  <2>3. NothingMissed'
    BY <1>a, <2>1, <2>2 DEF history
  <2> QED BY <1>0, <2>1, <2>3 DEF LatestInv, TotalIsStated
<1>7. CASE Add \/ Touch
  <2>1. /\ UNCHANGED <<listing, begun, shrunk, cutShort>>
        /\ phase \in {"fetching", "merging"}
    BY <1>7 DEF Add, Touch, Change
  <2>2. ASSUME NEW b \in Rows, Reached(b) PROVE Reached(b)'
    <3>1. \A from \in Nat : Ahead(b, from) => Ahead(b, from)'
      BY <1>7, ChangesKeepAhead
    <3>2. /\ Kept(b)' = Kept(b) /\ Arrives(b)' = Arrives(b)
          /\ Continues' = Continues /\ Advance' = Advance
          /\ phase' = phase /\ offset' = offset
      BY <2>1 DEF listing, Kept, Arrives, Continues, Advance
    <3>3. /\ Ahead(b, offset) => Ahead(b, offset)'
          /\ Ahead(b, Advance) => Ahead(b, Advance)'
      BY <1>0, <3>1, <3>2 DEF Ahead
    <3> QED BY <2>1, <2>2, <3>2, <3>3 DEF Reached
  <2>3. NothingMissed'
    BY <1>a, <2>1, <2>2
  <2> QED BY <1>0, <2>1, <2>3 DEF LatestInv, TotalIsStated, listing
<1>8. CASE Delete
  <2>1. shrunk' /\ UNCHANGED listing
    BY <1>8 DEF Delete, Change
  <2> QED BY <1>0, <2>1 DEF LatestInv, NothingMissed, TotalIsStated, listing
<1>9. CASE UNCHANGED vars
  BY <1>0, <1>9
     DEF vars, listing, history, LatestInv, NothingMissed, TotalIsStated,
         Reached, Kept, Arrives, Ahead, Continues, Advance
<1> QED BY <1>1, <1>2, <1>3, <1>4, <1>5, <1>6, <1>7, <1>8, <1>9 DEF Next

(***************************************************************************)
(* Whatever the number of pages and of rows, a listing under which no row  *)
(* was deleted and no page broke off has, of each save there at the start, *)
(* one of its ROM and slot that is not older.                              *)
(***************************************************************************)
THEOREM LatestIsKept == Spec => []ListingKeepsLatest
<1>1. TypeOK /\ LatestInv => ListingKeepsLatest
  <2> SUFFICES ASSUME TypeOK, LatestInv, Whole, FilesTellRoms,
                      NEW n \in 1..Len(begun), begun[n].id > 0,
                      begun[n].rom > 0, Dated(begun[n])
               PROVE  Holds(items, begun[n])
    BY DEF ListingKeepsLatest, Holds
  <2>1. Kept(begun[n])
    BY DEF LatestInv, NothingMissed, Whole, Owed, Reached
  <2>2. ~(Len(items) >= MaxItems)
    <3>1. Len(items) \in Nat /\ MaxItems \in Nat
      BY SizesAssumption DEF TypeOK
    <3> QED BY <3>1 DEF Whole
  <2> QED BY <2>1, <2>2 DEF Kept
<1> QED BY <1>1, LatestInit, LatestNext, TypeCorrect, PTL DEF Spec

-----------------------------------------------------------------------------
(***************************************************************************)
(* The search in the list: a save whose ROM is listed in its slot is found *)
(* by the first two rules, and there is only one row to find.              *)
(***************************************************************************)
LEMMA FoundByRom ==
  ASSUME NEW l, NEW list \in Seq(Rows), NEW i \in 1..Len(list),
         SameIdentity(l, list[i]), SlotIsKnown(l.slot)
  PROVE  LET m == FindRemoteIndex(l, list) IN
         /\ m \in 1..Len(list)
         /\ RomIdMatches(l, list[m])
         /\ SlotIsCompatible(l.slot, list[m].slot)
<1> DEFINE By(k) == {j \in 1..Len(list) : Rules(l, list[j])[k]}
           used  == {k \in 1..6 : By(k) # {}}
<1>1. /\ \A j : Rules(l, list[j])[1] <=>
              RomIdMatches(l, list[j]) /\ SameKnownSlot(l, list[j])
                /\ FilenameMatches(l, list[j])
      /\ \A j : Rules(l, list[j])[2] <=>
              RomIdMatches(l, list[j]) /\ SlotIsCompatible(l.slot, list[j].slot)
  BY DEF Rules
<1>2. i \in By(2)
  BY <1>1 DEF SameIdentity, RomIdMatches, SlotIsCompatible
<1>3. \A j \in By(1) \cup By(2) :
        RomIdMatches(l, list[j]) /\ SlotIsCompatible(l.slot, list[j].slot)
  BY <1>1 DEF SameKnownSlot, SlotIsCompatible
<1>4. used \in SUBSET Nat /\ 2 \in used
  BY <1>2
<1>5. \A k : By(k) \in SUBSET Nat /\ By(k) \subseteq 1..Len(list)
  OBVIOUS
<1>6. FindRemoteIndex(l, list) = First(By(First(used)))
  BY <1>4 DEF FindRemoteIndex
<1> HIDE DEF By
<1>7. First(used) \in used /\ First(used) <= 2
  <2> HIDE DEF used
  <2> QED BY <1>4, FirstIsLeast
<1>8. First(used) \in {1, 2} /\ By(First(used)) # {}
  <2>1. \A k \in used : k \in 1..6 /\ By(k) # {}
    OBVIOUS
  <2> HIDE DEF used
  <2> QED BY <1>7, <2>1
<1> HIDE DEF used
<1>9. First(By(First(used))) \in By(First(used))
  BY <1>5, <1>8, FirstIsLeast
<1> QED BY <1>3, <1>5, <1>6, <1>8, <1>9

(***************************************************************************)
(* A card whose ROM is known and has saves in its slot meets the latest of *)
(* them, or a save of no slot, and never another card's or game's.         *)
(***************************************************************************)
THEOREM LocalsMeetTheirLatest == Spec => []LocalMeetsItsLatest
<1>1. IInv /\ ListingKeepsLatest => LocalMeetsItsLatest
  <2> SUFFICES ASSUME IInv, ListingKeepsLatest, Whole, FilesTellRoms,
                      NEW l \in Locals, NEW n \in 1..Len(begun),
                      SameIdentity(l, begun[n]), SlotIsKnown(l.slot),
                      Dated(begun[n]), begun[n].id > 0
               PROVE  LET m == FindRemoteIndex(l, items) IN
                      /\ m # NoMatch
                      /\ items[m].rom = l.rom
                      /\ items[m].slot \in {l.slot, "unknown"}
                      /\ items[m].slot = l.slot =>
                           items[m].time >= begun[n].time
    BY DEF LocalMeetsItsLatest
  <2> DEFINE m == FindRemoteIndex(l, items)
  <2>1. PICK i \in 1..Len(items) : /\ SameIdentity(items[i], begun[n])
                                   /\ items[i].time >= begun[n].time
    BY DEF ListingKeepsLatest, SameIdentity
  <2>2. SameIdentity(l, items[i]) /\ items \in Seq(Rows)
    BY <2>1 DEF SameIdentity, IInv, TypeOK
  <2>3. /\ m \in 1..Len(items)
        /\ RomIdMatches(l, items[m])
        /\ SlotIsCompatible(l.slot, items[m].slot)
    BY <2>2, FoundByRom
  <2> HIDE DEF m
  <2>4. m # NoMatch /\ items[m].rom = l.rom
        /\ items[m].slot \in {l.slot, "unknown"}
    BY <2>3 DEF NoMatch, RomIdMatches, SlotIsCompatible, SlotIsKnown
  <2>5. items[m].slot = l.slot => m = i
    BY <2>1, <2>2, <2>3, <2>4 DEF SameIdentity, IInv, Distinct
  <2> QED BY <2>1, <2>4, <2>5 DEF m
<1> QED BY <1>1, Invariance, LatestIsKept, PTL

-----------------------------------------------------------------------------
(***************************************************************************)
(* How much the listing has before it: rows beyond a place, those included *)
(* that other devices may still add; for each such row at most a page; and *)
(* the rows of this page.                                                  *)
(***************************************************************************)
Beyond(place) ==
  LET n == Len(server) - place + MaxChanges - changes
  IN  IF n > 0 THEN n ELSE 0

PagesCost(n) == n * (PageLimit + 3)

ListingLeft ==
  IF phase = "fetching" THEN PagesCost(Beyond(offset)) + 1
  ELSE IF phase = "merging"
       THEN PagesCost(Beyond(offset + PageLimit)) + Len(page) + 2
       ELSE 0

UnderWay == phase \in {"fetching", "merging"}

Nearer == ListingLeft' < ListingLeft

\* Another device changes the server, and the listing has no more before it.
NoFurther ==
  /\ UNCHANGED listing
  /\ changes' = changes + 1
  /\ ListingLeft' <= ListingLeft

\* Every step of the listing brings it nearer its end, and no change of
\* another device takes it further away: with or without a total, with a total
\* that grows, with rows that shift from page to page, and whatever is kept of
\* them, it ends.
ListingAdvances ==
  [][UnderWay => Nearer \/ NoFurther]_vars

LEMMA CostGrows ==
  ASSUME NEW m \in Nat, NEW n \in Nat
  PROVE  /\ PagesCost(n) \in Nat
         /\ m <= n => PagesCost(m) <= PagesCost(n)
         /\ m < n => PagesCost(m) + PageLimit + 3 <= PagesCost(n)
<1>0. PageLimit \in Nat
  BY SizesAssumption
<1>1. \A k \in Nat : k * (PageLimit + 3) \in Nat
  BY <1>0
<1>2. ASSUME m <= n
      PROVE  m * (PageLimit + 3) <= n * (PageLimit + 3)
  <2>1. (n - m) * (PageLimit + 3) \in Nat
    BY <1>1, <1>2
  <2>2. n * (PageLimit + 3)
          = m * (PageLimit + 3) + (n - m) * (PageLimit + 3)
    BY <1>0
  <2>3. QED BY <1>0, <1>1, <2>1, <2>2
<1>3. ASSUME m < n
      PROVE  m * (PageLimit + 3) + PageLimit + 3 <= n * (PageLimit + 3)
  <2>1. (n - m - 1) * (PageLimit + 3) \in Nat
    BY <1>1, <1>3
  <2>2. n * (PageLimit + 3) = m * (PageLimit + 3)
          + (n - m - 1) * (PageLimit + 3) + PageLimit + 3
    BY <1>0
  <2>3. QED BY <1>0, <1>1, <2>1, <2>2
<1>4. QED BY <1>1, <1>2, <1>3 DEF PagesCost

\* A change adds at most the one row that was counted before.
LEMMA ChangesAddAtMostOne ==
  ASSUME TypeOK, Add \/ Touch \/ Delete
  PROVE  /\ Len(server) \in Nat /\ Len(server') \in Nat
         /\ Len(server') <= Len(server) + 1
<1>1. server \in Seq(Rows) /\ Len(server) \in Nat
  BY DEF TypeOK
<1>2. CASE Add
  <2>1. PICK r \in Rows, n \in 0..Len(server) :
          server' = SubSeq(server, 1, n) \o <<r>>
                      \o SubSeq(server, n + 1, Len(server))
    BY <1>2 DEF Add
  <2> DEFINE low == SubSeq(server, 1, n)
             high == SubSeq(server, n + 1, Len(server))
  <2>2. low \in Seq(Rows) /\ Len(low) = n
    BY <1>1
  <2>3. high \in Seq(Rows) /\ Len(high) = Len(server) - n
    BY <1>1
  <2>4. server' = low \o <<r>> \o high
    BY <2>1
  <2> HIDE DEF low, high
  <2>5. QED BY <1>1, <2>2, <2>3, <2>4
<1>3. CASE Touch
  BY <1>1, <1>3 DEF Touch
<1>4. CASE Delete
  <2>1. PICK n \in 1..Len(server) :
          server' = SubSeq(server, 1, n - 1)
                      \o SubSeq(server, n + 1, Len(server))
    BY <1>4 DEF Delete
  <2> DEFINE low == SubSeq(server, 1, n - 1)
             high == SubSeq(server, n + 1, Len(server))
  <2>2. low \in Seq(Rows) /\ Len(low) = n - 1
    BY <1>1
  <2>3. high \in Seq(Rows) /\ Len(high) = Len(server) - n
    BY <1>1
  <2>4. server' = low \o high
    BY <2>1
  <2> HIDE DEF low, high
  <2>5. QED BY <1>1, <2>2, <2>3, <2>4
<1>5. QED BY <1>2, <1>3, <1>4

\* A page that is not empty is one whose first row was beyond the offset.
LEMMA FullPagesTakeRows ==
  ASSUME TypeOK, FetchPage, phase' = "merging"
  PROVE  /\ Len(page') \in 1..PageLimit
         /\ offset < Len(server)
<1> DEFINE m == Shorter(offset + PageLimit, Len(server))
<1>1. /\ server \in Seq(Rows) /\ Len(server) \in Nat /\ offset \in Nat
      /\ PageLimit \in Nat \ {0}
  BY SizesAssumption DEF TypeOK
<1>2. m \in Nat /\ m <= offset + PageLimit /\ m <= Len(server)
  BY <1>1 DEF Shorter
<1>3. page' = SubSeq(server, offset + 1, m)
  BY DEF FetchPage
<1> HIDE DEF m
<1>4. page' # <<>>
  BY DEF FetchPage
<1>5. page' \in Seq(Rows)
        /\ Len(page') = IF offset + 1 <= m THEN m - offset ELSE 0
  BY <1>1, <1>2, <1>3
<1>6. Len(page') # 0
  BY <1>4, <1>5
<1>7. QED BY <1>1, <1>2, <1>5, <1>6

LEMMA StepsAdvance ==
  ASSUME IInv, Next, UnderWay
  PROVE  Nearer \/ NoFurther
<1> DEFINE here == Beyond(offset)
           next == Beyond(offset + PageLimit)
<1>0. /\ Len(server) \in Nat /\ offset \in Nat /\ changes \in Nat
      /\ changes <= MaxChanges /\ MaxChanges \in Nat /\ Len(page) \in Nat
      /\ PageLimit \in Nat /\ PageLimit > 0
  BY SizesAssumption, BoundsAssumption DEF IInv, TypeOK
<1>1. here \in Nat /\ next \in Nat
  BY <1>0 DEF Beyond
<1>2. PagesCost(here) \in Nat /\ PagesCost(next) \in Nat
  BY <1>1, CostGrows
<1>3. /\ phase = "fetching" => ListingLeft = PagesCost(here) + 1
      /\ phase = "merging" => ListingLeft = PagesCost(next) + Len(page) + 2
  BY DEF ListingLeft
<1>4. CASE Add \/ Touch \/ Delete
  <2>1. UNCHANGED listing /\ changes' = changes + 1 /\ UNCHANGED phase
          /\ UNCHANGED offset /\ UNCHANGED page
    BY <1>4 DEF Add, Touch, Delete, Change, listing
  <2>2. Len(server') \in Nat /\ Len(server') <= Len(server) + 1
    BY <1>4, ChangesAddAtMostOne DEF IInv
  <2>3. /\ here' \in Nat /\ here' <= here
        /\ next' \in Nat /\ next' <= next
    BY <1>0, <2>1, <2>2 DEF Beyond
  <2>4. /\ PagesCost(here') \in Nat /\ PagesCost(here') <= PagesCost(here)
        /\ PagesCost(next') \in Nat /\ PagesCost(next') <= PagesCost(next)
    BY <1>1, <2>3, CostGrows
  <2>5. /\ phase = "fetching" => ListingLeft' = PagesCost(here') + 1
        /\ phase = "merging" => ListingLeft' = PagesCost(next') + Len(page) + 2
    BY <2>1 DEF ListingLeft
  <2> HIDE DEF here, next
  <2>6. ListingLeft' <= ListingLeft
    BY <1>0, <1>2, <1>3, <2>4, <2>5 DEF UnderWay
  <2>7. QED BY <2>1, <2>6 DEF NoFurther
<1>5. CASE phase' \in {"listed", "failed"}
  <2>1. ListingLeft' = 0
    BY <1>5 DEF ListingLeft
  <2> HIDE DEF here, next
  <2>2. QED BY <1>0, <1>2, <1>3, <2>1 DEF Nearer, UnderWay
<1>6. CASE FetchPage /\ phase' = "merging"
  <2>1. Len(page') \in 1..PageLimit /\ offset < Len(server)
    BY <1>6, FullPagesTakeRows DEF IInv
  <2>2. next < here
    BY <1>0, <2>1 DEF Beyond
  <2>3. PagesCost(next) + PageLimit + 3 <= PagesCost(here)
    BY <1>1, <2>2, CostGrows
  <2>4. next' = next /\ phase = "fetching"
    BY <1>6 DEF FetchPage, Beyond, history
  <2>5. ListingLeft' = PagesCost(next) + Len(page') + 2
    BY <1>6, <2>4 DEF ListingLeft
  <2> HIDE DEF here, next
  <2>6. QED BY <1>0, <1>2, <1>3, <2>1, <2>3, <2>4, <2>5 DEF Nearer
<1>7. CASE TakeRow
  <2>1. phase = "merging" /\ phase' = "merging" /\ next' = next
    BY <1>7 DEF TakeRow, Beyond, history
  <2>2. Len(page') \in Nat /\ Len(page') < Len(page)
    BY <1>7 DEF TakeRow, IInv, TypeOK
  <2>3. ListingLeft' = PagesCost(next) + Len(page') + 2
    BY <2>1 DEF ListingLeft
  <2> HIDE DEF here, next
  <2>4. QED BY <1>0, <1>2, <1>3, <2>1, <2>2, <2>3 DEF Nearer
<1>8. CASE PageDone /\ phase' = "fetching"
  <2>1. phase = "merging" /\ here' = next
    BY <1>0, <1>8 DEF PageDone, Advance, Beyond, history
  <2>2. ListingLeft' = PagesCost(next) + 1
    BY <1>8, <2>1 DEF ListingLeft
  <2> HIDE DEF here, next
  <2>3. QED BY <1>0, <1>2, <1>3, <2>1, <2>2 DEF Nearer
<1>9. QED
  BY <1>4, <1>5, <1>6, <1>7, <1>8
  DEF UnderWay, Next, Refuse, Begin, FetchPage, FetchCutShort, FetchFails,
    PageDone

\* For every page size, capacity, server and sequence of changes.
THEOREM ListingAlwaysAdvances == Spec => ListingAdvances
<1>1. IInv /\ [Next]_vars =>
        [UnderWay => Nearer \/ NoFurther]_vars
  BY StepsAdvance
<1>2. QED BY <1>1, Invariance, PTL DEF Spec, ListingAdvances

=============================================================================
