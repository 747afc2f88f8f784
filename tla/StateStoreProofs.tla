-------------------------- MODULE StateStoreProofs --------------------------
(***************************************************************************)
(* Theorems about StateStore, for any sets of names and any capacity.      *)
(*                                                                         *)
(* The two orderings of the array support each other: an upsert that names *)
(* no slot replaces the first entry of its file, and it is only because an *)
(* unknown-slot entry, if there is one, comes first that no second entry   *)
(* of the same key arises.  They are proved together, with the type        *)
(* invariant, as one inductive invariant.                                  *)
(***************************************************************************)
EXTENDS StateStore, SearchProofs, SequenceTheorems, FiniteSetTheorems, TLAPS

\* Games and files have names, so only an unknown slot acts as a wildcard.
LEMMA MatchOfEntries ==
  ASSUME NEW f \in Entry, NEW g \in Games, NEW n \in Files, NEW sl \in SyncSlot
  PROVE  EntryKeyMatches(f, g, n, sl)
           <=> f.game = g /\ f.file = n /\ (sl = "unknown" \/ f.slot = sl)
BY NamesAssumption DEF EntryKeyMatches, SlotKeyMatches, HasText, Entry

\* What sync_state_store_find returns: nothing, or the first match.
LEMMA FindIndexFinds ==
  ASSUME NEW s \in Seq(Entry), NEW g \in Games, NEW n \in Files,
         NEW sl \in SyncSlot
  PROVE  LET i == FindIndex(s, g, n, sl) IN
         \/ /\ i = NotFound
            /\ \A j \in 1..Len(s) : ~EntryKeyMatches(s[j], g, n, sl)
         \/ /\ i \in 1..Len(s)
            /\ EntryKeyMatches(s[i], g, n, sl)
            /\ \A j \in 1..Len(s) : EntryKeyMatches(s[j], g, n, sl) => i <= j
<1> DEFINE M == Matching(s, g, n, sl)
<1>1. M \in SUBSET Nat
  BY DEF Matching
<1>2. CASE M = {}
  BY <1>2 DEF FindIndex, Matching
<1>3. CASE M # {}
  <2>1. FindIndex(s, g, n, sl) = First(M)
    BY <1>3 DEF FindIndex
  <2>2. First(M) \in M /\ \A j \in M : First(M) <= j
    <3> HIDE DEF M
    <3> QED BY <1>1, <1>3, FirstIsLeast
  <2>3. QED BY <2>1, <2>2 DEF Matching
<1>4. QED BY <1>2, <1>3

\* The three outcomes of an upsert, in terms of the indexes of the array.
LEMMA UpsertOutcomes ==
  ASSUME NEW s \in Seq(Entry), Len(s) <= MaxEntries, NEW e \in Entry
  PROVE  LET t == Upsert(s, e)
             i == FindIndex(s, e.game, e.file, e.slot) IN
         /\ t \in Seq(Entry)
         /\ Len(t) <= MaxEntries
         /\ \/ /\ i \in 1..Len(s)
               /\ Len(t) = Len(s)
               /\ \A j \in 1..Len(s) : t[j] = IF j = i THEN e ELSE s[j]
            \/ i = NotFound /\ Full(s) /\ t = s
            \/ /\ i = NotFound
               /\ ~Full(s)
               /\ Len(t) = Len(s) + 1
               /\ \A j \in 1..Len(s) : t[j] = s[j]
               /\ t[Len(s) + 1] = e
<1> DEFINE i == FindIndex(s, e.game, e.file, e.slot)
<1>0. e.game \in Games /\ e.file \in Files /\ e.slot \in SyncSlot
  BY DEF Entry
<1>1. i = NotFound \/ i \in 1..Len(s)
  BY <1>0, FindIndexFinds
<1>2. CASE i # NotFound
  <2>1. Upsert(s, e) = [s EXCEPT ![i] = e]
    BY <1>2 DEF Upsert
  <2>2. QED
    <3> HIDE DEF i
    <3> QED BY <1>1, <1>2, <2>1, ExceptSeq DEF i
<1>3. CASE i = NotFound /\ Full(s)
  BY <1>3 DEF Upsert
<1>4. CASE i = NotFound /\ ~Full(s)
  <2>1. Upsert(s, e) = Append(s, e)
    BY <1>4 DEF Upsert
  <2>2. Len(s) \in Nat /\ MaxEntries \in Nat /\ Len(s) < MaxEntries
    BY <1>4, CapacityAssumption, LenProperties DEF Full
  <2>3. QED
    <3> HIDE DEF i
    <3> QED BY <1>4, <2>1, <2>2, AppendProperties DEF i
<1>5. QED BY <1>2, <1>3, <1>4

Ordered(s) == KeysUnique(s) /\ UnknownSlotFirst(s)

\* An upsert keeps the array ordered.
LEMMA UpsertKeepsOrder ==
  ASSUME NEW s \in Seq(Entry), Len(s) <= MaxEntries, NEW e \in Entry,
         Ordered(s)
  PROVE  Ordered(Upsert(s, e))
<1> DEFINE t == Upsert(s, e)
           i == FindIndex(s, e.game, e.file, e.slot)
<1>1. e.game \in Games /\ e.file \in Files /\ e.slot \in SyncSlot
  BY DEF Entry
<1>2. Len(s) \in Nat /\ \A j \in 1..Len(s) : s[j] \in Entry
  BY LenProperties, ElementOfSeq
<1>3. \A j \in 1..Len(s) :
         EntryKeyMatches(s[j], e.game, e.file, e.slot)
           <=> /\ s[j].game = e.game
               /\ s[j].file = e.file
               /\ e.slot = "unknown" \/ s[j].slot = e.slot
  BY <1>1, <1>2, MatchOfEntries
<1>4. \/ /\ i = NotFound
         /\ \A j \in 1..Len(s) :
              ~EntryKeyMatches(s[j], e.game, e.file, e.slot)
      \/ /\ i \in 1..Len(s)
         /\ EntryKeyMatches(s[i], e.game, e.file, e.slot)
         /\ \A j \in 1..Len(s) :
              EntryKeyMatches(s[j], e.game, e.file, e.slot) => i <= j
  BY <1>1, FindIndexFinds
<1>5. \/ /\ i \in 1..Len(s)
         /\ Len(t) = Len(s)
         /\ \A j \in 1..Len(s) : t[j] = IF j = i THEN e ELSE s[j]
      \/ i = NotFound /\ t = s
      \/ /\ i = NotFound
         /\ Len(t) = Len(s) + 1
         /\ \A j \in 1..Len(s) : t[j] = s[j]
         /\ t[Len(s) + 1] = e
  BY UpsertOutcomes
<1>6. /\ \A j, k \in 1..Len(s) :
           /\ s[j].game = s[k].game
           /\ s[j].file = s[k].file
           /\ s[j].slot = s[k].slot
           => j = k
      /\ \A j, k \in 1..Len(s) :
           /\ s[j].game = s[k].game
           /\ s[j].file = s[k].file
           /\ s[j].slot = "unknown"
           => j <= k
  BY DEF Ordered, KeysUnique, UnknownSlotFirst, KeyOf
<1> HIDE DEF t, i
<1>7. SUFFICES ASSUME NEW j \in 1..Len(t), NEW k \in 1..Len(t),
                      t[j].game = t[k].game, t[j].file = t[k].file
               PROVE  /\ t[j].slot = t[k].slot => j = k
                      /\ t[j].slot = "unknown" => j <= k
  BY DEF Ordered, KeysUnique, UnknownSlotFirst, KeyOf, t
<1>8. CASE i \in 1..Len(s)
  BY <1>2, <1>3, <1>4, <1>5, <1>6, <1>7, <1>8 DEF NotFound
<1>9. CASE i = NotFound
  BY <1>2, <1>3, <1>4, <1>5, <1>6, <1>7, <1>9 DEF NotFound
<1>10. QED BY <1>4, <1>8, <1>9

\* A cut file holds the keys of its first entries, in their order.
LEMMA CutIsPrefix ==
  ASSUME NEW s \in Seq(Entry), NEW n \in 0..Len(s), NEW u \in Uploads
  PROVE  /\ CutAfter(s, n, u) \in Seq(Entry)
         /\ Len(CutAfter(s, n, u)) = n
         /\ \A i \in 1..n :
              /\ CutAfter(s, n, u)[i].game = s[i].game
              /\ CutAfter(s, n, u)[i].file = s[i].file
              /\ CutAfter(s, n, u)[i].slot = s[i].slot
              /\ CutAfter(s, n, u)[i].stamp = s[i].stamp
<1> DEFINE t == CutAfter(s, n, u)
<1>1. n \in Nat /\ \A i \in 1..n : s[i] \in Entry
  BY LenProperties, ElementOfSeq
<1>2. t \in [1..n -> Entry]
  BY <1>1 DEF CutAfter, Entry
<1>3. \A i \in 1..n : /\ t[i].game = s[i].game /\ t[i].file = s[i].file
                      /\ t[i].slot = s[i].slot /\ t[i].stamp = s[i].stamp
  BY <1>1 DEF CutAfter, Entry
<1> HIDE DEF t
<1>4. t \in Seq(Entry)
  BY <1>1, <1>2, SeqDef
<1>5. Len(t) = n
  BY <1>1, <1>2, <1>4, LenProperties
<1>6. QED BY <1>3, <1>4, <1>5 DEF t

-----------------------------------------------------------------------------
(***************************************************************************)
(* The inductive invariant.                                                *)
(***************************************************************************)
\* Every entry of s carries, for its key, a stamp of the set w.
Genuine(s, w) == \A i \in 1..Len(s) : <<KeyOf(s[i]), s[i].stamp>> \in w

IInv ==
  /\ TypeOK
  /\ Ordered(store)
  /\ Ordered(image.entries)
  /\ Genuine(image.entries, written)
  /\ phase = "saving" => Genuine(store, written)

\* Whatever an interrupted save leaves is a well-formed image whose entries
\* are ordered and genuine when the saved array is.
LEMMA TornImagesSound ==
  ASSUME NEW s \in Seq(Entry), Len(s) <= MaxEntries, Ordered(s),
         NEW w, Genuine(s, w), NEW im \in TornImages(s)
  PROVE  /\ im \in Image
         /\ Len(im.entries) <= MaxEntries
         /\ Ordered(im.entries)
         /\ Genuine(im.entries, w)
<1>1. Len(s) \in Nat /\ MaxEntries \in Nat
  BY LenProperties, CapacityAssumption
<1>2. CASE im \in {EmptyFile, [EmptyFile EXCEPT !.header = "torn"]}
  <2>1. /\ im.exists \in BOOLEAN
        /\ im \in Image
        /\ im.entries = << >>
    BY <1>2, EmptySeq DEF EmptyFile, NoFile, Image
  <2>2. Len(im.entries) = 0
    BY <2>1, EmptySeq
  <2>3. QED
    BY <1>1, <2>1, <2>2 DEF Ordered, Genuine, KeysUnique, UnknownSlotFirst
<1>3. ASSUME NEW n \in 0..Len(s), NEW u \in Uploads, NEW t \in {"none", "bad"},
             im = [WholeFile(CutAfter(s, n, u)) EXCEPT !.tail = t]
      PROVE  /\ im \in Image
             /\ Len(im.entries) <= MaxEntries
             /\ Ordered(im.entries)
             /\ Genuine(im.entries, w)
  <2> DEFINE c == CutAfter(s, n, u)
  <2>1. /\ c \in Seq(Entry)
        /\ Len(c) = n
        /\ \A i \in 1..n :
             /\ c[i].game = s[i].game
             /\ c[i].file = s[i].file
             /\ c[i].slot = s[i].slot
             /\ c[i].stamp = s[i].stamp
    BY CutIsPrefix
  <2> HIDE DEF c
  <2>2. im = [exists |-> TRUE, header |-> "whole", entries |-> c, tail |-> t]
    BY <1>3 DEF WholeFile, c
  <2>3. im \in Image /\ im.entries = c /\ Len(im.entries) <= MaxEntries
    BY <1>1, <2>1, <2>2 DEF Image
  <2>4. Ordered(c)
    BY <1>1, <2>1 DEF Ordered, KeysUnique, UnknownSlotFirst, KeyOf
  <2>5. Genuine(c, w)
    BY <1>1, <2>1 DEF Genuine, KeyOf
  <2>6. QED BY <2>3, <2>4, <2>5
<1>4. QED BY <1>2, <1>3 DEF TornImages

LEMMA EmptyIsOrdered ==
  /\ << >> \in Seq(Entry)
  /\ Len(<< >>) = 0
  /\ Ordered(<< >>)
  /\ \A w : Genuine(<< >>, w)
<1>1. << >> \in Seq(Entry) /\ Len(<< >>) = 0
  BY EmptySeq
<1>2. QED BY <1>1 DEF Ordered, KeysUnique, UnknownSlotFirst, Genuine

LEMMA InitIInv == Init => IInv
<1> SUFFICES ASSUME Init PROVE IInv
  OBVIOUS
<1>1. MaxEntries \in Nat
  BY CapacityAssumption
<1>2. image \in Image /\ image.entries = << >> /\ store = << >>
  BY EmptyIsOrdered DEF Init, NoFile, Image
<1>3. TypeOK
  BY <1>1, <1>2, EmptyIsOrdered DEF Init, TypeOK, Phases, Statuses
<1>4. QED BY <1>2, <1>3, EmptyIsOrdered DEF Init, IInv

LEMMA NextIInv == IInv /\ [Next]_vars => IInv'
<1> SUFFICES ASSUME IInv, [Next]_vars PROVE IInv'
  OBVIOUS
<1>0. /\ store \in Seq(Entry) /\ Len(store) \in Nat
      /\ Len(store) <= MaxEntries /\ MaxEntries \in Nat
      /\ image \in Image
  BY LenProperties, CapacityAssumption DEF IInv, TypeOK
<1>1. CASE Load
  <2>1. LoadStatus \in Statuses
    BY DEF LoadStatus, Statuses
  <2>2. image.entries \in Seq(Entry)
    BY <1>0 DEF Image
  <2>3. CASE LoadStatus = "ok"
    BY <1>1, <2>1, <2>2, <2>3 DEF IInv, TypeOK, Load, Phases
  <2>4. CASE LoadStatus # "ok"
    BY <1>1, <2>1, <2>4 DEF IInv, TypeOK, Load
  <2>5. QED BY <2>3, <2>4
<1>2. CASE LoadFails
  BY <1>0, <1>2 DEF IInv, TypeOK, LoadFails, Statuses
<1>3. ASSUME NEW e \in Entry, Put(e) PROVE IInv'
  <2>1. store' \in Seq(Entry) /\ Len(store') <= MaxEntries
    BY <1>0, <1>3, UpsertOutcomes DEF Put
  <2>2. Ordered(store')
    BY <1>0, <1>3, UpsertKeepsOrder DEF Put, IInv
  <2>3. QED BY <1>3, <2>1, <2>2 DEF IInv, TypeOK, Put, Statuses
<1>4. CASE Close
  BY <1>0, <1>4, EmptyIsOrdered DEF IInv, TypeOK, Close, Phases
<1>5. CASE SaveCannotOpen
  BY <1>0, <1>5, EmptyIsOrdered
     DEF IInv, TypeOK, SaveCannotOpen, Phases, Statuses
<1>6. CASE SaveBegin
  <2> DEFINE new == {<<KeyOf(store[i]), store[i].stamp>> : i \in 1..Len(store)}
  <2>1. image' \in Image /\ image'.entries = << >>
    BY <1>6, EmptyIsOrdered DEF SaveBegin, EmptyFile, NoFile, Image
  <2>2. new \subseteq (Games \X Files \X SyncSlot) \X Stamps
    <3>1. \A i \in 1..Len(store) : store[i] \in Entry
      BY <1>0, ElementOfSeq
    <3>2. QED BY <3>1 DEF Entry, KeyOf
  <2>3. Genuine(store, new)
    BY DEF Genuine
  <2>4. /\ written' = written \cup new /\ phase' = "saving"
        /\ store' = store /\ status' = status
    BY <1>6 DEF SaveBegin
  <2>5. Genuine(store', written')
    BY <2>3, <2>4 DEF Genuine
  <2>6. TypeOK'
    <3> HIDE DEF new
    <3> QED BY <1>0, <2>1, <2>2, <2>4, EmptyIsOrdered DEF IInv, TypeOK, Phases
  <2>7. Ordered(store') /\ Ordered(image'.entries)
        /\ Genuine(image'.entries, written')
    BY <2>1, <2>4, EmptyIsOrdered DEF IInv
  <2>8. QED BY <2>5, <2>6, <2>7 DEF IInv
<1>7. CASE SaveEnd
  <2>1. /\ image' = WholeFile(store)
        /\ image'.entries = store
        /\ image' \in Image
    BY <1>0, <1>7 DEF SaveEnd, WholeFile, Image
  <2>2. QED
    BY <1>0, <1>7, <2>1, EmptyIsOrdered
       DEF IInv, TypeOK, SaveEnd, Phases, Statuses
<1>8. ASSUME phase = "saving", image' \in TornImages(store)
      PROVE  /\ image' \in Image
             /\ Len(image'.entries) <= MaxEntries
             /\ Ordered(image'.entries)
             /\ Genuine(image'.entries, written)
  BY <1>0, <1>8, TornImagesSound DEF IInv
<1>9. CASE SaveFails
  BY <1>0, <1>8, <1>9, EmptyIsOrdered
     DEF IInv, TypeOK, SaveFails, Phases, Statuses
<1>10. CASE Crash
  <2>1. CASE phase = "saving"
    BY <1>0, <1>8, <1>10, <2>1, EmptyIsOrdered DEF IInv, TypeOK, Crash, Phases
  <2>2. CASE phase # "saving"
    BY <1>0, <1>10, <2>2, EmptyIsOrdered DEF IInv, TypeOK, Crash, Phases
  <2>3. QED BY <2>1, <2>2
<1>11. CASE UNCHANGED vars
  BY <1>11 DEF vars, IInv, TypeOK, Ordered, KeysUnique, UnknownSlotFirst,
               Genuine, KeyOf
<1>12. QED
  BY <1>1, <1>2, <1>3, <1>4, <1>5, <1>6, <1>7, <1>9, <1>10, <1>11 DEF Next

(***************************************************************************)
(* No run, crash or cut save makes the array or the file ill-typed, longer *)
(* than its capacity, ambiguous, or badly ordered.                         *)
(***************************************************************************)
THEOREM Invariance == Spec => []IInv
BY InitIInv, NextIInv, PTL DEF Spec

\* The array and the file keep their shape, and never outgrow the capacity.
THEOREM TypeCorrect == Spec => []TypeOK
<1>1. IInv => TypeOK
  BY DEF IInv
<1>2. QED BY <1>1, Invariance, PTL

\* One key never has two entries, in memory or in the file.
THEOREM KeysStayUnique == Spec => []StoreKeysUnique
<1>1. IInv => StoreKeysUnique
  BY DEF IInv, Ordered, StoreKeysUnique
<1>2. QED BY <1>1, Invariance, PTL

\* An unknown-slot entry stays ahead of the other entries of its file.
THEOREM UnknownSlotStaysFirst == Spec => []StoreUnknownSlotFirst
<1>1. IInv => StoreUnknownSlotFirst
  BY DEF IInv, Ordered, StoreUnknownSlotFirst
<1>2. QED BY <1>1, Invariance, PTL

\* Whatever a save, whole or cut, leaves in the file was really recorded.
THEOREM LoadedStaysGenuine == Spec => []LoadedIsGenuine
<1>1. IInv => LoadedIsGenuine
  BY DEF IInv, Genuine, LoadedIsGenuine
<1>2. QED BY <1>1, Invariance, PTL

-----------------------------------------------------------------------------
(***************************************************************************)
(* What an upsert does to later searches.                                  *)
(***************************************************************************)
\* A search is determined by the entries it matches.
LEMMA SameMatchSameBound ==
  ASSUME NEW s, NEW t, NEW g, NEW n, NEW sl,
         Matching(s, g, n, sl) = Matching(t, g, n, sl),
         \A j \in Matching(s, g, n, sl) : s[j] = t[j],
         Matching(s, g, n, sl) \in SUBSET Nat
  PROVE  Bound(s, g, n, sl) = Bound(t, g, n, sl)
<1> DEFINE M == Matching(s, g, n, sl)
<1>1. CASE M = {}
  BY <1>1 DEF Bound, FindIndex
<1>2. CASE M # {}
  <2>1. First(M) \in M
    <3> HIDE DEF M
    <3> QED BY <1>2, FirstIsLeast DEF M
  <2>2. FindIndex(s, g, n, sl) = First(M) /\ FindIndex(t, g, n, sl) = First(M)
    BY <1>2 DEF FindIndex
  <2>3. s[First(M)] = t[First(M)]
    BY <2>1
  <2>4. QED BY <2>2, <2>3 DEF Bound
<1>3. QED BY <1>1, <1>2

\* A successful upsert is what the next search for its key returns.
LEMMA UpsertIsFound ==
  ASSUME NEW s \in Seq(Entry), Len(s) <= MaxEntries, NEW e \in Entry,
         ~UpsertFails(s, e)
  PROVE  LET k == FindIndex(Upsert(s, e), e.game, e.file, e.slot)
         IN  k # NotFound /\ Upsert(s, e)[k] = e
<1> DEFINE t == Upsert(s, e)
           i == FindIndex(s, e.game, e.file, e.slot)
           k == FindIndex(t, e.game, e.file, e.slot)
           Hit(f) == EntryKeyMatches(f, e.game, e.file, e.slot)
<1>1. e.game \in Games /\ e.file \in Files /\ e.slot \in SyncSlot
  BY DEF Entry
<1>2. t \in Seq(Entry) /\ Len(s) \in Nat /\ Len(t) \in Nat
  BY UpsertOutcomes, LenProperties
<1>3. Hit(e)
  BY <1>1, MatchOfEntries
<1>4. \/ /\ i = NotFound
         /\ \A j \in 1..Len(s) : ~Hit(s[j])
      \/ /\ i \in 1..Len(s)
         /\ \A j \in 1..Len(s) : Hit(s[j]) => i <= j
  BY <1>1, FindIndexFinds
<1>5. \/ /\ i \in 1..Len(s)
         /\ Len(t) = Len(s)
         /\ \A j \in 1..Len(s) : t[j] = IF j = i THEN e ELSE s[j]
      \/ /\ i = NotFound
         /\ Len(t) = Len(s) + 1
         /\ \A j \in 1..Len(s) : t[j] = s[j]
         /\ t[Len(s) + 1] = e
  BY UpsertOutcomes DEF UpsertFails
<1>6. \/ /\ k = NotFound
         /\ \A j \in 1..Len(t) : ~Hit(t[j])
      \/ /\ k \in 1..Len(t)
         /\ Hit(t[k])
         /\ \A j \in 1..Len(t) : Hit(t[j]) => k <= j
  BY <1>1, <1>2, FindIndexFinds
<1> HIDE DEF t, i, k, Hit
<1>7. k # NotFound /\ t[k] = e
  BY <1>2, <1>3, <1>4, <1>5, <1>6 DEF NotFound
<1>8. QED BY <1>7 DEF t, k

\* An upsert that names a slot changes what is found for its own key only.
LEMMA UpsertIsLocal ==
  ASSUME NEW s \in Seq(Entry), Len(s) <= MaxEntries, NEW e \in Entry,
         e.slot # "unknown",
         NEW g \in Games, NEW n \in Files, NEW sl \in SyncSlot \ {"unknown"},
         <<g, n, sl>> # KeyOf(e)
  PROVE  Bound(Upsert(s, e), g, n, sl) = Bound(s, g, n, sl)
<1> DEFINE t == Upsert(s, e)
           i == FindIndex(s, e.game, e.file, e.slot)
<1>1. e.game \in Games /\ e.file \in Files /\ e.slot \in SyncSlot
  BY DEF Entry
<1>2. /\ t \in Seq(Entry) /\ Len(s) \in Nat /\ Len(t) \in Nat
      /\ \A j \in 1..Len(s) : s[j] \in Entry
      /\ \A j \in 1..Len(t) : t[j] \in Entry
  BY UpsertOutcomes, LenProperties, ElementOfSeq
<1>3. \A j \in 1..Len(s) : EntryKeyMatches(s[j], g, n, sl)
         <=> s[j].game = g /\ s[j].file = n /\ s[j].slot = sl
  BY <1>2, MatchOfEntries
<1>4. \A j \in 1..Len(t) : EntryKeyMatches(t[j], g, n, sl)
         <=> t[j].game = g /\ t[j].file = n /\ t[j].slot = sl
  BY <1>2, MatchOfEntries
<1>5. i = NotFound \/ /\ i \in 1..Len(s)
                      /\ s[i].game = e.game /\ s[i].file = e.file
                      /\ s[i].slot = e.slot
  BY <1>1, <1>2, FindIndexFinds, MatchOfEntries
<1>6. ~(e.game = g /\ e.file = n /\ e.slot = sl)
  BY DEF KeyOf
<1>7. \/ /\ i \in 1..Len(s)
         /\ Len(t) = Len(s)
         /\ \A j \in 1..Len(s) : t[j] = IF j = i THEN e ELSE s[j]
      \/ i = NotFound /\ t = s
      \/ /\ i = NotFound
         /\ Len(t) = Len(s) + 1
         /\ \A j \in 1..Len(s) : t[j] = s[j]
         /\ t[Len(s) + 1] = e
  BY UpsertOutcomes
<1> HIDE DEF t, i
<1>8. \A j \in Nat :
        /\ j \in 1..Len(s) /\ EntryKeyMatches(s[j], g, n, sl)
              <=> j \in 1..Len(t) /\ EntryKeyMatches(t[j], g, n, sl)
        /\ j \in 1..Len(s) /\ EntryKeyMatches(s[j], g, n, sl) => s[j] = t[j]
  BY <1>2, <1>3, <1>4, <1>5, <1>6, <1>7 DEF NotFound
<1>9. /\ Matching(t, g, n, sl) = Matching(s, g, n, sl)
      /\ \A j \in Matching(t, g, n, sl) : t[j] = s[j]
      /\ Matching(t, g, n, sl) \in SUBSET Nat
  BY <1>2, <1>8 DEF Matching
<1>10. QED BY <1>9, SameMatchSameBound DEF t

\* Read your writes, whatever the array held before.
THEOREM WritesAreRead == Spec => ReadYourWrites
<1>1. IInv => \A e \in Entry :
                Put(e) /\ status' = "ok" =>
                  LET k == FindIndex(store', e.game, e.file, e.slot)
                  IN  k # NotFound /\ store'[k] = e
  <2> SUFFICES ASSUME IInv, NEW e \in Entry, Put(e), status' = "ok"
               PROVE  LET k == FindIndex(store', e.game, e.file, e.slot)
                      IN  k # NotFound /\ store'[k] = e
    OBVIOUS
  <2>1. ~UpsertFails(store, e) /\ store' = Upsert(store, e)
    BY DEF Put
  <2>2. QED BY <2>1, UpsertIsFound DEF IInv, TypeOK
<1>2. QED BY <1>1, Invariance, PTL DEF ReadYourWrites

\* An upsert that names a slot leaves every other key as it was.
THEOREM OtherKeysStay == Spec => OtherKeysUntouched
<1>1. IInv => \A e \in Entry :
                Put(e) /\ e.slot # "unknown" =>
                  \A g \in Games, f \in Files, sl \in SyncSlot \ {"unknown"} :
                     <<g, f, sl>> # KeyOf(e) =>
                       Bound(store', g, f, sl) = Bound(store, g, f, sl)
  BY UpsertIsLocal DEF IInv, TypeOK, Put
<1>2. QED BY <1>1, Invariance, PTL DEF OtherKeysUntouched

-----------------------------------------------------------------------------
(***************************************************************************)
(* The array implements the ledger.                                        *)
(***************************************************************************)
Pair(e) == <<KeyOf(e), e.stamp>>

LEMMA PairOfEntry ==
  ASSUME NEW e \in Entry
  PROVE  /\ KeyOf(e) \in Keys /\ e.stamp \in Stamps
         /\ Pair(e)[1] = KeyOf(e)
         /\ KeyOf(e)[1] = e.game
         /\ KeyOf(e)[2] = e.file
         /\ KeyOf(e)[3] = e.slot
BY DEF Entry, Pair, KeyOf, Keys

\* An ordered array has as many records as entries.
LEMMA BookIsAsLong ==
  ASSUME NEW s \in Seq(Entry), KeysUnique(s)
  PROVE  IsFiniteSet(Book(s)) /\ Cardinality(Book(s)) = Len(s)
<1> DEFINE n == Len(s)
           f == [i \in 1..n |-> Pair(s[i])]
<1>1. n \in Nat
  BY LenProperties
<1> HIDE DEF n, f
<1>2. IsFiniteSet(1..n) /\ Cardinality(1..n) = n
  BY <1>1, FS_Interval
<1> USE DEF n, f
<1>3. f \in Bijection(1..n, Book(s))
  <2>1. \A i \in 1..n : f[i] \in Book(s)
    BY DEF Book, Pair
  <2>2. f \in [1..n -> Book(s)]
    BY <2>1
  <2>3. \A i, j \in 1..n : f[i] = f[j] => i = j
    BY DEF KeysUnique, Pair
  <2>4. \A p \in Book(s) : \E i \in 1..n : f[i] = p
    BY DEF Book, Pair
  <2> HIDE DEF f
  <2>5. QED
    BY <2>2, <2>3, <2>4 DEF Bijection, Injection, IsInjective, Surjection
<1>4. ExistsBijection(1..n, Book(s))
  BY <1>3 DEF ExistsBijection
<1>5. QED BY <1>2, <1>4, FS_Bijection

\* The records for one key, and those its next record may take the place of.
Own(s, g, n, sl) == {p \in Book(s) : p[1] = <<g, n, sl>>}
Displaces(s, g, n, sl) ==
  IF sl = "unknown" /\ Own(s, g, n, sl) = {}
    THEN {p \in Book(s) : p[1][1] = g /\ p[1][2] = n}
    ELSE Own(s, g, n, sl)

\* A search finds the key's own record when there is one, and else one whose
\* place the key may take.
LEMMA SearchReadsTheBook ==
  ASSUME NEW s \in Seq(Entry), Ordered(s),
         NEW g \in Games, NEW n \in Files, NEW sl \in SyncSlot
  PROVE  LET i == FindIndex(s, g, n, sl) IN
         \/ i = NotFound /\ Displaces(s, g, n, sl) = {}
         \/ /\ i \in 1..Len(s)
            /\ Pair(s[i]) \in Displaces(s, g, n, sl)
            /\ Own(s, g, n, sl) # {} => Own(s, g, n, sl) = {Pair(s[i])}
<1> DEFINE i == FindIndex(s, g, n, sl)
           k == <<g, n, sl>>
           Hit(f) == EntryKeyMatches(f, g, n, sl)
<1>1. Len(s) \in Nat /\ \A j \in 1..Len(s) : s[j] \in Entry
  BY LenProperties, ElementOfSeq
<1>2. \A j \in 1..Len(s) :
        /\ Hit(s[j]) <=> /\ s[j].game = g /\ s[j].file = n
                         /\ sl = "unknown" \/ s[j].slot = sl
        /\ KeyOf(s[j]) = k
             <=> s[j].game = g /\ s[j].file = n /\ s[j].slot = sl
        /\ Pair(s[j])[1] = KeyOf(s[j])
        /\ KeyOf(s[j])[1] = s[j].game
        /\ KeyOf(s[j])[2] = s[j].file
  <2> TAKE j \in 1..Len(s)
  <2>1. Hit(s[j]) <=> /\ s[j].game = g /\ s[j].file = n
                      /\ sl = "unknown" \/ s[j].slot = sl
    BY <1>1, MatchOfEntries
  <2>2. KeyOf(s[j]) = k
          <=> s[j].game = g /\ s[j].file = n /\ s[j].slot = sl
    BY DEF KeyOf
  <2>3. QED BY <1>1, <2>1, <2>2, PairOfEntry
<1>3. \A p : p \in Book(s) <=> \E j \in 1..Len(s) : p = Pair(s[j])
  BY DEF Book, Pair
<1>4. \A j, m \in 1..Len(s) :
        /\ KeyOf(s[j]) = KeyOf(s[m]) => j = m
        /\ /\ s[j].game = s[m].game /\ s[j].file = s[m].file
           /\ s[j].slot = "unknown"
           => j <= m
  BY DEF Ordered, KeysUnique, UnknownSlotFirst
<1>5. \A p : p \in Own(s, g, n, sl) <=> p \in Book(s) /\ p[1] = k
  BY DEF Own
<1>5a. ASSUME Own(s, g, n, sl) # {}
       PROVE  \E j \in 1..Len(s) : KeyOf(s[j]) = k
  <2>1. PICK p : p \in Own(s, g, n, sl)
    BY <1>5a
  <2>2. PICK j \in 1..Len(s) : p = Pair(s[j])
    BY <1>3, <1>5, <2>1
  <2>3. p[1] = k
    BY <1>5, <2>1
  <2>4. Pair(s[j])[1] = KeyOf(s[j])
    BY <1>2
  <2> HIDE DEF k
  <2>5. QED BY <2>2, <2>3, <2>4
<1>6. \/ i = NotFound /\ \A j \in 1..Len(s) : ~Hit(s[j])
      \/ /\ i \in 1..Len(s)
         /\ Hit(s[i])
         /\ \A j \in 1..Len(s) : Hit(s[j]) => i <= j
  BY FindIndexFinds
<1>7. CASE i \in 1..Len(s)
  <2>1. Hit(s[i]) /\ \A j \in 1..Len(s) : Hit(s[j]) => i <= j
    BY <1>6, <1>7 DEF NotFound
  <2>2. Pair(s[i]) \in Book(s)
    BY <1>3, <1>7
  <2>3. CASE KeyOf(s[i]) = k
    <3>1. Pair(s[i]) \in Own(s, g, n, sl)
      BY <1>2, <1>5, <1>7, <2>2, <2>3
    <3>2. ASSUME NEW p \in Own(s, g, n, sl) PROVE p = Pair(s[i])
      <4>1. p \in Book(s) /\ p[1] = k
        BY <1>5
      <4>2. PICK j \in 1..Len(s) : p = Pair(s[j])
        BY <1>3, <4>1
      <4>3. KeyOf(s[j]) = k
        BY <1>2, <4>1, <4>2
      <4> HIDE DEF i, k
      <4>4. j = i
        BY <1>4, <1>7, <2>3, <4>3
      <4>5. QED BY <4>2, <4>4
    <3>3. QED BY <1>7, <3>1, <3>2 DEF Displaces
  <2>4. CASE KeyOf(s[i]) # k
    <3>1. sl = "unknown"
      BY <1>2, <1>7, <2>1, <2>4
    <3>2. ASSUME NEW j \in 1..Len(s), KeyOf(s[j]) = k PROVE FALSE
      <4>1. i <= j /\ j <= i
        BY <1>2, <1>4, <1>7, <2>1, <3>1, <3>2
      <4> HIDE DEF i
      <4>2. i = j
        BY <1>1, <1>7, <4>1
      <4>3. QED BY <2>4, <3>2, <4>2
    <3>3. Own(s, g, n, sl) = {}
      BY <1>5a, <3>2
    <3>4. Pair(s[i])[1][1] = g /\ Pair(s[i])[1][2] = n
      BY <1>2, <1>7, <2>1
    <3>5. QED BY <1>7, <2>2, <3>1, <3>3, <3>4 DEF Displaces
  <2>5. QED BY <2>3, <2>4
<1>8. CASE i = NotFound
  <2>1. \A j \in 1..Len(s) : ~Hit(s[j])
    BY <1>6, <1>8 DEF NotFound
  <2>2. Own(s, g, n, sl) = {}
    BY <1>2, <1>5a, <2>1
  <2>3. sl = "unknown" => {p \in Book(s) : p[1][1] = g /\ p[1][2] = n} = {}
    BY <1>2, <1>3, <2>1
  <2>4. QED BY <1>8, <2>2, <2>3 DEF Displaces
<1>9. QED BY <1>6, <1>7, <1>8

\* What an upsert does to the records.
LEMMA UpsertIsARecord ==
  ASSUME NEW s \in Seq(Entry), Len(s) <= MaxEntries, NEW e \in Entry,
         Ordered(s)
  PROVE  LET t == Upsert(s, e)
             displaced == Displaces(s, e.game, e.file, e.slot)
         IN  \/ Book(t) = Book(s)
             \/ \E p \in displaced : Book(t) = (Book(s) \ {p}) \cup {Pair(e)}
             \/ /\ displaced = {}
                /\ Len(s) < MaxEntries
                /\ Book(t) = Book(s) \cup {Pair(e)}
<1> DEFINE t == Upsert(s, e)
           i == FindIndex(s, e.game, e.file, e.slot)
           displaced == Displaces(s, e.game, e.file, e.slot)
<1>1. e.game \in Games /\ e.file \in Files /\ e.slot \in SyncSlot
  BY DEF Entry
<1>2. /\ Len(s) \in Nat /\ MaxEntries \in Nat
      /\ \A j \in 1..Len(s) : s[j] \in Entry
  BY LenProperties, ElementOfSeq, CapacityAssumption
<1>3. \A p : p \in Book(s) <=> \E j \in 1..Len(s) : p = Pair(s[j])
  BY DEF Book, Pair
<1>4. \A j, m \in 1..Len(s) : KeyOf(s[j]) = KeyOf(s[m]) => j = m
  BY DEF Ordered, KeysUnique
<1>5. \/ i = NotFound /\ displaced = {}
      \/ i \in 1..Len(s) /\ Pair(s[i]) \in displaced
  BY <1>1, SearchReadsTheBook
<1>6. CASE i \in 1..Len(s)
  <2> DEFINE p == Pair(s[i])
  <2>1. /\ t \in Seq(Entry) /\ Len(t) = Len(s)
        /\ \A j \in 1..Len(s) : t[j] = IF j = i THEN e ELSE s[j]
    <3>1. \/ /\ Len(t) = Len(s)
             /\ \A j \in 1..Len(s) : t[j] = IF j = i THEN e ELSE s[j]
          \/ i = NotFound
      BY UpsertOutcomes
    <3>2. t \in Seq(Entry)
      BY UpsertOutcomes
    <3> HIDE DEF t, i
    <3>3. QED BY <1>6, <3>1, <3>2 DEF NotFound
  <2>2. \A q : q \in Book(t) <=> \E j \in 1..Len(s) :
                                    q = IF j = i THEN Pair(e) ELSE Pair(s[j])
    BY <2>1 DEF Book, Pair
  <2>3. \A j \in 1..Len(s) : Pair(s[j]) = p => j = i
    BY <1>2, <1>4, <1>6, PairOfEntry
  <2>4. Book(t) = (Book(s) \ {p}) \cup {Pair(e)}
    <3> HIDE DEF t, i, p
    <3> QED BY <1>3, <1>6, <2>2, <2>3 DEF p
  <2>5. p \in displaced
    BY <1>5, <1>6 DEF NotFound
  <2>6. QED BY <2>4, <2>5
<1>7. CASE i = NotFound
  <2>1. displaced = {}
    BY <1>5, <1>7 DEF NotFound
  <2>2. CASE Full(s)
    BY <1>7, <2>2 DEF Upsert
  <2>3. CASE ~Full(s)
    <3>1. /\ t \in Seq(Entry) /\ Len(t) = Len(s) + 1
          /\ \A j \in 1..Len(s) : t[j] = s[j]
          /\ t[Len(s) + 1] = e
      BY <1>7, <2>3, UpsertOutcomes DEF NotFound
    <3>2. \A q : q \in Book(t) <=> \E j \in 1..(Len(s) + 1) : q = Pair(t[j])
      BY <3>1 DEF Book, Pair
    <3>3. Book(t) = Book(s) \cup {Pair(e)}
      <4> HIDE DEF t
      <4> QED BY <1>2, <1>3, <3>1, <3>2
    <3>4. Len(s) < MaxEntries
      BY <1>2, <2>3 DEF Full
    <3>5. QED BY <2>1, <3>3, <3>4
  <2>4. QED BY <2>2, <2>3
<1>8. QED BY <1>5, <1>6, <1>7

\* The file and the session, as the ledger sees them.
Filed == IF LoadStatus = "ok" THEN Book(image.entries) ELSE {}
Session == IF phase = "saving" THEN "filing" ELSE phase

LEMMA NoBook == Book(<< >>) = {}
BY EmptySeq DEF Book

\* A new file reads as an empty ledger, a whole one as the saved array.
LEMMA FilesRead ==
  /\ image' = EmptyFile => LoadStatus' = "ok" /\ Filed' = {}
  /\ \A s \in Seq(Entry) :
       Len(s) <= MaxEntries /\ image' = WholeFile(s)
         => LoadStatus' = "ok" /\ Filed' = Book(s)
<1>1. ASSUME image' = EmptyFile PROVE LoadStatus' = "ok" /\ Filed' = {}
  BY <1>1, NoBook DEF EmptyFile, NoFile, LoadStatus, Filed
<1>2. ASSUME NEW s \in Seq(Entry), Len(s) <= MaxEntries, image' = WholeFile(s)
      PROVE  LoadStatus' = "ok" /\ Filed' = Book(s)
  <2>1. /\ image'.exists = TRUE /\ image'.header = "whole"
        /\ image'.tail = "none" /\ image'.entries = s
    BY <1>2 DEF WholeFile
  <2>2. ~(Len(s) > MaxEntries)
    BY <1>2, LenProperties, CapacityAssumption
  <2>3. QED BY <2>1, <2>2 DEF LoadStatus, Filed
<1>3. QED BY <1>1, <1>2

\* Whatever a cut save leaves, a load gives some of the saved records or
\* refuses the file.
LEMMA CutKeepsSome ==
  ASSUME NEW s \in Seq(Entry), Len(s) <= MaxEntries, image' \in TornImages(s)
  PROVE  \/ LoadStatus' = "ok" /\ Filed' \in SUBSET Book(s)
         \/ LoadStatus' # "ok" /\ Filed' = {}
<1>1. CASE image' \in {EmptyFile, [EmptyFile EXCEPT !.header = "torn"]}
  <2>1. image'.entries = << >>
    BY <1>1 DEF EmptyFile, NoFile
  <2>2. QED BY <2>1, NoBook DEF Filed
<1>2. ASSUME NEW n \in 0..Len(s), NEW u \in Uploads, NEW t \in {"none", "bad"},
             image' = [WholeFile(CutAfter(s, n, u)) EXCEPT !.tail = t]
      PROVE  image'.entries = CutAfter(s, n, u)
  BY <1>2 DEF WholeFile
<1>3. ASSUME NEW n \in 0..Len(s), NEW u \in Uploads
      PROVE  Book(CutAfter(s, n, u)) \in SUBSET Book(s)
  <2> DEFINE c == CutAfter(s, n, u)
  <2>1. /\ Len(c) = n
        /\ \A i \in 1..n : /\ c[i].game = s[i].game
                           /\ c[i].file = s[i].file
                           /\ c[i].slot = s[i].slot
                           /\ c[i].stamp = s[i].stamp
    BY CutIsPrefix
  <2>2. Len(s) \in Nat
    BY LenProperties
  <2> HIDE DEF c
  <2>3. \A i \in 1..n : i \in 1..Len(s) /\ Pair(c[i]) = Pair(s[i])
    BY <2>1, <2>2 DEF Pair, KeyOf
  <2>4. QED BY <2>1, <2>3 DEF Book, Pair, c
<1>4. \/ image'.entries = << >>
      \/ Book(image'.entries) \in SUBSET Book(s)
  <2>1. CASE image' \in {EmptyFile, [EmptyFile EXCEPT !.header = "torn"]}
    BY <2>1 DEF EmptyFile, NoFile
  <2>2. CASE \E n \in 0..Len(s), u \in Uploads, t \in {"none", "bad"} :
                image' = [WholeFile(CutAfter(s, n, u)) EXCEPT !.tail = t]
    BY <1>2, <1>3, <2>2
  <2>3. QED BY <2>1, <2>2 DEF TornImages
<1>5. QED BY <1>4, NoBook DEF Filed

\* The ledger and the array mean the same records.
LEMMA SameDisplaced ==
  ASSUME NEW k \in Keys, store \in Seq(Entry)
  PROVE  /\ Ledger!Of(k) = Own(store, k[1], k[2], k[3])
         /\ Ledger!Displaced(k) = Displaces(store, k[1], k[2], k[3])
<1>1. k = <<k[1], k[2], k[3]>>
  BY DEF Keys
<1>2. Ledger!Of(k) = Own(store, k[1], k[2], k[3])
  BY <1>1 DEF Ledger!Of, Own
<1>3. k \in {j \in Keys : j[3] = "unknown"} <=> k[3] = "unknown"
  OBVIOUS
<1>4. \A p \in Book(store) : p[1] \in Keys
  <2>1. \A j \in 1..Len(store) : KeyOf(store[j]) \in Keys
    BY ElementOfSeq, PairOfEntry
  <2>2. QED BY <2>1 DEF Book
<1>5. {p \in Book(store) : p[1][1] = k[1] /\ p[1][2] = k[2]}
        = {p \in Book(store) : p[1] \in {j \in Keys : j[1] = k[1]
                                                      /\ j[2] = k[2]}}
  BY <1>4
<1>6. QED BY <1>2, <1>3, <1>5 DEF Ledger!Displaced, Displaces

LEMMA LedgerInit == Init => Ledger!Init
<1> SUFFICES ASSUME Init PROVE Ledger!Init
  OBVIOUS
<1>1. LoadStatus = "ok" /\ image.entries = << >> /\ store = << >>
  BY DEF Init, NoFile, LoadStatus
<1>2. QED BY <1>1, NoBook DEF Init, Ledger!Init

LEMMA LedgerNext ==
  ASSUME IInv, [Next]_vars
  PROVE  [Ledger!Next]_(Ledger!vars)
<1>0. /\ store \in Seq(Entry) /\ Len(store) <= MaxEntries
      /\ phase \in Phases /\ Ordered(store)
  BY DEF IInv, TypeOK
<1>a. UNCHANGED image => UNCHANGED <<LoadStatus, Filed>>
  BY DEF LoadStatus, Filed
<1>1. CASE UNCHANGED <<store, phase, image>>
  BY <1>1, <1>a DEF Ledger!vars, Filed, Session
<1>2. CASE Load /\ LoadStatus = "ok"
  <2>1. /\ Session = "closed" /\ Session' = "open"
        /\ Book(store)' = Filed
        /\ UNCHANGED <<LoadStatus, Filed>>
    BY <1>2, <1>a DEF Load, Filed, Session
  <2>2. Ledger!Open
    BY <1>2, <2>1 DEF Ledger!Open, Filed, Session
  <2>3. QED BY <2>2 DEF Ledger!Next
<1>3. CASE Load /\ LoadStatus # "ok"
  BY <1>1, <1>3 DEF Load
<1>4. CASE LoadFails
  BY <1>1, <1>4 DEF LoadFails
<1>5. ASSUME NEW e \in Entry, Put(e) PROVE [Ledger!Next]_(Ledger!vars)
  <2> DEFINE k == KeyOf(e)
             displaced == Displaces(store, e.game, e.file, e.slot)
  <2>1. /\ Session = "open" /\ UNCHANGED <<Session, LoadStatus, Filed>>
        /\ store' = Upsert(store, e)
    BY <1>5, <1>a DEF Put, Session
  <2>2. \/ Book(store') = Book(store)
        \/ \E p \in displaced :
              Book(store') = (Book(store) \ {p}) \cup {Pair(e)}
        \/ /\ displaced = {}
           /\ Len(store) < MaxEntries
           /\ Book(store') = Book(store) \cup {Pair(e)}
    BY <1>0, <2>1, UpsertIsARecord
  <2>3. Cardinality(Book(store)) = Len(store)
    BY <1>0, BookIsAsLong DEF Ordered
  <2>4. k \in Keys /\ e.stamp \in Stamps
    BY PairOfEntry
  <2>5. displaced = Ledger!Displaced(k)
    BY <1>0, <2>4, PairOfEntry, SameDisplaced
  <2>6. CASE Book(store') = Book(store)
    BY <1>5, <2>1, <2>6 DEF Ledger!vars, Filed, Session
  <2>7. CASE Book(store') # Book(store)
    <3> HIDE DEF k, displaced
    <3>1. \/ \E p \in Ledger!Displaced(k) :
               Book(store') = (Book(store) \ {p}) \cup {<<k, e.stamp>>}
          \/ /\ Ledger!Displaced(k) = {}
             /\ Cardinality(Book(store)) < MaxEntries
             /\ Book(store') = Book(store) \cup {<<k, e.stamp>>}
      BY <2>2, <2>3, <2>5, <2>7 DEF Pair, k
    <3>2. /\ Session = "open" /\ Session' = Session
          /\ Filed' = Filed
          /\ (LoadStatus = "ok")' = (LoadStatus = "ok")
      BY <2>1
    <3>3. Ledger!Cardinality(Book(store)) = Cardinality(Book(store))
      BY DEF Ledger!Cardinality, Cardinality
    <3>4. Ledger!Record(k, e.stamp)
      BY <3>1, <3>2, <3>3 DEF Ledger!Record, Filed, Session
    <3>5. QED BY <2>4, <3>4 DEF Ledger!Next
  <2>8. QED BY <2>6, <2>7
<1>6. ASSUME phase = "open", phase' = "closed", store' = << >>, image' = image
      PROVE  Ledger!Next
  <2>1. Ledger!Drop
    BY <1>6, <1>a, NoBook DEF Ledger!Drop, Filed
  <2>2. QED BY <2>1 DEF Ledger!Next
<1>7. CASE Close \/ SaveCannotOpen
  BY <1>6, <1>7 DEF Close, SaveCannotOpen
<1>8. CASE SaveBegin
  <2>1. LoadStatus' = "ok" /\ Filed' = {}
    BY <1>8, FilesRead DEF SaveBegin
  <2>2. Ledger!BeginFiling
    BY <1>8, <2>1 DEF SaveBegin, Ledger!BeginFiling, Filed
  <2>3. QED BY <2>2 DEF Ledger!Next
<1>9. CASE SaveEnd
  <2>1. LoadStatus' = "ok" /\ Filed' = Book(store)
    BY <1>0, <1>9, FilesRead DEF SaveEnd
  <2>2. Ledger!EndFiling
    BY <1>9, <2>1, NoBook DEF SaveEnd, Ledger!EndFiling, Filed
  <2>3. QED BY <2>2 DEF Ledger!Next
<1>10. ASSUME phase = "saving", phase' = "closed", store' = << >>,
              image' \in TornImages(store)
       PROVE  Ledger!Next
  <2>1. \/ LoadStatus' = "ok" /\ Filed' \in SUBSET Book(store)
        \/ LoadStatus' # "ok" /\ Filed' = {}
    BY <1>0, <1>10, CutKeepsSome
  <2>2. Ledger!CutFiling
    BY <1>10, <2>1, NoBook DEF Ledger!CutFiling, Filed
  <2>3. QED BY <2>2 DEF Ledger!Next
<1>11. CASE SaveFails
  BY <1>10, <1>11 DEF SaveFails
<1>12. CASE Crash
  BY <1>6, <1>10, <1>12 DEF Crash
<1>13. CASE UNCHANGED vars
  BY <1>1, <1>13 DEF vars
<1>14. QED
  BY <1>2, <1>3, <1>4, <1>5, <1>7, <1>8, <1>9, <1>11, <1>12, <1>13 DEF Next

(***************************************************************************)
(* Every behaviour of the array and its file is one of the ledger, for any *)
(* games, files and capacity: records change, go and survive a cut save    *)
(* only as the ledger allows.                                              *)
(***************************************************************************)
THEOREM StoreImplementsLedger == Spec => LedgerSpec
<1>1. IInv /\ [Next]_vars => [Ledger!Next]_(Ledger!vars)
  BY LedgerNext
<1>2. QED BY <1>1, LedgerInit, Invariance, PTL DEF Spec, LedgerSpec, Ledger!Spec

\* What a search finds, as records.
FoundRecords(k) == {Pair(e) : e \in Bound(store, k[1], k[2], k[3])}

\* A search finds the ledger's record for its key whenever there is one;
\* otherwise it finds a record that its upsert would take the place of, and
\* nothing only when there is no such record.
SearchesReadTheLedger ==
  \A k \in Keys :
     /\ Ledger!Of(k) # {} => FoundRecords(k) = Ledger!Of(k)
     /\ FoundRecords(k) \in SUBSET Ledger!Displaced(k)
     /\ FoundRecords(k) = {} => Ledger!Displaced(k) = {}

(***************************************************************************)
(* sync_state_store_find reads the ledger: with the theorem above, the     *)
(* engine may take the array for a map from saves to records.              *)
(***************************************************************************)
THEOREM SearchesAlwaysReadTheLedger == Spec => []SearchesReadTheLedger
<1>1. IInv => SearchesReadTheLedger
  <2> SUFFICES ASSUME IInv, NEW k \in Keys
               PROVE  /\ Ledger!Of(k) # {} => FoundRecords(k) = Ledger!Of(k)
                      /\ FoundRecords(k) \in SUBSET Ledger!Displaced(k)
                      /\ FoundRecords(k) = {} => Ledger!Displaced(k) = {}
    BY DEF SearchesReadTheLedger
  <2> DEFINE i == FindIndex(store, k[1], k[2], k[3])
             own == Own(store, k[1], k[2], k[3])
             displaced == Displaces(store, k[1], k[2], k[3])
  <2>1. k[1] \in Games /\ k[2] \in Files /\ k[3] \in SyncSlot
    BY DEF Keys
  <2>2. store \in Seq(Entry) /\ Ordered(store)
    BY DEF IInv, TypeOK
  <2>3. Ledger!Of(k) = own /\ Ledger!Displaced(k) = displaced
    BY <2>2, SameDisplaced
  <2>4. \/ i = NotFound /\ displaced = {}
        \/ /\ i \in 1..Len(store)
           /\ Pair(store[i]) \in displaced
           /\ own # {} => own = {Pair(store[i])}
    BY <2>1, <2>2, SearchReadsTheBook
  <2>5. FoundRecords(k) = IF i = NotFound THEN {} ELSE {Pair(store[i])}
    BY DEF FoundRecords, Bound
  <2>6. own # {} => displaced # {}
    BY DEF Displaces
  <2> HIDE DEF i, own, displaced
  <2>7. QED BY <2>3, <2>4, <2>5, <2>6 DEF NotFound
<1>2. QED BY <1>1, Invariance, PTL

=============================================================================
