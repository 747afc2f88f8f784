---------------------------- MODULE StateEntries ----------------------------
(***************************************************************************)
(* sync_state_store.c, the in-memory part: an array of entries searched by *)
(* (game_id, filename, slot), where an unknown slot and an empty game_id   *)
(* act as wildcards, and the insert-or-replace built on that search.       *)
(*                                                                         *)
(* The array is a sequence; the C capacity of 512 entries is MaxEntries.   *)
(***************************************************************************)
EXTENDS Integers, Sequences, SyncTypes

CONSTANTS
  Games,       \* game identifiers in use (folder names under SAVEDATA)
  Files,       \* file names in use, case-folded
  Stamps,      \* (size, timestamp, origin) triples a transfer may record
  Uploads,     \* last_upload values
  MaxEntries   \* ROMM_SYNC_MAX_STATE_ENTRIES

ASSUME CapacityAssumption == MaxEntries \in Nat \ {0}
\* Every scanned save lies in a named folder (try_add_vmp_file takes the
\* folder name as game_id), and upsert rejects an empty file name.
ASSUME NamesAssumption == NoText \notin Games /\ NoText \notin Files

Entry == [game : Games, file : Files, slot : SyncSlot,
          stamp : Stamps, upload : Uploads]

KeyOf(e) == <<e.game, e.file, e.slot>>

\* Mutated forms of the definitions below, for the mutation check only.
SlotKeyMatchesSymmetric(entrySlot, expected) ==
  expected = "unknown" \/ entrySlot = "unknown" \/ entrySlot = expected
SlotKeyMatchesExactly(entrySlot, expected) == entrySlot = expected

\* An unknown expected slot matches every entry; the converse does not hold.
SlotKeyMatches(entrySlot, expected) ==
  expected = "unknown" \/ entrySlot = expected

EntryKeyMatches(e, game, file, slot) ==
  /\ HasText(file)
  /\ e.file = file
  /\ SlotKeyMatches(e.slot, slot)
  /\ HasText(game) /\ HasText(e.game) => e.game = game

Matching(store, game, file, slot) ==
  {i \in 1..Len(store) : EntryKeyMatches(store[i], game, file, slot)}

\* sync_state_store_find: the first match; NotFound is the NULL pointer.
NotFound == 0
FindIndex(store, game, file, slot) ==
  LET S == Matching(store, game, file, slot)
  IN  IF S = {} THEN NotFound ELSE First(S)

\* Mutated form: the capacity test is off by one.
FullLate(store) == Len(store) > MaxEntries

Full(store) == Len(store) >= MaxEntries

\* sync_state_store_upsert fails only when it would append to a full array.
UpsertFails(store, e) ==
  FindIndex(store, e.game, e.file, e.slot) = NotFound /\ Full(store)

\* Mutated form: the search does not stop at the first match.
UpsertLastMatch(store, e) ==
  LET S == Matching(store, e.game, e.file, e.slot) IN
  IF S # {} THEN [store EXCEPT ![CHOOSE i \in S : \A j \in S : j <= i] = e]
  ELSE IF Full(store) THEN store
  ELSE Append(store, e)

\* Mutated form: a full array gives up its oldest entry.
UpsertEvicting(store, e) ==
  LET i == FindIndex(store, e.game, e.file, e.slot) IN
  IF i # NotFound THEN [store EXCEPT ![i] = e]
  ELSE IF Full(store) THEN Append(Tail(store), e)
  ELSE Append(store, e)

\* sync_state_store_upsert: replace the first match, else append, else fail.
Upsert(store, e) ==
  LET i == FindIndex(store, e.game, e.file, e.slot) IN
  IF i # NotFound THEN [store EXCEPT ![i] = e]
  ELSE IF Full(store) THEN store
  ELSE Append(store, e)

(***************************************************************************)
(* Well-formedness of the array.                                           *)
(***************************************************************************)
\* No two entries carry the same key.
KeysUnique(store) ==
  \A i, j \in 1..Len(store) : KeyOf(store[i]) = KeyOf(store[j]) => i = j

\* An entry of unknown slot comes before every other entry of its file: a
\* search with an unknown slot, which takes the first match, then finds it.
UnknownSlotFirst(store) ==
  \A i, j \in 1..Len(store) :
     /\ store[i].game = store[j].game
     /\ store[i].file = store[j].file
     /\ store[i].slot = "unknown"
     => i <= j

=============================================================================
