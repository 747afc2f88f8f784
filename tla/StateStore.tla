----------------------------- MODULE StateStore -----------------------------
(***************************************************************************)
(* The life of the synchronization state across runs (sync_state_store.c   *)
(* as sync_engine_run uses it): load the file, look up and upsert entries, *)
(* write the file back in place.  The write is not atomic: the file is     *)
(* truncated when it is opened and grows as the buffer is flushed, so a    *)
(* crash or a write error leaves a prefix of it, cut anywhere.             *)
(*                                                                         *)
(* image is the file.  A cut inside a line is described by what the loader *)
(* makes of it:                                                            *)
(*   header "torn"  - the version line is incomplete: load refuses it;     *)
(*   tail "bad"     - the last entry line has too few fields or an         *)
(*                    unparsable number: load refuses the file;            *)
(*   tail "none"    - the cut is at a line end, inside a tag (the line is  *)
(*                    ignored), or inside the last field, where the line   *)
(*                    still parses with a shortened last_upload.           *)
(*                                                                         *)
(* The device line is left out: nothing in this module reads it.           *)
(***************************************************************************)
EXTENDS StateEntries

VARIABLES
  store,    \* the array in memory
  phase,    \* "closed", "open" (between load and save) or "saving"
  image,    \* the file
  status,   \* what the last operation returned
  written   \* history: <<key, stamp>> of every entry ever handed to a save

vars == <<store, phase, image, status, written>>

Phases == {"closed", "open", "saving"}
Statuses ==
  {"ok", "open_error", "read_error", "write_error", "format_error", "full"}

Image == [exists : BOOLEAN, header : {"none", "torn", "whole"},
          entries : Seq(Entry), tail : {"none", "bad"}]

NoFile == [exists |-> FALSE, header |-> "none", entries |-> <<>>,
           tail |-> "none"]
EmptyFile == [NoFile EXCEPT !.exists = TRUE]
WholeFile(s) == [exists |-> TRUE, header |-> "whole", entries |-> s,
                 tail |-> "none"]

\* Mutated form: the cut line is completed from the line before it.
CutAfterMixed(s, n, u) ==
  [i \in 1..n |-> IF i = n THEN [s[i] EXCEPT !.stamp = s[1].stamp] ELSE s[i]]

\* The first n entries of s, the last one with its last_upload field u.
CutAfter(s, n, u) ==
  [i \in 1..n |-> IF i = n THEN [s[i] EXCEPT !.upload = u] ELSE s[i]]

\* Every prefix an interrupted write of s can leave on the card.
TornImages(s) ==
  {EmptyFile, [EmptyFile EXCEPT !.header = "torn"]}
    \cup {[WholeFile(CutAfter(s, n, u)) EXCEPT !.tail = t] :
            n \in 0..Len(s), u \in Uploads, t \in {"none", "bad"}}

Init ==
  /\ store = <<>>
  /\ phase = "closed"
  /\ image = NoFile
  /\ status = "ok"
  /\ written = {}

\* sync_state_store_load: a missing or an empty file is an empty state.
LoadStatus ==
  IF ~image.exists \/ image.header = "none" THEN "ok"
  ELSE IF image.header = "torn" \/ image.tail = "bad" THEN "format_error"
  ELSE IF Len(image.entries) > MaxEntries THEN "full"
  ELSE "ok"

Load ==
  /\ phase = "closed"
  /\ status' = LoadStatus
  /\ IF LoadStatus = "ok"
       THEN phase' = "open" /\ store' = image.entries
       ELSE UNCHANGED <<phase, store>>
  /\ UNCHANGED <<image, written>>

\* The file is there but cannot be opened or read.
LoadFails ==
  /\ phase = "closed"
  /\ image.exists
  /\ status' \in {"open_error", "read_error"}
  /\ UNCHANGED <<store, phase, image, written>>

\* sync_state_store_upsert on the open store.
Put(e) ==
  /\ phase = "open"
  /\ store' = Upsert(store, e)
  /\ status' = IF UpsertFails(store, e) THEN "full" ELSE "ok"
  /\ UNCHANGED <<phase, image, written>>

\* A dry run ends without a save.
Close ==
  /\ phase = "open"
  /\ phase' = "closed"
  /\ store' = <<>>
  /\ UNCHANGED <<image, status, written>>

\* The parent directory cannot be made or the file cannot be opened.
SaveCannotOpen ==
  /\ phase = "open"
  /\ phase' = "closed"
  /\ store' = <<>>
  /\ status' = "open_error"
  /\ UNCHANGED <<image, written>>

\* fopen(path, "wb") truncates the file that was there.
SaveBegin ==
  /\ phase = "open"
  /\ phase' = "saving"
  /\ image' = EmptyFile
  /\ written' = written \cup {<<KeyOf(store[i]), store[i].stamp>> :
                              i \in 1..Len(store)}
  /\ UNCHANGED <<store, status>>

SaveEnd ==
  /\ phase = "saving"
  /\ phase' = "closed"
  /\ image' = WholeFile(store)
  /\ store' = <<>>
  /\ status' = "ok"
  /\ UNCHANGED written

SaveFails ==
  /\ phase = "saving"
  /\ phase' = "closed"
  /\ image' \in TornImages(store)
  /\ store' = <<>>
  /\ status' = "write_error"
  /\ UNCHANGED written

\* The application is killed: memory is gone, a write in progress is cut.
Crash ==
  /\ phase \in {"open", "saving"}
  /\ phase' = "closed"
  /\ store' = <<>>
  /\ IF phase = "saving" THEN image' \in TornImages(store)
                         ELSE UNCHANGED image
  /\ UNCHANGED <<status, written>>

Next ==
  \/ Load
  \/ LoadFails
  \/ \E e \in Entry : Put(e)
  \/ Close
  \/ SaveCannotOpen
  \/ SaveBegin
  \/ SaveEnd
  \/ SaveFails
  \/ Crash

Spec == Init /\ [][Next]_vars

-----------------------------------------------------------------------------
TypeOK ==
  /\ store \in Seq(Entry)
  /\ Len(store) <= MaxEntries
  /\ phase \in Phases
  /\ image \in Image
  /\ Len(image.entries) <= MaxEntries
  /\ status \in Statuses
  /\ written \subseteq (Games \X Files \X SyncSlot) \X Stamps

(***************************************************************************)
(* No sequence of upserts, saves, cut saves and loads ever gives one key   *)
(* two entries: a second one would shadow an update or survive it.         *)
(***************************************************************************)
StoreKeysUnique == KeysUnique(store) /\ KeysUnique(image.entries)

(***************************************************************************)
(* An entry recorded with an unknown slot stays ahead of the other entries *)
(* of its file, in memory and on the card, so that a search that names no  *)
(* slot (which stops at the first match) sees it.                          *)
(***************************************************************************)
StoreUnknownSlotFirst ==
  UnknownSlotFirst(store) /\ UnknownSlotFirst(image.entries)

(***************************************************************************)
(* Read your writes: right after an upsert that succeeded, the same search *)
(* returns the entry just stored, wildcards and previous entries           *)
(* notwithstanding.                                                        *)
(***************************************************************************)
ReadYourWrites ==
  [][\A e \in Entry :
       Put(e) /\ status' = "ok" =>
         LET i == FindIndex(store', e.game, e.file, e.slot)
         IN  i # NotFound /\ store'[i] = e]_vars

(***************************************************************************)
(* An upsert that names a slot leaves every other key as it was, whether   *)
(* it replaced an entry, appended one or found the store full.             *)
(***************************************************************************)
Bound(s, g, f, sl) ==
  LET i == FindIndex(s, g, f, sl) IN IF i = NotFound THEN {} ELSE {s[i]}

OtherKeysUntouched ==
  [][\A e \in Entry :
       Put(e) /\ e.slot # "unknown" =>
         \A g \in Games, f \in Files, sl \in SyncSlot \ {"unknown"} :
            <<g, f, sl>> # KeyOf(e) =>
              Bound(store', g, f, sl) = Bound(store, g, f, sl)]_vars

(***************************************************************************)
(* A cut save never forges a transfer: whatever load accepts carries, for  *)
(* its key, a size, a date and an origin that some run really recorded.    *)
(* (The last entry of a cut file may carry a shortened last_upload.)       *)
(***************************************************************************)
LoadedIsGenuine ==
  \A i \in 1..Len(image.entries) :
     <<KeyOf(image.entries[i]), image.entries[i].stamp>> \in written

(***************************************************************************)
(* The array and its file implement a ledger of transfers with one record  *)
(* for each (game, file, slot): whatever sequence of wildcard searches,    *)
(* replacements, refusals at a full array, cuts and crashes happens, a     *)
(* record only ever changes or goes as the ledger's steps allow.           *)
(***************************************************************************)
\* The records of an array.
Book(s) == {<<KeyOf(s[i]), s[i].stamp>> : i \in 1..Len(s)}

Keys == Games \X Files \X SyncSlot

Ledger == INSTANCE TransferLedger
            WITH Records <- Stamps,
                 Vague <- {k \in Keys : k[3] = "unknown"},
                 SameFile <- [k \in Keys |->
                                {j \in Keys : j[1] = k[1] /\ j[2] = k[2]}],
                 Capacity <- MaxEntries,
                 session <- IF phase = "saving" THEN "filing" ELSE phase,
                 kept <- Book(store),
                 filed <- IF LoadStatus = "ok" THEN Book(image.entries)
                          ELSE {},
                 readable <- LoadStatus = "ok"

LedgerSpec == Ledger!Spec

=============================================================================
