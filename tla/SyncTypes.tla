----------------------------- MODULE SyncTypes -----------------------------
(***************************************************************************)
(* The vocabulary shared by the synchronization modules (sync_types.h).    *)
(*                                                                         *)
(* A C string is a value of a small set; the empty string is NoText, so    *)
(* has_text(s) is s # NoText.  sync_string_ieq compares without regard to  *)
(* ASCII case: a name stands for its case-folded form and the comparison   *)
(* is equality.                                                            *)
(***************************************************************************)
EXTENDS Integers

CONSTANT NoText            \* the empty string

\* Memory-card slot of a save.
SyncSlot == {"unknown", "slot0", "slot1"}

\* What the engine decides to do with one local save.
SyncActionType == {"none", "upload", "download", "skip"}

\* How a local save and its remote counterpart relate.
SyncConflictType ==
  {"none", "remote_newer", "local_newer",
   "same_timestamp_different_content", "same_origin_device"}

HasText(s) == s # NoText

\* A linear search that stops at the first hit: the least index of S.
First(S) == CHOOSE i \in S : \A j \in S : i <= j

=============================================================================
