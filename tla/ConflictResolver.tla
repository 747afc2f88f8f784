-------------------------- MODULE ConflictResolver --------------------------
(***************************************************************************)
(* conflict_resolver.c: how a local save and its remote counterpart are    *)
(* compared, and what is done by default about each outcome.               *)
(*                                                                         *)
(* A descriptor carries the four fields the comparison reads: timestamp    *)
(* (0: unknown), size, hash and origin (the device that uploaded it).      *)
(***************************************************************************)
EXTENDS Integers, SyncTypes

Descriptor(Times, Sizes, Hashes, Devices) ==
  [timestamp : Times, size : Sizes, hash : Hashes, origin : Devices]

\* Mutated forms of the definitions below, for the mutation check only.
HashesDifferOneSided(l, r) == HasText(l.hash) /\ l.hash # r.hash
ContentDiffersByHash(l, r) ==
  HasText(l.hash) /\ HasText(r.hash) /\ l.hash # r.hash
BothDatedUnchecked(l, r) == TRUE

\* Hashes count only when both sides expose one.
HashesDiffer(l, r) == HasText(l.hash) /\ HasText(r.hash) /\ l.hash # r.hash

ContentDiffers(l, r) == l.size # r.size \/ HashesDiffer(l, r)

SameOrigin(r, device) ==
  HasText(device) /\ HasText(r.origin) /\ device = r.origin

BothDated(l, r) == l.timestamp > 0 /\ r.timestamp > 0

\* conflict_resolver_detect: the origin is looked at before the timestamps.
Detect(l, r, device) ==
  CASE SameOrigin(r, device) -> "same_origin_device"
    [] ~SameOrigin(r, device) /\ BothDated(l, r) /\ l.timestamp > r.timestamp
         -> "local_newer"
    [] ~SameOrigin(r, device) /\ BothDated(l, r) /\ l.timestamp < r.timestamp
         -> "remote_newer"
    [] ~SameOrigin(r, device)
         /\ ~(BothDated(l, r) /\ l.timestamp # r.timestamp)
         /\ ContentDiffers(l, r) -> "same_timestamp_different_content"
    [] OTHER -> "none"

\* The decision used when nobody overrides it.
DefaultAction(conflict) ==
  CASE conflict = "local_newer"  -> "upload"
    [] conflict = "remote_newer" -> "download"
    [] OTHER -> "skip"

\* Conflicts the user has to confirm.
RequiresConfirmation(conflict) ==
  conflict \in {"local_newer", "remote_newer",
                "same_timestamp_different_content"}

=============================================================================
