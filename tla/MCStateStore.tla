---------------------------- MODULE MCStateStore ----------------------------
(***************************************************************************)
(* StateStore with one file, the three slots, two recorded stamps and an   *)
(* array of two entries: fewer places than keys.  The wildcard rules act   *)
(* within one file, so a second file adds nothing they could confuse.      *)
(***************************************************************************)
EXTENDS StateStore, TLC

StampSymmetry == Permutations(Stamps)

=============================================================================
