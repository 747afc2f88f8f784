---------------------------- MODULE MCSyncEngine ----------------------------
(***************************************************************************)
(* Instances of SyncEngine: the two memory cards of one game, or the       *)
(* first cards of two games.                                               *)
(***************************************************************************)
EXTENDS SyncEngine, TLC

CONSTANTS
  a, b,            \* the two cards
  nameA, nameB     \* their names where these differ

MCCards == {a, b}
MCNames == {nameA, nameB}
DistinctNames == (a :> nameA) @@ (b :> nameB)
EqualNames == (a :> "SCEVMC0.VMP") @@ (b :> "SCEVMC0.VMP")
OneGame == (a :> "SLPS00548") @@ (b :> "SLPS00548")
TwoGames == (a :> "SLPS00548") @@ (b :> "SLES02080")
WholeGame == {{a, b}}
EachGame == {{a}, {b}, {a, b}}

\* The instances with one card.
OneName == a :> "SCEVMC0.VMP"
OneDirectory == a :> "SLPS00548"
OneCard == {{a}}

ContentSymmetry == Permutations(Contents)

\* Both cards of one directory may be exchanged together with their names.
Exchange == (a :> b) @@ (b :> a) @@ (nameA :> nameB) @@ (nameB :> nameA)
CardSymmetry == ContentSymmetry \cup {Exchange @@ p : p \in ContentSymmetry}

=============================================================================
