----------------------------- MODULE SaveVault -----------------------------
(***************************************************************************)
(* What the synchronizer owes the player (docs/index.md, Safety Model:     *)
(* "always create backups before restore", "preserve original .VMP files   *)
(* before rebuilding"): the program may replace a memory card only when    *)
(* the card's present content is in the vault, and the vault only grows.   *)
(***************************************************************************)
CONSTANTS
  Cards,      \* local memory-card files
  Contents,   \* whole, readable card contents
  Absent,     \* there is no file
  Torn        \* a file that was only partly written

Data == Contents \cup {Absent, Torn}

VARIABLES
  live,    \* live[c]: what the card's file holds
  vault,   \* vault[c]: the contents of that card which backups preserve
  busy     \* a synchronization is running

vars == <<live, vault, busy>>

Init ==
  /\ live \in [Cards -> Data]
  /\ vault = [c \in Cards |-> {}]
  /\ busy = FALSE

\* Between synchronizations the player plays, restores or deletes the card.
UserWrites(c) ==
  /\ ~busy
  /\ live' \in {[live EXCEPT ![c] = d] : d \in Data}
  /\ UNCHANGED <<vault, busy>>

\* A synchronization starts, or ends (by returning or by a crash).
Switch ==
  /\ busy' = ~busy
  /\ UNCHANGED <<live, vault>>

\* Backups are found by file name, so a backup of c may count for the cards
\* of other games that share its name, too.
Preserve(c) ==
  /\ busy
  /\ live[c] \in Contents
  /\ \E namesakes \in SUBSET Cards :
       /\ c \in namesakes
       /\ vault' = [d \in Cards |-> IF d \in namesakes
                                    THEN vault[d] \cup {live[c]} ELSE vault[d]]
  /\ UNCHANGED <<live, busy>>

\* The program writes the card: never over a content that is not preserved.
Replace(c) ==
  /\ busy
  /\ live[c] \in Contents => live[c] \in vault[c]
  /\ live' \in {[live EXCEPT ![c] = d] : d \in Data}
  /\ UNCHANGED <<vault, busy>>

Next ==
  \/ Switch
  \/ \E c \in Cards : UserWrites(c) \/ Preserve(c) \/ Replace(c)

Spec == Init /\ [][Next]_vars

=============================================================================
