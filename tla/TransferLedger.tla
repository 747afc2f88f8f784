--------------------------- MODULE TransferLedger ---------------------------
(***************************************************************************)
(* What the synchronizer means by its state file (sync_state_store.h): a   *)
(* ledger with at most one record for each save it transferred.            *)
(* A session reads the ledger, records transfers and files them again; a   *)
(* filing that is cut keeps some of the records or leaves a file that      *)
(* cannot be read, and never invents one.                                  *)
(*                                                                         *)
(* A ledger is a set of pairs <<key, record>>.                             *)
(***************************************************************************)
EXTENDS Naturals, FiniteSets

CONSTANTS
  Keys,       \* the saves that may be transferred
  Records,    \* what may be recorded of one
  Vague,      \* the keys that say which file but not which slot of it
  SameFile,   \* SameFile[k]: the keys of k's file
  Capacity    \* how many records there is room for

VARIABLES
  session,    \* "closed", "open" or "filing"
  kept,       \* the records of the session
  filed,      \* the records the file gives when it is read
  readable    \* the file can be read

vars == <<session, kept, filed, readable>>

Init ==
  /\ session = "closed"
  /\ kept = {}
  /\ filed = {}
  /\ readable = TRUE

Open ==
  /\ session = "closed"
  /\ readable
  /\ session' = "open"
  /\ kept' = filed
  /\ UNCHANGED <<filed, readable>>

Of(k) == {p \in kept : p[1] = k}

\* The records that a new one for k may take the place of: k's own or, when k
\* is vague and has none, one of its file.
Displaced(k) ==
  IF k \in Vague /\ Of(k) = {} THEN {p \in kept : p[1] \in SameFile[k]}
  ELSE Of(k)

\* A transfer is recorded in the place of a record, or in a free one.
Record(k, r) ==
  /\ session = "open"
  /\ \/ \E p \in Displaced(k) : kept' = (kept \ {p}) \cup {<<k, r>>}
     \/ /\ Displaced(k) = {}
        /\ Cardinality(kept) < Capacity
        /\ kept' = kept \cup {<<k, r>>}
  /\ UNCHANGED <<session, filed, readable>>

\* The session ends without filing.
Drop ==
  /\ session = "open"
  /\ session' = "closed"
  /\ kept' = {}
  /\ UNCHANGED <<filed, readable>>

\* What was filed goes before the new records are there.
BeginFiling ==
  /\ session = "open"
  /\ session' = "filing"
  /\ filed' = {}
  /\ readable' = TRUE
  /\ UNCHANGED kept

EndFiling ==
  /\ session = "filing"
  /\ session' = "closed"
  /\ filed' = kept
  /\ readable' = TRUE
  /\ kept' = {}

CutFiling ==
  /\ session = "filing"
  /\ session' = "closed"
  /\ \/ readable' = TRUE /\ filed' \in SUBSET kept
     \/ readable' = FALSE /\ filed' = {}
  /\ kept' = {}

Next ==
  \/ Open
  \/ \E k \in Keys, r \in Records : Record(k, r)
  \/ Drop \/ BeginFiling \/ EndFiling \/ CutFiling

Spec == Init /\ [][Next]_vars

=============================================================================
