---- MODULE MCApplication ----
(***************************************************************************)
(* Two games whose titles are the same, as two discs of one game may have, *)
(* one of them with both its cards.                                        *)
(***************************************************************************)
EXTENDS Application

CONSTANTS a1, a2, b1, a, b

MCGameOf == [c \in Cards |-> IF c = b1 THEN b ELSE a]
MCPlace == [g \in {a, b} |-> 1]
MCForeignSets == {{"HTTP"}}
====
