-------------------------- MODULE MCRemoteListing --------------------------
(***************************************************************************)
(* Two games; the first with saves of both slots and of none, the second   *)
(* also with undated revisions.  Pages of two rows, up to three rows at    *)
(* first, so that a listing takes two pages and identities repeat.         *)
(***************************************************************************)
EXTENDS RemoteListing

Kind(rom, file, slot, times) ==
  [rom : {rom}, game : {NoText}, file : {file}, slot : {slot}, time : times]

Numbered(kinds, ids) ==
  {[id |-> n, rom |-> k.rom, game |-> k.game, file |-> k.file,
    slot |-> k.slot, time |-> k.time] : n \in ids, k \in kinds}

ServersOf(rows) ==
  {s \in UNION {[1..n -> rows] : n \in 0..3} :
     /\ \A i, j \in DOMAIN s : s[i].id = s[j].id => i = j
     /\ \A i \in DOMAIN s : s[i].id <= Len(s)}

\* As the application names its uploads, and RetroArch its own.
MCKinds ==
  Kind(1, "a_slot0", "slot0", {1}) \cup Kind(1, "a_slot1", "slot1", {1})
  \cup Kind(1, "a_other", "slot0", {2})
  \cup Kind(1, "a", "unknown", {2}) \cup Kind(2, "b_slot0", "slot0", 0..1)
MCRows == Numbered(MCKinds, 1..4)
MCServers == ServersOf(Numbered(MCKinds, 1..3))

MCLocals ==
  [rom : {1}, game : {"slus"}, file : {"scevmc0"}, slot : {"slot0"}]
  \cup [rom : {1}, game : {"slus"}, file : {"scevmc1"}, slot : {"slot1"}]
  \cup [rom : {2, NoRom}, game : {"sles"}, file : {"scevmc0"}, slot : {"slot0"}]

NoLabels == {}

=============================================================================
