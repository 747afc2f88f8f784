---------------------------- MODULE GameMatcher ----------------------------
(***************************************************************************)
(* game_matcher.c: which remote save a local save is compared with, and    *)
(* which ROM of the server's catalog a local save belongs to.              *)
(*                                                                         *)
(* A label is a name after normalize_identifier (lower-case letters and    *)
(* digits only); Within holds the pairs <<a, b>> such that a occurs in b,  *)
(* and Long the labels of at least four characters.  The catalog is a      *)
(* sequence searched from its first entry on.                              *)
(***************************************************************************)
EXTENDS Integers, Sequences, SequencesExt, SyncTypes

CONSTANTS
  Long,      \* labels of at least four characters
  Within,    \* <<a, b>>: label a is a substring of label b
  Generic    \* labels of the generic card names (scevmc0, scevmc1)

\* rom_id of an unresolved save, and "no entry" of a search.
NoRom == 0
NoMatch == 0

(***************************************************************************)
(* Local save against the listed remote saves.                             *)
(***************************************************************************)
SlotIsKnown(s) == s # "unknown"

\* Mutated forms, for the mutation check only, stand before the definition
\* they replace.
SlotIsCompatibleAlways(ls, rs) == TRUE

SlotIsCompatible(ls, rs) == SlotIsKnown(ls) /\ SlotIsKnown(rs) => ls = rs

SameText(a, b) == HasText(a) /\ a = b

RomIdMatches(l, r)   == l.rom > 0 /\ l.rom = r.rom
GameIdMatches(l, r)  == SameText(l.game, r.game)
FilenameMatches(l, r) == SameText(l.file, r.file)
SameKnownSlot(l, r)  == SlotIsKnown(l.slot) /\ l.slot = r.slot

\* The rules in their order; each is a pass over the whole list.
Rules(l, r) ==
  << RomIdMatches(l, r) /\ SameKnownSlot(l, r) /\ FilenameMatches(l, r),
     RomIdMatches(l, r) /\ SlotIsCompatible(l.slot, r.slot),
     GameIdMatches(l, r) /\ SameKnownSlot(l, r) /\ FilenameMatches(l, r),
     GameIdMatches(l, r) /\ SlotIsCompatible(l.slot, r.slot),
     FilenameMatches(l, r) /\ SameKnownSlot(l, r),
     FilenameMatches(l, r) >>

\* game_matcher_find_remote_index: the first save of the first rule that
\* some save satisfies.
FindRemoteIndex(l, items) ==
  LET By(k) == {i \in 1..Len(items) : Rules(l, items[i])[k]}
      used  == {k \in 1..6 : By(k) # {}}
  IN  IF used = {} THEN NoMatch ELSE First(By(First(used)))

(***************************************************************************)
(* Local save against the ROM catalog: three stages.                       *)
(***************************************************************************)
EligibleAny(c) == TRUE

\* candidate_is_ps1_eligible: a PS1 platform, or none given.
Eligible(c) == c.platform # "other"

Unmatched == [best |-> NoRom, ambiguous |-> FALSE]

\* register_unique_match
RegisterUnique(found, rom) ==
  IF found.best = NoRom THEN [found EXCEPT !.best = rom]
  ELSE [found EXCEPT !.ambiguous = @ \/ found.best # rom]

\* The rom_id a stage returns; an ambiguous stage has no answer.
Answer(found) == IF found.ambiguous THEN NoRom ELSE found.best

\* Stage 1: the game identifier is one of the candidate's serials.
BySerial(l, catalog) ==
  LET Meet(found, c) ==
        IF c.rom > 0 /\ Eligible(c) /\ l.game \in c.serials
        THEN RegisterUnique(found, c.rom) ELSE found
  IN  IF l.game \notin Long THEN Unmatched
      ELSE FoldLeft(Meet, Unmatched, catalog)

\* Stage 2: the title is the candidate's file name without extension.
ByTitle(l, catalog) ==
  LET Meet(found, c) ==
        IF c.rom > 0 /\ Eligible(c) /\ SameText(c.label, l.title)
        THEN RegisterUnique(found, c.rom) ELSE found
  IN  IF l.title \notin Long THEN Unmatched
      ELSE FoldLeft(Meet, Unmatched, catalog)

\* extract_local_filename_pattern
Pattern(l) == IF l.file \in Generic THEN NoText ELSE l.file

Larger(a, b) == IF a < b THEN b ELSE a

\* score_filename_pattern_match
Score(l, c) ==
  LET name == Pattern(l)
      byName == IF name \notin Long THEN 0
                ELSE IF name = c.label THEN 100
                ELSE IF {<<name, c.label>>, <<c.label, name>>} \cap Within # {}
                     THEN 70 ELSE 0
      byGame == IF l.game \notin Long THEN 0
                ELSE IF l.game = c.label THEN 80
                ELSE IF <<l.game, c.label>> \in Within THEN 60 ELSE 0
  IN  IF c.rom <= 0 \/ ~HasText(c.label) THEN 0 ELSE Larger(byName, byGame)

RegisterScoredSticky(found, score, rom) ==
  IF score > found.score
  THEN [score |-> score, best |-> rom, ambiguous |-> found.ambiguous]
  ELSE [found EXCEPT !.ambiguous =
          @ \/ (score > 0 /\ score = found.score /\ found.best # rom)]

\* A better score starts afresh; an equal one of another ROM is ambiguous.
RegisterScored(found, score, rom) ==
  IF score > found.score
  THEN [score |-> score, best |-> rom, ambiguous |-> FALSE]
  ELSE [found EXCEPT !.ambiguous =
          @ \/ (score > 0 /\ score = found.score /\ found.best # rom)]

\* Stage 3: file name patterns, by score.
ByPattern(l, catalog) ==
  LET Meet(found, c) ==
        IF Eligible(c) THEN RegisterScored(found, Score(l, c), c.rom)
                       ELSE found
  IN  FoldLeft(Meet, [score |-> 0, best |-> NoRom, ambiguous |-> FALSE],
               catalog)

ResolveRomIdTitleFirst(l, catalog) ==
  LET serial == Answer(BySerial(l, catalog))
      title  == Answer(ByTitle(l, catalog))
  IN  IF l.rom > 0 THEN l.rom
      ELSE IF title # NoRom THEN title
      ELSE IF serial # NoRom THEN serial
      ELSE Answer(ByPattern(l, catalog))

\* game_matcher_resolve_rom_id; NoRom stands for the -1 of "unresolved".
ResolveRomId(l, catalog) ==
  LET serial == Answer(BySerial(l, catalog))
      title  == Answer(ByTitle(l, catalog))
  IN  IF l.rom > 0 THEN l.rom
      ELSE IF serial # NoRom THEN serial
      ELSE IF title # NoRom THEN title
      ELSE Answer(ByPattern(l, catalog))

=============================================================================
