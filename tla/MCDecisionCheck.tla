-------------------------- MODULE MCDecisionCheck --------------------------
(***************************************************************************)
(* Comparisons: dates before 1970, unknown and known, two sizes, hashes,   *)
(* uploads from here and elsewhere.  Resolutions: three ROMs under labels  *)
(* that equal, contain or ignore the save's game identifier, title and     *)
(* file name; saves with and without a title, a useful file name and an    *)
(* identifier long enough to count.  Dates: the years in which the rules   *)
(* for leap years turn, every month, and days and times at their limits    *)
(* and beyond.                                                             *)
(***************************************************************************)
EXTENDS DecisionCheck

MCTimes   == -1..2
MCSizes   == {"srm", "vmp"}
MCHashes  == {NoText, "h1", "h2"}
MCDevices == {NoText, "vita", "elsewhere"}

MCLong == {"slus", "title", "file", "slusfile"}
MCWithin == {<<"slus", "slusfile">>, <<"file", "slusfile">>}
MCGeneric == {"scevmc0"}

MCLocals ==
  [rom : {NoRom}, game : {"slus", "abc"}, title : {NoText, "title"},
   file : {"file", "scevmc0"}]

MCCandidates ==
  [rom : 1..3, platform : {"psx"}, serials : {{}, {"slus"}},
   label : {"slus", "title", "file", "slusfile"}]
  \cup [rom : {3}, platform : {"other"}, serials : {{}, {"slus"}},
        label : {"title", "file"}]
  \cup [rom : {2}, platform : {NoText}, serials : {{}}, label : {NoText, "file"}]

MCYears == {0, 1, 4, 99, 100, 400, 1600, 1899, 1900, 1969, 1970, 1999, 2000,
            2001, 2024, 2025, 2100, 9999}
MCTimesOfDay == {<<0, 0, 0>>, <<23, 59, 59>>, <<24, 0, 0>>, <<12, 60, 0>>,
                 <<12, 30, 60>>}

MCDates ==
  {[year |-> y, month |-> m, day |-> d,
    hour |-> t[1], minute |-> t[2], second |-> t[3]] :
     y \in MCYears, m \in 0..13, d \in {0, 1, 28, 29, 30, 31, 32},
     t \in MCTimesOfDay}

=============================================================================
