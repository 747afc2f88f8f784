--------------------------- MODULE DecisionCheck ---------------------------
(***************************************************************************)
(* The stateless decisions of a pass, each evaluated on every input over   *)
(* small sets: a comparison of a local save with a remote one              *)
(* (conflict_resolver.c), the resolution of a local save to a ROM of the   *)
(* server's catalog (romm_http_resolve_rom_ids for one item), with the     *)
(* catalog in every order, and the reading of a date (sync_types.c).  A    *)
(* behaviour is one call and its answer.                                   *)
(***************************************************************************)
EXTENDS ConflictResolver, GameMatcher, CivilTime

CONSTANTS
  Times, Sizes, Hashes, Devices,  \* the fields of compared saves
  Locals,       \* saves to resolve: [rom, game, title, file]
  Candidates,   \* catalog entries: [rom, platform, serials, label]
  MaxCatalog,   \* bound: entries in the catalog
  Dates         \* dates of files and saves, real and impossible ones

ASSUME LabelsAssumption ==
  /\ NoText \notin Long
  /\ \A c \in Candidates : c.rom \in Int /\ c.rom > 0

ASSUME TimesAssumption == Times \subseteq Int
ASSUME DatesAssumption ==
  /\ Dates \subseteq [year : Nat, month : Nat, day : Nat,
                     hour : Nat, minute : Nat, second : Nat]
  /\ \A t \in Dates : t.year <= 9999

VARIABLES call, answer

vars == <<call, answer>>

\* The local inventory carries no origin.
Comparison ==
  [local : Descriptor(Times, Sizes, Hashes, {NoText}),
   remote : Descriptor(Times, Sizes, Hashes, Devices), device : Devices]

Catalogs == UNION {[1..n -> Candidates] : n \in 0..MaxCatalog}
Resolution == [save : Locals, catalog : Catalogs]

Reading == [source : {"card", "server"}, date : Dates]

Pending == <<>>
Compares == "device" \in DOMAIN call
Resolves == "catalog" \in DOMAIN call
Reads == "date" \in DOMAIN call
Compared == Compares /\ answer # Pending
Resolved == Resolves /\ answer # Pending
HasRead == Reads /\ answer # Pending

Init ==
  /\ call \in Comparison \/ call \in Resolution \/ call \in Reading
  /\ answer = Pending

Compare ==
  /\ Compares /\ answer = Pending
  /\ LET c == Detect(call.local, call.remote, call.device) IN
     answer' = [conflict |-> c, action |-> DefaultAction(c),
                confirm |-> RequiresConfirmation(c)]
  /\ UNCHANGED call

Resolve ==
  /\ Resolves /\ answer = Pending
  /\ answer' = [rom |-> ResolveRomId(call.save, call.catalog)]
  /\ UNCHANGED call

Read ==
  /\ Reads /\ answer = Pending
  /\ answer' = [at |-> TimestampOf(call.source, call.date)]
  /\ UNCHANGED call

Next == Compare \/ Resolve \/ Read

Spec == Init /\ [][Next]_vars

-----------------------------------------------------------------------------
(***************************************************************************)
(* The default decision never replaces the newer side with the older one:  *)
(* a download is chosen only for a strictly later remote save, an upload   *)
(* only for a strictly later local one, and undated pairs move nothing.    *)
(***************************************************************************)
NewerSideIsKept ==
  Compared =>
    /\ answer.action = "download" =>
         0 < call.local.timestamp
           /\ call.local.timestamp < call.remote.timestamp
    /\ answer.action = "upload" =>
         0 < call.remote.timestamp
           /\ call.remote.timestamp < call.local.timestamp

Mirror(c) == CASE c = "local_newer" -> "remote_newer"
               [] c = "remote_newer" -> "local_newer"
               [] OTHER -> c

(***************************************************************************)
(* Classifying a pair of foreign saves the other way round gives the       *)
(* mirrored outcome: two devices comparing the same two saves reach the    *)
(* same conclusion about which one is newer.                               *)
(***************************************************************************)
ClassificationIsSymmetric ==
  Compared /\ ~HasText(call.device) =>
    Detect(call.remote, call.local, call.device) = Mirror(answer.conflict)

(***************************************************************************)
(* "none" is said only of saves nothing tells apart: same size, no two     *)
(* different hashes, and no two different known dates.                     *)
(***************************************************************************)
NoneMeansIndistinguishable ==
  Compared /\ answer.conflict = "none" =>
    LET l == call.local  r == call.remote IN
    /\ l.size = r.size
    /\ l.hash = r.hash \/ NoText \in {l.hash, r.hash}
    /\ \/ l.timestamp = r.timestamp
       \/ l.timestamp <= 0
       \/ r.timestamp <= 0

-----------------------------------------------------------------------------
(***************************************************************************)
(* The ROM a save resolves to does not depend on the order in which the    *)
(* server lists its catalog.  In each stage (serial, title, file name) two *)
(* ROMs that match equally well count as none, whichever comes first, and  *)
(* the next stage is asked.  (game_matcher.h: "deterministic stages".)     *)
(***************************************************************************)
OrderDoesNotMatter ==
  Resolved =>
    LET list == call.catalog IN
    \A p \in Bijection(DOMAIN list, DOMAIN list) :
       ResolveRomId(call.save, [i \in DOMAIN list |-> list[p[i]]]) = answer.rom

(***************************************************************************)
(* ROMs of another platform never influence the resolution: without any    *)
(* one of them, wherever it stands in the catalog, the save resolves       *)
(* alike.  (Of every catalog, so that taking them out one after the other  *)
(* leaves what the PS1 ROMs alone decide.)                                 *)
(***************************************************************************)
OtherPlatformsDoNotMatter ==
  Resolved =>
    LET list == call.catalog IN
    \A i \in DOMAIN list :
       list[i].platform = "other" =>
         ResolveRomId(call.save, RemoveAt(list, i)) = answer.rom

\* The PS1 ROMs of the catalog that carry the save's identifier as a serial.
Bearers ==
  {c.rom : c \in {d \in Range(call.catalog) :
                    /\ d.platform # "other"
                    /\ call.save.game \in Long \cap d.serials}}

(***************************************************************************)
(* A save whose game identifier is the serial of one ROM of the catalog    *)
(* resolves to it: no title or file name, which may be another game's,     *)
(* outweighs the serial.  (With two bearers the later stages decide.)      *)
(***************************************************************************)
SerialDecides ==
  Resolved /\ call.save.rom = NoRom =>
    \A r \in Bearers : Bearers = {r} => answer.rom = r

-----------------------------------------------------------------------------
\* How many of the years before y are multiples of k.
Multiples(k, y) == (y + k - 1) \div k

\* Days before a month of a year that has no February 29th.
DaysBefore(m) == <<0, 31, 59, 90, 120, 151, 181, 212, 243, 273, 304, 334>>[m]

\* The day's number by the calendar: 719528 days precede 1970.
Reference(t) ==
  365 * t.year
    + Multiples(4, t.year) - Multiples(100, t.year) + Multiples(400, t.year)
    + DaysBefore(t.month) + (IF t.month > 2 /\ Leap(t.year) THEN 1 ELSE 0)
    + t.day - 1 - 719528

(***************************************************************************)
(* A date there is gets its exact day by the calendar, leap days, century  *)
(* years and the years before 1970 included, and its exact second, from    *)
(* the card's file as from the server, so that later dates are later       *)
(* timestamps; a date there is not is unknown, and decides nothing.        *)
(***************************************************************************)
DatesAreExact ==
  HasRead =>
    LET t == IF call.source = "card" THEN Written(call.date) ELSE call.date IN
    /\ IsDate(call.date) => t = call.date
    /\ answer.at = IF IsDate(t)
                   THEN <<Reference(t), (t.hour * 60 + t.minute) * 60 + t.second>>
                   ELSE Undated

=============================================================================
