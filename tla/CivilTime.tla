------------------------------ MODULE CivilTime ------------------------------
(***************************************************************************)
(* How a date becomes the timestamp saves are compared by: the card's      *)
(* file date (save_scanner.c writes it down, scan_to_sync_adapter.c reads  *)
(* it with sync_parse_local_timestamp) and the date in the server's list   *)
(* (parse_iso_timestamp).  Either is taken as it stands, without a zone.   *)
(*                                                                         *)
(* A date is [year, month, day, hour, minute, second], as the digits of    *)
(* its text give it; a timestamp is the pair of its day, counted from      *)
(* 1970-01-01, and its second in that day.                                 *)
(***************************************************************************)
EXTENDS Integers

\* The mutated form forgets the centuries.
LeapJulian(y) == y % 4 = 0

\* is_leap_year
Leap(y) == y % 4 = 0 /\ (y % 100 # 0 \/ y % 400 = 0)

\* days_in_month, for a month there is
DaysInMonth(y, m) ==
  CASE m = 2 -> IF Leap(y) THEN 29 ELSE 28
    [] m \in {4, 6, 9, 11} -> 30
    [] OTHER -> 31

\* days_from_civil: years begin in March, and 400 of them are an era.
DaysFromCivil(year, month, day) ==
  LET y == IF month <= 2 THEN year - 1 ELSE year
      era == y \div 400
      yearOfEra == y - era * 400
      dayOfYear == (153 * (IF month > 2 THEN month - 3 ELSE month + 9) + 2)
                     \div 5 + day - 1
      dayOfEra == yearOfEra * 365 + yearOfEra \div 4 - yearOfEra \div 100
                    + dayOfYear
  IN era * 146097 + dayOfEra - 719468

\* A date that cannot be read leaves 0, which counts as unknown.
Undated == <<0, 0>>

\* A date there is, at a time of day there is.
IsDate(t) ==
  /\ t.month \in 1..12
  /\ t.day \in 1..DaysInMonth(t.year, t.month)
  /\ t.hour \in 0..23
  /\ t.minute \in 0..59
  /\ t.second \in 0..59

\* sync_parse_local_timestamp, parse_iso_timestamp
Timestamp(t) ==
  IF IsDate(t)
  THEN <<DaysFromCivil(t.year, t.month, t.day),
         t.hour * 3600 + t.minute * 60 + t.second>>
  ELSE Undated

Bounded(n, low, high) == IF n < low THEN low ELSE IF n > high THEN high ELSE n

\* format_timestamp: each field of a file's date is brought into its range.
Written(t) ==
  [year   |-> Bounded(t.year, 0, 9999),
   month  |-> Bounded(t.month, 1, 12),
   day    |-> Bounded(t.day, 1, 31),
   hour   |-> Bounded(t.hour, 0, 23),
   minute |-> Bounded(t.minute, 0, 59),
   second |-> Bounded(t.second, 0, 59)]

TimestampOf(source, t) ==
  IF source = "card" THEN Timestamp(Written(t)) ELSE Timestamp(t)

=============================================================================
