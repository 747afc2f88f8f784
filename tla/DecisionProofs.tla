--------------------------- MODULE DecisionProofs ---------------------------
(***************************************************************************)
(* The comparison of two saves, the reading of dates and the resolution    *)
(* of a save to a ROM of the catalog, for every value their fields may     *)
(* have and for a catalog of every size.                                   *)
(***************************************************************************)
EXTENDS DecisionCheck, SearchProofs

-----------------------------------------------------------------------------
(***************************************************************************)
(* The calendar.  With years that begin in March, a year's leap day is its *)
(* last; the days of whole years, of whole months and of the month add up  *)
(* to what the calendar counts from January.                               *)
(***************************************************************************)
\* Days before a month, counted from March 1st.
LEMMA MonthsFromMarch ==
  ASSUME NEW m \in 1..12
  PROVE  /\ DaysBefore(m) \in Int
         /\ (153 * (IF m > 2 THEN m - 3 ELSE m + 9) + 2) \div 5
              = IF m > 2 THEN DaysBefore(m) - 59 ELSE DaysBefore(m) + 306
<1>1. DaysBefore(1) = 0 /\ DaysBefore(2) = 31 /\ DaysBefore(3) = 59
        /\ DaysBefore(4) = 90 /\ DaysBefore(5) = 120 /\ DaysBefore(6) = 151
        /\ DaysBefore(7) = 181 /\ DaysBefore(8) = 212 /\ DaysBefore(9) = 243
        /\ DaysBefore(10) = 273 /\ DaysBefore(11) = 304 /\ DaysBefore(12) = 334
  BY SMT DEF DaysBefore
<1>2. QED BY <1>1, SMT

\* The days of whole years: eras, and years of the era.
LEMMA YearsFromMarch ==
  ASSUME NEW y \in Int, NEW e \in Int, NEW r \in Int,
         e = y \div 400, r = y - e * 400
  PROVE  e * 146097 + r * 365 + r \div 4 - r \div 100
           = 365 * y + y \div 4 - y \div 100 + y \div 400
<1>1. y \div 4 = 100 * e + r \div 4
  BY SMT
<1>2. y \div 100 = 4 * e + r \div 100
  BY SMT
<1>3. QED BY <1>1, <1>2, SMT

\* The leap years among the years up to n, counted from year 1.
LeapsUpTo(n) == n \div 4 - n \div 100 + n \div 400

\* The leap years before y, counted from year 0, which is one of them.
LeapsBefore(y) == Multiples(4, y) - Multiples(100, y) + Multiples(400, y)

LEMMA LeapYears ==
  ASSUME NEW y \in Nat
  PROVE  /\ LeapsBefore(y) \in Int
         /\ LeapsBefore(y) = LeapsUpTo(y - 1) + 1
         /\ LeapsBefore(y) + (IF Leap(y) THEN 1 ELSE 0) = LeapsUpTo(y) + 1
<1>1. LeapsBefore(y) = (y + 3) \div 4 - (y + 99) \div 100 + (y + 399) \div 400
  BY SMT DEF LeapsBefore, Multiples
<1>2. /\ (y + 3) \div 4 = (y - 1) \div 4 + 1
      /\ (y + 99) \div 100 = (y - 1) \div 100 + 1
      /\ (y + 399) \div 400 = (y - 1) \div 400 + 1
  BY SMT
<1>3. /\ y \div 4 = (y - 1) \div 4 + (IF y % 4 = 0 THEN 1 ELSE 0)
      /\ y \div 100 = (y - 1) \div 100 + (IF y % 100 = 0 THEN 1 ELSE 0)
      /\ y \div 400 = (y - 1) \div 400 + (IF y % 400 = 0 THEN 1 ELSE 0)
  BY SMT
<1>4. (y % 400 = 0 => y % 100 = 0) /\ (y % 100 = 0 => y % 4 = 0)
  BY SMT
<1>5. LeapsUpTo(y) = LeapsUpTo(y - 1) + (IF Leap(y) THEN 1 ELSE 0)
  BY <1>3, <1>4, SMT DEF LeapsUpTo, Leap
<1>6. LeapsBefore(y) = LeapsUpTo(y - 1) + 1
  BY <1>1, <1>2, SMT DEF LeapsUpTo
<1>7. LeapsUpTo(y - 1) \in Int
  BY SMT DEF LeapsUpTo
<1>8. LeapsBefore(y) + (IF Leap(y) THEN 1 ELSE 0) = LeapsUpTo(y) + 1
  <2>1. CASE Leap(y)
    BY <1>5, <1>6, <1>7, <2>1, SMT
  <2>2. CASE ~Leap(y)
    BY <1>5, <1>6, <1>7, <2>2, SMT
  <2>3. QED BY <2>1, <2>2
<1>9. LeapsBefore(y) \in Int
  BY <1>6, <1>7, SMT
<1>10. QED BY <1>6, <1>8, <1>9

LEMMA DayIsExact ==
  ASSUME NEW t, t.year \in Nat, t.month \in 1..12, t.day \in Nat
  PROVE  DaysFromCivil(t.year, t.month, t.day) = Reference(t)
<1> DEFINE m == t.month
           y == IF m <= 2 THEN t.year - 1 ELSE t.year
           e == y \div 400
           r == y - e * 400
           months == (153 * (IF m > 2 THEN m - 3 ELSE m + 9) + 2) \div 5
           years == e * 146097 + r * 365 + r \div 4 - r \div 100
           leapDay == IF m > 2 /\ Leap(t.year) THEN 1 ELSE 0
<1>1. DaysFromCivil(t.year, m, t.day) =
        e * 146097
          + (r * 365 + r \div 4 - r \div 100 + (months + t.day - 1))
          - 719468
  BY SMT DEF DaysFromCivil
<1>2. /\ e \in Int /\ r \in Int /\ months \in Int
      /\ r \div 4 \in Int /\ r \div 100 \in Int
  BY SMT
<1>3. DaysFromCivil(t.year, m, t.day) = years + months + t.day - 719469
  <2> HIDE DEF e, r, months
  <2>1. QED BY <1>1, <1>2, SMT
<1>4. years = 365 * y + LeapsUpTo(y)
  <2>1. y \in Int
    BY SMT
  <2> HIDE DEF y
  <2>2. years = 365 * y + y \div 4 - y \div 100 + y \div 400
    BY <2>1, YearsFromMarch, SMT
  <2>3. QED BY <2>1, <2>2, SMT DEF LeapsUpTo
<1>5. /\ DaysBefore(m) \in Int
      /\ months = IF m > 2 THEN DaysBefore(m) - 59 ELSE DaysBefore(m) + 306
  BY MonthsFromMarch, SMT
<1>6. /\ LeapsBefore(t.year) \in Int
      /\ LeapsBefore(t.year) = LeapsUpTo(t.year - 1) + 1
      /\ LeapsBefore(t.year) + (IF Leap(t.year) THEN 1 ELSE 0)
           = LeapsUpTo(t.year) + 1
  BY LeapYears
<1>7. Reference(t) = 365 * t.year + LeapsBefore(t.year) + DaysBefore(m)
                       + leapDay + t.day - 719529
  <2>1. Reference(t) =
          365 * t.year + Multiples(4, t.year) - Multiples(100, t.year)
            + Multiples(400, t.year) + DaysBefore(m) + leapDay + t.day - 1
            - 719528
    BY DEF Reference
  <2>2. /\ Multiples(4, t.year) \in Int /\ Multiples(100, t.year) \in Int
        /\ Multiples(400, t.year) \in Int /\ leapDay \in Int
    BY SMT DEF Multiples
  <2> HIDE DEF leapDay
  <2>3. QED BY <1>5, <2>1, <2>2, SMT DEF LeapsBefore
<1> HIDE DEF years, months
<1>8. CASE m > 2
  <2>1. y = t.year /\ leapDay = IF Leap(t.year) THEN 1 ELSE 0
    BY <1>8, SMT
  <2>2. LeapsUpTo(t.year) \in Int
    BY SMT DEF LeapsUpTo
  <2> HIDE DEF y, leapDay
  <2>3. QED BY <1>3, <1>4, <1>5, <1>6, <1>7, <1>8, <2>1, <2>2, SMT
<1>9. CASE m <= 2
  <2>1. y = t.year - 1 /\ leapDay = 0
    BY <1>9, SMT
  <2>2. LeapsUpTo(t.year - 1) \in Int
    BY SMT DEF LeapsUpTo
  <2> HIDE DEF y, leapDay
  <2>3. QED BY <1>3, <1>4, <1>5, <1>6, <1>7, <1>9, <2>1, <2>2, SMT
<1>10. QED BY <1>8, <1>9, SMT

-----------------------------------------------------------------------------
(***************************************************************************)
(* A call has one kind of input, and once it is answered the answer is the *)
(* one the code computes.                                                  *)
(***************************************************************************)
Verdict(c) ==
  LET conflict == Detect(c.local, c.remote, c.device) IN
  [conflict |-> conflict, action |-> DefaultAction(conflict),
   confirm |-> RequiresConfirmation(conflict)]

CallIsOne ==
  /\ Compares => call \in Comparison
  /\ Reads => call \in Reading
  /\ Resolves => call \in Resolution

AnswerFollows ==
  /\ Compared => answer = Verdict(call)
  /\ HasRead => answer = [at |-> TimestampOf(call.source, call.date)]
  /\ Resolved => answer = [rom |-> ResolveRomId(call.save, call.catalog)]

IInv == CallIsOne /\ AnswerFollows

LEMMA IInvInit == Init => IInv
<1> SUFFICES ASSUME Init PROVE IInv
  OBVIOUS
<1>1. CASE call \in Comparison
  <2>1. DOMAIN call = {"local", "remote", "device"}
    BY <1>1 DEF Comparison
  <2>2. QED BY <1>1, <2>1 DEF Init, IInv, CallIsOne, AnswerFollows, Compares,
               Reads, Resolves, Compared, HasRead, Resolved
<1>2. CASE call \in Resolution
  <2>1. DOMAIN call = {"save", "catalog"}
    BY <1>2 DEF Resolution
  <2>2. QED BY <1>2, <2>1 DEF Init, IInv, CallIsOne, AnswerFollows, Compares,
               Reads, Resolves, Compared, HasRead, Resolved
<1>3. CASE call \in Reading
  <2>1. DOMAIN call = {"source", "date"}
    BY <1>3 DEF Reading
  <2>2. QED BY <1>3, <2>1 DEF Init, IInv, CallIsOne, AnswerFollows, Compares,
               Reads, Resolves, Compared, HasRead, Resolved
<1>4. QED BY <1>1, <1>2, <1>3 DEF Init

\* The kinds of call exclude each other.
LEMMA OneKind ==
  ASSUME CallIsOne
  PROVE  ~(Compares /\ Reads) /\ ~(Compares /\ Resolves) /\ ~(Reads /\ Resolves)
<1>1. Compares => DOMAIN call = {"local", "remote", "device"}
  BY DEF CallIsOne, Comparison
<1>2. Reads => DOMAIN call = {"source", "date"}
  BY DEF CallIsOne, Reading
<1>3. QED BY <1>1, <1>2 DEF Compares, Reads, Resolves

LEMMA IInvStep == IInv /\ [Next]_vars => IInv'
<1> SUFFICES ASSUME IInv, [Next]_vars PROVE IInv'
  OBVIOUS
<1>1. ~(Compares /\ Reads) /\ ~(Compares /\ Resolves) /\ ~(Reads /\ Resolves)
  BY OneKind DEF IInv
<1>2. CASE Compare
  BY <1>1, <1>2 DEF Compare, IInv, CallIsOne, AnswerFollows, Verdict, Compares,
     Reads, Resolves, Compared, HasRead, Resolved, Comparison, Reading,
     Resolution, Catalogs
<1>3. CASE Resolve
  BY <1>1, <1>3 DEF Resolve, IInv, CallIsOne, AnswerFollows, Compares,
     Reads, Resolves, Compared, HasRead, Resolved, Comparison, Reading,
     Resolution, Catalogs
<1>4. CASE Read
  BY <1>1, <1>4 DEF Read, IInv, CallIsOne, AnswerFollows, Compares,
     Reads, Resolves, Compared, HasRead, Resolved, Comparison, Reading,
     Resolution, Catalogs
<1>5. CASE UNCHANGED vars
  BY <1>5 DEF vars, IInv, CallIsOne, AnswerFollows, Verdict, Compares,
     Reads, Resolves, Compared, HasRead, Resolved, Comparison, Reading,
     Resolution, Catalogs
<1>6. QED BY <1>2, <1>3, <1>4, <1>5 DEF Next

LEMMA IInvHolds == Spec => []IInv
BY IInvInit, IInvStep, PTL DEF Spec

-----------------------------------------------------------------------------
\* What a comparison reads of its two sides, and what it answers.
LEMMA Answered ==
  ASSUME IInv, Compared
  PROVE  /\ call.local.timestamp \in Int /\ call.remote.timestamp \in Int
         /\ answer.conflict = Detect(call.local, call.remote, call.device)
         /\ answer.action = DefaultAction(answer.conflict)
<1>1. call \in Comparison /\ answer = Verdict(call)
  BY DEF IInv, CallIsOne, AnswerFollows, Compared
<1>2. call.local.timestamp \in Times /\ call.remote.timestamp \in Times
  BY <1>1 DEF Comparison, Descriptor
<1>3. QED BY <1>1, <1>2, TimesAssumption DEF Verdict

LEMMA DatedOutcomes ==
  ASSUME NEW l, NEW r, NEW device,
         l.timestamp \in Int, r.timestamp \in Int
  PROVE  /\ Detect(l, r, device) = "local_newer" =>
              0 < r.timestamp /\ r.timestamp < l.timestamp
         /\ Detect(l, r, device) = "remote_newer" =>
              0 < l.timestamp /\ l.timestamp < r.timestamp
BY DEF Detect, BothDated

(***************************************************************************)
(* Whatever the dates, sizes, hashes and origins of two saves: the default *)
(* decision of conflict_resolver.c never puts the older one in place of    *)
(* the newer one, nor moves one of unknown date.                           *)
(***************************************************************************)
THEOREM TheNewerSideIsKept == Spec => []NewerSideIsKept
<1>1. IInv => NewerSideIsKept
  <2> SUFFICES ASSUME IInv, Compared PROVE NewerSideIsKept
    BY DEF NewerSideIsKept
  <2>1. /\ answer.action = "upload" => answer.conflict = "local_newer"
        /\ answer.action = "download" => answer.conflict = "remote_newer"
    BY Answered DEF DefaultAction
  <2>2. QED BY <2>1, Answered, DatedOutcomes DEF NewerSideIsKept
<1>2. QED BY <1>1, IInvHolds, PTL

(***************************************************************************)
(* Two devices that compare the same two foreign saves agree on which is   *)
(* the newer.                                                              *)
(***************************************************************************)
THEOREM TheClassificationIsSymmetric == Spec => []ClassificationIsSymmetric
<1>1. ASSUME NEW l, NEW r, NEW device,
             l.timestamp \in Int, r.timestamp \in Int, ~HasText(device)
      PROVE  Detect(r, l, device) = Mirror(Detect(l, r, device))
  <2>1. ~SameOrigin(l, device) /\ ~SameOrigin(r, device)
    BY <1>1 DEF SameOrigin
  <2>2. BothDated(l, r) <=> BothDated(r, l)
    BY DEF BothDated
  <2>3. ContentDiffers(l, r) <=> ContentDiffers(r, l)
    BY DEF ContentDiffers, HashesDiffer
  <2>4. QED BY <1>1, <2>1, <2>2, <2>3 DEF Detect, Mirror
<1>2. IInv => ClassificationIsSymmetric
  BY <1>1, Answered DEF ClassificationIsSymmetric
<1>3. QED BY <1>2, IInvHolds, PTL

(***************************************************************************)
(* No two saves that their sizes, hashes or known dates tell apart are     *)
(* called alike, unless this device uploaded the remote one.               *)
(***************************************************************************)
THEOREM AlikeMeansIndistinguishable == Spec => []NoneMeansIndistinguishable
<1>1. ASSUME NEW l, NEW r, NEW device,
             l.timestamp \in Int, r.timestamp \in Int,
             Detect(l, r, device) = "none"
      PROVE  /\ ~ContentDiffers(l, r)
             /\ ~(BothDated(l, r) /\ l.timestamp # r.timestamp)
  BY <1>1 DEF Detect
<1>2. IInv => NoneMeansIndistinguishable
  <2> SUFFICES ASSUME IInv, Compared, answer.conflict = "none"
               PROVE  NoneMeansIndistinguishable
    BY DEF NoneMeansIndistinguishable
  <2>1. /\ ~ContentDiffers(call.local, call.remote)
        /\ ~(/\ BothDated(call.local, call.remote)
             /\ call.local.timestamp # call.remote.timestamp)
    BY <1>1, Answered
  <2>2. QED BY <2>1, Answered DEF NoneMeansIndistinguishable, ContentDiffers,
               HashesDiffer, BothDated, HasText
<1>3. QED BY <1>2, IInvHolds, PTL

-----------------------------------------------------------------------------
\* Bringing the fields of a date into their ranges leaves a real date alone.
LEMMA RealDatesStand ==
  ASSUME NEW d \in Dates
  PROVE  /\ Written(d).year \in Nat /\ d.year \in Nat
         /\ IsDate(d) => Written(d) = d
<1>1. /\ d \in [year : Nat, month : Nat, day : Nat,
                hour : Nat, minute : Nat, second : Nat]
      /\ d.year \in Nat /\ d.year <= 9999
  BY DatesAssumption
<1>2. Written(d).year \in Nat
  BY <1>1 DEF Written, Bounded
<1>3. ASSUME IsDate(d) PROVE Written(d) = d
  <2>1. DaysInMonth(d.year, d.month) \in Int
        /\ DaysInMonth(d.year, d.month) <= 31
    BY <1>1, SMT DEF DaysInMonth
  <2>2. /\ d.month \in Int /\ 1 <= d.month /\ d.month <= 12
        /\ d.day \in Int /\ 1 <= d.day /\ d.day <= 31
        /\ d.hour \in Int /\ 0 <= d.hour /\ d.hour <= 23
        /\ d.minute \in Int /\ 0 <= d.minute /\ d.minute <= 59
        /\ d.second \in Int /\ 0 <= d.second /\ d.second <= 59
    BY <1>3, <2>1, SMT DEF IsDate
  <2>3. /\ Bounded(d.year, 0, 9999) = d.year
        /\ Bounded(d.month, 1, 12) = d.month
        /\ Bounded(d.day, 1, 31) = d.day
        /\ Bounded(d.hour, 0, 23) = d.hour
        /\ Bounded(d.minute, 0, 59) = d.minute
        /\ Bounded(d.second, 0, 59) = d.second
    BY <1>1, <2>2, SMT DEF Bounded
  <2>4. QED BY <1>1, <2>3 DEF Written
<1>4. QED BY <1>1, <1>2, <1>3

LEMMA TimestampIsExact ==
  ASSUME NEW t, t.year \in Nat
  PROVE  Timestamp(t) =
           IF IsDate(t)
           THEN <<Reference(t), (t.hour * 60 + t.minute) * 60 + t.second>>
           ELSE Undated
<1>1. CASE IsDate(t)
  <2>1. /\ t.month \in 1..12 /\ t.day \in Nat
        /\ t.hour \in Nat /\ t.minute \in Nat /\ t.second \in Nat
    <3>1. DaysInMonth(t.year, t.month) \in Int
      BY SMT DEF DaysInMonth
    <3>2. QED BY <1>1, <3>1, SMT DEF IsDate
  <2>2. DaysFromCivil(t.year, t.month, t.day) = Reference(t)
    BY <2>1, DayIsExact
  <2>3. t.hour * 3600 + t.minute * 60 + t.second
          = (t.hour * 60 + t.minute) * 60 + t.second
    BY <2>1, SMT
  <2>4. QED BY <1>1, <2>2, <2>3 DEF Timestamp
<1>2. CASE ~IsDate(t)
  BY <1>2 DEF Timestamp
<1>3. QED BY <1>1, <1>2

(***************************************************************************)
(* Every real date of a card's file or of the server's list becomes the    *)
(* exact day and second of the calendar, and an impossible one is unknown: *)
(* for every year, not only those in which the leap rules turn.            *)
(***************************************************************************)
THEOREM DatesAreAlwaysExact == Spec => []DatesAreExact
<1>1. IInv => DatesAreExact
  <2> SUFFICES ASSUME IInv, HasRead PROVE DatesAreExact
    BY DEF DatesAreExact
  <2>1. call.date \in Dates
    BY DEF IInv, CallIsOne, HasRead, Reading
  <2>2. answer.at = TimestampOf(call.source, call.date)
    BY DEF IInv, AnswerFollows
  <2>3. CASE call.source = "card"
    BY <2>1, <2>2, <2>3, RealDatesStand, TimestampIsExact
       DEF TimestampOf, DatesAreExact
  <2>4. CASE call.source # "card"
    BY <2>1, <2>2, <2>4, RealDatesStand, TimestampIsExact
       DEF TimestampOf, DatesAreExact
  <2>5. QED BY <2>3, <2>4
<1>2. QED BY <1>1, IInvHolds, PTL

-----------------------------------------------------------------------------
(***************************************************************************)
(* The catalog's stages are left folds.  FoldLeft is a recursive function  *)
(* on the sets of indexes: it exists because what the hits of a set tell   *)
(* solves its equation, and a solution is unique, so the fold is what the  *)
(* hits tell, and that does not depend on where in the list they stand.    *)
(***************************************************************************)
\* Max, by which FoldLeft finds the entry to meet last.
LEMMA MaxIsLargest ==
  ASSUME NEW n \in Nat, NEW s \in SUBSET (1..n), s # {}
  PROVE  Max(s) \in s /\ \A j \in s : j <= Max(s)
<1> DEFINE back == {k \in 0..n : n - k \in s}
<1>1. back \in SUBSET Nat /\ back # {}
  <2>1. PICK j \in s : TRUE
    OBVIOUS
  <2>2. j \in 1..n /\ n - (n - j) = j /\ n - j \in 0..n
    BY <2>1
  <2>3. n - j \in back
    BY <2>2
  <2>4. back \in SUBSET Nat
    OBVIOUS
  <2> HIDE DEF back
  <2>5. QED BY <2>3, <2>4
<1>2. First(back) \in back /\ \A k \in back : First(back) <= k
  <2> HIDE DEF back
  <2>1. QED BY <1>1, FirstIsLeast
<1>3. ASSUME NEW j \in s PROVE n - j \in back /\ j \in Int
  <2>1. j \in 1..n /\ n - (n - j) = j /\ n - j \in 0..n
    OBVIOUS
  <2>2. QED BY <2>1
<1>4. n - First(back) \in s /\ First(back) \in 0..n
  BY <1>2
<1>5. ASSUME NEW j \in s PROVE n - First(back) >= j
  <2>1. First(back) <= n - j /\ j \in Int
    BY <1>2, <1>3
  <2> HIDE DEF back
  <2>2. QED BY <2>1, <1>4
<1>6. \A j \in s : j \in Int
  BY <1>3
<1> HIDE DEF back
<1>7. Max(s) \in s /\ \A j \in s : Max(s) >= j
  BY <1>4, <1>5 DEF Max
<1>8. QED BY <1>6, <1>7

\* Two folds that begin alike and step alike end alike: a least bound within
\* which they differ would be one step from a smaller one.
LEMMA SameScan ==
  ASSUME NEW n \in Nat, NEW f, NEW g, f[{}] = g[{}],
         \A s \in (SUBSET (1..n)) \ {{}} :
            f[s \ {Max(s)}] = g[s \ {Max(s)}] => f[s] = g[s]
  PROVE  f[1..n] = g[1..n]
<1> DEFINE Differ(m) == \E s \in SUBSET (1..m) : f[s] # g[s]
           bad == {m \in 0..n : Differ(m)}
<1>1. CASE bad = {}
  <2>1. ~Differ(n)
    BY <1>1
  <2>2. QED BY <2>1
<1>2. ASSUME bad # {} PROVE FALSE
  <2> DEFINE m == First(bad)
  <2>1. m \in bad /\ \A k \in bad : m <= k
    <3>1. bad \in SUBSET Nat
      OBVIOUS
    <3> HIDE DEF bad
    <3>2. QED BY <1>2, <3>1, FirstIsLeast
  <2>2. PICK s \in SUBSET (1..m) : f[s] # g[s]
    BY <2>1
  <2>3. m \in Nat /\ m <= n /\ s \in SUBSET (1..n)
    BY <2>1
  <2>4. s # {}
    BY <2>2
  <2> DEFINE x == Max(s)  t == s \ {x}
  <2>5. x \in s /\ \A j \in s : j <= x
    BY <2>3, <2>4, MaxIsLargest
  <2>6. x \in 1..m
    BY <2>5
  <2>7. t \in SUBSET (1..(x - 1))
    <3>1. SUFFICES ASSUME NEW j \in t PROVE j \in 1..(x - 1)
      OBVIOUS
    <3>2. j \in s /\ j # x /\ j <= x /\ j \in 1..m
      BY <2>5
    <3> HIDE DEF x, t, m
    <3>3. QED BY <3>2, <2>6, <2>3
  <2>8. x - 1 \in 0..n /\ x - 1 < m
    <3> HIDE DEF x, t, m
    <3> QED BY <2>3, <2>6
  <2>9. f[t] # g[t]
    <3>1. s \in (SUBSET (1..n)) \ {{}}
      BY <2>3, <2>4
    <3>2. f[s \ {Max(s)}] = g[s \ {Max(s)}] => f[s] = g[s]
      BY <3>1
    <3>3. QED BY <2>2, <3>2
  <2>10. x - 1 \in bad
    BY <2>7, <2>8, <2>9
  <2>11. m <= x - 1
    BY <2>1, <2>10
  <2> HIDE DEF x, t, m
  <2>12. QED BY <2>11, <2>8, <2>6, <2>3
<1>3. QED BY <1>1, <1>2

\* What a unique stage has found when it met the hits H of the list.
UniqueAmong(H, list) ==
  IF H = {} THEN Unmatched
  ELSE [best |-> list[First(H)].rom,
        ambiguous |-> \E i \in H : list[i].rom # list[First(H)].rom]

\* A later index does not change the first one.
LEMMA FirstStays ==
  ASSUME NEW H \in SUBSET Nat, H # {}, NEW x \in Nat, \A j \in H : j <= x
  PROVE  First(H \cup {x}) = First(H)
<1>1. First(H) \in H /\ \A j \in H : First(H) <= j
  BY FirstIsLeast
<1>2. /\ First(H \cup {x}) \in H \cup {x}
      /\ \A j \in H \cup {x} : First(H \cup {x}) <= j
  BY FirstIsLeast
<1>3. First(H) \in Nat /\ First(H \cup {x}) \in Nat
  BY <1>1, <1>2
<1>4. First(H) <= First(H \cup {x}) /\ First(H \cup {x}) <= First(H)
  <2>1. First(H \cup {x}) <= First(H)
    BY <1>1, <1>2
  <2>2. CASE First(H \cup {x}) \in H
    BY <2>1, <2>2, <1>1
  <2>3. CASE First(H \cup {x}) = x
    BY <2>1, <2>3, <1>1
  <2>4. QED BY <2>2, <2>3, <1>2
<1>5. QED BY <1>3, <1>4

\* What becomes of it when it meets the entry x.
Met(found, x, hits, list) ==
  IF x \in hits THEN RegisterUnique(found, list[x].rom) ELSE found

\* The hits have ROMs.
Named(H, list) == \A i \in H : list[i].rom # NoRom

\* Meeting one more entry adds it to the hits, if it is one.
LEMMA UniqueStep ==
  ASSUME NEW n \in Nat, NEW list, NEW K \in SUBSET (1..n), Named(K, list),
         NEW s \in SUBSET (1..n), s # {}
  PROVE  UniqueAmong(K \cap s, list)
           = Met(UniqueAmong(K \cap (s \ {Max(s)}), list), Max(s), K, list)
<1> DEFINE x == Max(s)  H == K \cap (s \ {x})
<1>0. \A j \in H : j \in Nat
  <2>1. \A j \in K : j \in 1..n
    OBVIOUS
  <2>2. QED BY <2>1
<1>1. x \in s /\ \A j \in s : j <= x
  BY MaxIsLargest
<1>2. CASE x \notin K
  <2>1. K \cap s = H
    BY <1>2
  <2>2. QED BY <1>2, <2>1 DEF Met
<1>3. CASE x \in K /\ H = {}
  <2>1. K \cap s = {x}
    BY <1>1, <1>3
  <2>2. First({x}) = x
    <3>1. {x} \in SUBSET Nat /\ {x} # {}
      <4>1. x \in 1..n
        BY <1>1
      <4>2. QED BY <4>1
    <3> HIDE DEF x
    <3>2. QED BY <3>1, FirstIsLeast
  <2>3. UniqueAmong({x}, list) = [best |-> list[x].rom, ambiguous |-> FALSE]
    BY <2>2 DEF UniqueAmong
  <2>4. UniqueAmong(H, list) = Unmatched
    BY <1>3 DEF UniqueAmong
  <2>5. RegisterUnique(Unmatched, list[x].rom)
           = [best |-> list[x].rom, ambiguous |-> FALSE]
    BY DEF RegisterUnique, Unmatched
  <2>6. QED BY <1>3, <2>1, <2>3, <2>4, <2>5 DEF Met
<1>4. CASE x \in K /\ H # {}
  <2>1. K \cap s = H \cup {x}
    BY <1>1, <1>4
  <2>2. First(H \cup {x}) = First(H)
    <3>1. H \in SUBSET Nat
      BY <1>0
    <3>2. x \in 1..n
      BY <1>1
    <3>3. \A j \in H : j <= x
      BY <1>1
    <3> HIDE DEF H, x
    <3>4. QED BY <1>4, <3>1, <3>2, <3>3, FirstStays
  <2>3. First(H) \in H
    <3>1. H \in SUBSET Nat
      BY <1>0
    <3> HIDE DEF H, x
    <3>2. QED BY <1>4, <3>1, FirstIsLeast
  <2>4. list[First(H)].rom # NoRom
    BY <2>3 DEF Named
  <2> HIDE DEF H, x
  <2> DEFINE b == list[First(H)].rom
             amb == \E i \in H : list[i].rom # b
  <2>5. UniqueAmong(H, list) = [best |-> b, ambiguous |-> amb]
    BY <1>4 DEF UniqueAmong
  <2>6. UniqueAmong(H \cup {x}, list)
          = [best |-> b, ambiguous |-> amb \/ list[x].rom # b]
    <3>1. (\E i \in H \cup {x} : list[i].rom # b) <=> (amb \/ list[x].rom # b)
      OBVIOUS
    <3>2. UniqueAmong(H \cup {x}, list)
            = [best |-> b,
               ambiguous |-> \E i \in H \cup {x} : list[i].rom # b]
      BY <2>2 DEF UniqueAmong
    <3>3. QED BY <3>1, <3>2
  <2>7. RegisterUnique([best |-> b, ambiguous |-> amb], list[x].rom)
          = [best |-> b, ambiguous |-> amb \/ b # list[x].rom]
    <3> HIDE DEF b, amb
    <3> QED BY <2>4 DEF RegisterUnique, b
  <2>8. QED BY <1>4, <2>1, <2>5, <2>6, <2>7 DEF H, x, Met
<1>5. QED BY <1>2, <1>3, <1>4

\* The ROMs of the entries H of the list.
RomsOf(H, list) == {list[i].rom : i \in H}

\* The ROM of a set of one; none is the answer to more than one.
OnlyRom(R) == IF \E r \in R : R = {r} THEN CHOOSE r \in R : TRUE ELSE NoRom

\* A unique stage answers the ROM that all hits name, if they name one.
LEMMA UniqueAnswer ==
  ASSUME NEW H \in SUBSET Nat, NEW list
  PROVE  Answer(UniqueAmong(H, list)) = OnlyRom(RomsOf(H, list))
<1> DEFINE R == RomsOf(H, list)
<1>1. CASE H = {}
  <2>1. R = {}
    BY <1>1 DEF RomsOf
  <2>2. OnlyRom(R) = NoRom
    BY <2>1 DEF OnlyRom
  <2>3. QED BY <1>1, <2>2 DEF UniqueAmong, Answer, Unmatched
<1>2. CASE H # {}
  <2> DEFINE b == list[First(H)].rom
             amb == \E i \in H : list[i].rom # b
  <2>1. First(H) \in H
    BY <1>2, FirstIsLeast
  <2>2. b \in R /\ (~amb <=> R = {b})
    BY <2>1 DEF RomsOf
  <2>3. Answer(UniqueAmong(H, list)) = IF amb THEN NoRom ELSE b
    BY <1>2 DEF Answer, UniqueAmong
  <2>4. CASE amb
    <3>1. ~\E r \in R : R = {r}
      BY <2>2, <2>4
    <3>2. QED BY <2>3, <2>4, <3>1 DEF OnlyRom
  <2>5. CASE ~amb
    <3>1. R = {b}
      BY <2>2, <2>5
    <3>2. OnlyRom({b}) = b
      BY DEF OnlyRom
    <3>3. QED BY <2>3, <2>5, <3>1, <3>2
  <2>6. QED BY <2>4, <2>5
<1>3. QED BY <1>1, <1>2

\* The hits with the highest score.
Top(H, score) == {i \in H : \A j \in H : score[j] <= score[i]}

\* What the scored stage has found when it met the hits H of the list.
ScoredAmong(H, score, list) ==
  IF H = {} THEN [score |-> 0, best |-> NoRom, ambiguous |-> FALSE]
  ELSE LET top == Top(H, score) IN
       [score |-> score[First(top)], best |-> list[First(top)].rom,
        ambiguous |-> \E i \in top : list[i].rom # list[First(top)].rom]

\* The hits have scores.
Scored(H, score) == \A i \in H : score[i] \in 1..100

\* Some hit has the highest score.
LEMMA TopExists ==
  ASSUME NEW n \in Nat, NEW H \in SUBSET (1..n), H # {},
         NEW score, Scored(H, score)
  PROVE  Top(H, score) # {}
<1> DEFINE values == {score[i] : i \in H}
<1>1. values \in SUBSET (1..100) /\ values # {}
  BY DEF Scored
<1>2. Max(values) \in values /\ \A v \in values : v <= Max(values)
  <2> HIDE DEF values
  <2> QED BY <1>1, MaxIsLargest
<1>3. PICK i \in H : score[i] = Max(values)
  BY <1>2
<1>4. \A j \in H : score[j] <= score[i]
  BY <1>2, <1>3
<1>5. QED BY <1>4 DEF Top

\* A score is a number, positive for a hit.
LEMMA Scores ==
  ASSUME NEW v
  PROVE  /\ v \in 0..100 => v \in Int /\ v >= 0
         /\ v \in 1..100 => v \in Int /\ v > 0
         /\ v \in 0..100 /\ v > 0 => v \in 1..100
OBVIOUS

\* The entries of a list of n that score.
AreScores(score, n, hits) ==
  /\ \A i \in 1..n : score[i] \in 0..100
  /\ hits = {i \in 1..n : score[i] > 0}

\* Meeting one more entry: a better score starts afresh, an equal one may
\* make the stage ambiguous, a lower one and no score change nothing.
LEMMA ScoredStep ==
  ASSUME NEW n \in Nat, NEW list, NEW score, NEW hits,
         AreScores(score, n, hits),
         NEW s \in SUBSET (1..n), s # {}
  PROVE  ScoredAmong(hits \cap s, score, list) =
           RegisterScored(ScoredAmong(hits \cap (s \ {Max(s)}), score, list),
                          score[Max(s)], list[Max(s)].rom)
<1> DEFINE x == Max(s)
           H == hits \cap (s \ {x})
           P == hits \cap s
           top == Top(H, score)
           found == ScoredAmong(H, score, list)
<1>0. /\ \A i \in 1..n : score[i] \in 0..100
      /\ hits = {i \in 1..n : score[i] > 0}
  BY DEF AreScores
<1>1. x \in s /\ \A j \in s : j <= x
  BY MaxIsLargest
<1>2. x \in 1..n /\ x \in Nat /\ score[x] \in Int /\ score[x] >= 0
  <2>1. x \in 1..n
    BY <1>1
  <2> HIDE DEF x
  <2>2. score[x] \in 0..100
    BY <1>0, <2>1
  <2>3. x \in Nat
    BY <2>1
  <2>4. score[x] \in Int /\ score[x] >= 0
    BY <2>2, Scores
  <2>5. QED BY <2>1, <2>3, <2>4
<1>3. \A i \in H : /\ i \in 1..n /\ i \in Nat /\ i <= x /\ score[i] \in Int
                   /\ score[i] \in 1..100 /\ score[i] > 0
  <2> SUFFICES ASSUME NEW i \in H
               PROVE  /\ i \in 1..n /\ i \in Nat /\ i <= x /\ score[i] \in Int
                      /\ score[i] \in 1..100 /\ score[i] > 0
    OBVIOUS
  <2>1. i \in 1..n /\ score[i] > 0 /\ i <= x
    BY <1>0, <1>1
  <2> HIDE DEF x, H
  <2>2. score[i] \in 0..100
    BY <1>0, <2>1
  <2>3. score[i] \in Int /\ score[i] \in 1..100
    BY <2>1, <2>2, Scores
  <2>4. i \in Nat
    BY <2>1
  <2>5. QED BY <2>1, <2>3, <2>4
<1>4. H # {} => /\ top # {} /\ top \in SUBSET H
                /\ First(top) \in top /\ score[First(top)] \in 1..100
  <2> SUFFICES ASSUME H # {}
               PROVE  /\ top # {} /\ top \in SUBSET H
                      /\ First(top) \in top /\ score[First(top)] \in 1..100
    OBVIOUS
  <2>1. H \in SUBSET (1..n)
    BY <1>3
  <2> HIDE DEF H
  <2>2. top # {}
    BY <1>3, <2>1, TopExists DEF Scored
  <2>3. top \in SUBSET H
    BY DEF Top
  <2>4. top \in SUBSET Nat
    <3>1. \A i \in H : i \in Nat
      BY <2>1
    <3>2. QED BY <2>3, <3>1
  <2> HIDE DEF top
  <2>5. First(top) \in top
    BY <2>2, <2>4, FirstIsLeast
  <2>6. First(top) \in H
    BY <2>3, <2>5
  <2>7. QED BY <1>3, <2>2, <2>3, <2>5, <2>6
<1>5. P = IF score[x] > 0 THEN H \cup {x} ELSE H
  <2>1. CASE score[x] > 0
    BY <1>0, <1>1, <1>2, <2>1
  <2>2. CASE ~(score[x] > 0)
    BY <1>0, <1>1, <1>2, <2>2
  <2>3. QED BY <2>1, <2>2
<1>6. found = IF H = {}
              THEN [score |-> 0, best |-> NoRom, ambiguous |-> FALSE]
              ELSE [score |-> score[First(top)], best |-> list[First(top)].rom,
                    ambiguous |-> \E i \in top :
                                    list[i].rom # list[First(top)].rom]
  BY DEF ScoredAmong
<1> SUFFICES ScoredAmong(P, score, list)
               = RegisterScored(found, score[x], list[x].rom)
  OBVIOUS
<1> DEFINE b == list[First(top)].rom
           m == score[First(top)]
           amb == \E i \in top : list[i].rom # b
<1>7. \A i \in H : i \in top <=> \A j \in H : score[j] <= score[i]
  BY DEF Top
<1>8. H # {} => \A i \in H : score[i] <= m /\ (i \in top <=> score[i] = m)
  <2> SUFFICES ASSUME H # {}, NEW i \in H
               PROVE  score[i] <= m /\ (i \in top <=> score[i] = m)
    OBVIOUS
  <2>1. First(top) \in H /\ \A j \in H : score[j] <= m
    BY <1>4, <1>7
  <2>2. \A j \in H : score[j] \in 1..100
    BY <1>3
  <2>3. score[i] <= m /\ m \in 1..100 /\ score[i] \in 1..100
    BY <2>1, <2>2
  <2>4. score[i] = m => i \in top
    BY <1>7, <2>1
  <2>5. i \in top => m <= score[i]
    BY <1>7, <2>1
  <2>6. m \in Int /\ score[i] \in Int
    BY <2>3, Scores
  <2> HIDE DEF m, H, top
  <2>7. i \in top => score[i] = m
    BY <2>3, <2>5, <2>6
  <2>8. QED BY <2>3, <2>4, <2>7
<1>9. P # {} /\ score[x] > 0 =>
        ScoredAmong(P, score, list) =
          [score |-> score[First(Top(P, score))],
           best |-> list[First(Top(P, score))].rom,
           ambiguous |-> \E i \in Top(P, score) :
                           list[i].rom # list[First(Top(P, score))].rom]
  BY DEF ScoredAmong
<1>16. H # {} => m \in Int /\ m > 0
  <2>1. H # {} => m \in 1..100
    BY <1>4
  <2> HIDE DEF m, H
  <2>2. QED BY <2>1, Scores
<1>17. found = IF H = {}
               THEN [score |-> 0, best |-> NoRom, ambiguous |-> FALSE]
               ELSE [score |-> m, best |-> b, ambiguous |-> amb]
  BY <1>6
<1>18. H # {} => score[First(top)] = m /\ list[First(top)].rom = b
  OBVIOUS
<1>19. amb \in BOOLEAN
  OBVIOUS
<1>20. (\E i \in top \cup {x} : list[i].rom # b) <=> (amb \/ list[x].rom # b)
  OBVIOUS
<1>21. (\E i \in top : list[i].rom # b) <=> amb
  OBVIOUS
<1> HIDE DEF H, P, x, top, found, m, b, amb
<1>10. CASE score[x] = 0
  <2>1. P = H
    BY <1>5, <1>10
  <2>2. CASE H = {}
    <3>1. found = [score |-> 0, best |-> NoRom, ambiguous |-> FALSE]
      BY <1>17, <2>2
    <3>2. ~(0 > 0)
      OBVIOUS
    <3>3. RegisterScored([score |-> 0, best |-> NoRom, ambiguous |-> FALSE],
                         0, list[x].rom)
            = [score |-> 0, best |-> NoRom, ambiguous |-> FALSE]
      BY <3>2 DEF RegisterScored
    <3>4. QED BY <1>10, <2>1, <3>1, <3>3 DEF found
  <2>3. CASE H # {}
    <3>1. found = [score |-> m, best |-> b, ambiguous |-> amb]
      BY <1>17, <2>3
    <3>2. RegisterScored(found, 0, list[x].rom) = found
      BY <1>16, <1>19, <2>3, <3>1 DEF RegisterScored
    <3>3. QED BY <1>10, <2>1, <3>2 DEF found
  <2>4. QED BY <2>2, <2>3
<1>11. CASE score[x] > 0 /\ H = {}
  <2>1. P = {x}
    BY <1>5, <1>11
  <2>2. Top({x}, score) = {x}
    <3>1. score[x] <= score[x]
      BY <1>2
    <3>2. QED BY <3>1 DEF Top
  <2>3. First({x}) = x
    <3>1. {x} \in SUBSET Nat /\ {x} # {}
      BY <1>2
    <3>2. QED BY <3>1, FirstIsLeast
  <2>4. ScoredAmong(P, score, list)
          = [score |-> score[x], best |-> list[x].rom, ambiguous |-> FALSE]
    BY <1>9, <1>11, <2>1, <2>2, <2>3
  <2>5. QED BY <1>17, <1>11, <2>4 DEF RegisterScored
<1>12. CASE score[x] > 0 /\ H # {} /\ score[x] > m
  <2>1. P = H \cup {x}
    BY <1>5, <1>12
  <2>2. Top(P, score) = {x}
    <3>1. \A i \in H : score[i] < score[x] /\ ~(score[x] <= score[i])
      BY <1>2, <1>3, <1>16, <1>8, <1>12
    <3>2. score[x] <= score[x] /\ \A i \in H : score[i] <= score[x]
      BY <1>2, <1>3, <3>1
    <3>3. \A i \in P : (\A j \in P : score[j] <= score[i]) <=> i = x
      BY <2>1, <3>1, <3>2
    <3>4. x \in P
      BY <2>1
    <3>5. QED BY <3>3, <3>4 DEF Top
  <2>3. First({x}) = x
    <3>1. {x} \in SUBSET Nat /\ {x} # {}
      BY <1>2
    <3>2. QED BY <3>1, FirstIsLeast
  <2>4. ScoredAmong(P, score, list)
          = [score |-> score[x], best |-> list[x].rom, ambiguous |-> FALSE]
    BY <1>9, <1>12, <2>1, <2>2, <2>3
  <2>5. QED BY <1>17, <1>12, <2>4 DEF RegisterScored
<1>13. CASE score[x] > 0 /\ H # {} /\ score[x] = m
  <2>1. P = H \cup {x}
    BY <1>5, <1>13
  <2>2. Top(P, score) = top \cup {x}
    <3>1. \A i \in H : score[i] <= score[x]
      BY <1>8, <1>13
    <3>2. \A i \in H : (\A j \in P : score[j] <= score[i]) <=> i \in top
      BY <1>2, <1>3, <1>7, <1>8, <1>13, <2>1
    <3>3. \A j \in P : score[j] <= score[x]
      <4>1. score[x] <= score[x]
        BY <1>2
      <4>2. QED BY <2>1, <3>1, <4>1
    <3>4. QED BY <1>4, <1>13, <2>1, <3>2, <3>3 DEF Top
  <2>3. First(top \cup {x}) = First(top)
    <3>1. top \in SUBSET Nat /\ \A j \in top : j <= x
      BY <1>3, <1>4, <1>13
    <3>2. QED BY <1>2, <1>4, <1>13, <3>1, FirstStays
  <2>5. ScoredAmong(P, score, list)
          = [score |-> m, best |-> b, ambiguous |-> amb \/ list[x].rom # b]
    BY <1>9, <1>13, <1>18, <1>20, <2>1, <2>2, <2>3
  <2>6. found = [score |-> m, best |-> b, ambiguous |-> amb]
    BY <1>17, <1>13
  <2>8. RegisterScored(found, m, list[x].rom)
          = [score |-> m, best |-> b, ambiguous |-> amb \/ b # list[x].rom]
    BY <1>13, <1>16, <1>19, <2>6 DEF RegisterScored
  <2>9. QED BY <1>13, <2>5, <2>8
<1>14. CASE score[x] > 0 /\ H # {} /\ score[x] < m
  <2>1. P = H \cup {x}
    BY <1>5, <1>14
  <2>2. Top(P, score) = top
    <3>1. \A i \in H : (\A j \in P : score[j] <= score[i]) <=> i \in top
      BY <1>2, <1>3, <1>7, <1>8, <1>14, <1>16, <2>1
    <3>2. ~(m <= score[x]) /\ First(top) \in P
      BY <1>2, <1>4, <1>14, <1>16, <2>1
    <3>3. QED BY <1>4, <1>14, <1>18, <2>1, <3>1, <3>2 DEF Top
  <2>3. ScoredAmong(P, score, list)
          = [score |-> m, best |-> b, ambiguous |-> amb]
    <3>1. ScoredAmong(P, score, list)
            = [score |-> score[First(top)], best |-> list[First(top)].rom,
               ambiguous |-> \E i \in top : list[i].rom # list[First(top)].rom]
      BY <1>9, <1>14, <2>1, <2>2
    <3>2. score[First(top)] = m /\ list[First(top)].rom = b
      BY <1>14, <1>18
    <3>3. QED BY <3>1, <3>2 DEF amb
  <2>4. found = [score |-> m, best |-> b, ambiguous |-> amb]
    BY <1>17, <1>14
  <2>6. RegisterScored(found, score[x], list[x].rom) = found
    BY <1>2, <1>14, <1>16, <1>19, <2>4 DEF RegisterScored
  <2>7. QED BY <2>3, <2>4, <2>6
<1>15. QED BY <1>2, <1>16, <1>10, <1>11, <1>12, <1>13, <1>14

\* The scored stage answers the ROM that all best hits name, if one.
LEMMA ScoredAnswer ==
  ASSUME NEW n \in Nat, NEW H \in SUBSET (1..n), NEW list,
         NEW score, Scored(H, score)
  PROVE  Answer(ScoredAmong(H, score, list))
           = OnlyRom(RomsOf(Top(H, score), list))
<1> DEFINE top == Top(H, score)
           R == RomsOf(top, list)
<1>1. CASE H = {}
  <2>1. R = {}
    BY <1>1 DEF Top, RomsOf
  <2>2. OnlyRom(R) = NoRom
    BY <2>1 DEF OnlyRom
  <2>3. QED BY <1>1, <2>2 DEF ScoredAmong, Answer
<1>2. CASE H # {}
  <2> DEFINE b == list[First(top)].rom
             amb == \E i \in top : list[i].rom # b
  <2>1. top # {}
    BY <1>2, TopExists
  <2>2. top \in SUBSET Nat
    <3>1. \A i \in H : i \in Nat
      OBVIOUS
    <3>2. QED BY <3>1 DEF Top
  <2>3. First(top) \in top
    <3> HIDE DEF top
    <3> QED BY <2>1, <2>2, FirstIsLeast
  <2>4. Answer(ScoredAmong(H, score, list)) = IF amb THEN NoRom ELSE b
    BY <1>2 DEF Answer, ScoredAmong
  <2> HIDE DEF top
  <2>5. b \in R /\ (~amb <=> R = {b})
    BY <2>3 DEF RomsOf
  <2>6. CASE amb
    <3>1. ~\E r \in R : R = {r}
      BY <2>5, <2>6
    <3>2. QED BY <2>4, <2>6, <3>1 DEF OnlyRom, top
  <2>7. CASE ~amb
    <3>1. R = {b}
      BY <2>5, <2>7
    <3>2. OnlyRom({b}) = b
      BY DEF OnlyRom
    <3>3. QED BY <2>4, <2>7, <3>1, <3>2 DEF top
  <2>8. QED BY <2>6, <2>7
<1>3. QED BY <1>1, <1>2

-----------------------------------------------------------------------------
\* What the hits so far tell satisfies the equation of the fold.
LEMMA UniqueScanExists ==
  ASSUME NEW n \in Nat, NEW list, NEW hits \in SUBSET (1..n),
         Named(hits, list)
  PROVE  LET among == [s \in SUBSET (1..n) |-> UniqueAmong(hits \cap s, list)]
         IN  /\ among[{}] = Unmatched
             /\ \A s \in (SUBSET (1..n)) \ {{}} :
                   among[s] = Met(among[s \ {Max(s)}], Max(s), hits, list)
<1> DEFINE among == [s \in SUBSET (1..n) |-> UniqueAmong(hits \cap s, list)]
<1>1. among[{}] = Unmatched
  BY DEF UniqueAmong
<1>2. ASSUME NEW s \in (SUBSET (1..n)) \ {{}}
      PROVE  among[s] = Met(among[s \ {Max(s)}], Max(s), hits, list)
  <2>1. among[s \ {Max(s)}] = UniqueAmong(hits \cap (s \ {Max(s)}), list)
    OBVIOUS
  <2>2. among[s] = UniqueAmong(hits \cap s, list)
    OBVIOUS
  <2>3. s \in SUBSET (1..n) /\ s # {}
    OBVIOUS
  <2> HIDE DEF among
  <2>4. UniqueAmong(hits \cap s, list)
          = Met(UniqueAmong(hits \cap (s \ {Max(s)}), list), Max(s), hits, list)
    BY <2>3, UniqueStep
  <2>5. QED BY <2>1, <2>2, <2>4
<1>3. QED BY <1>1, <1>2

\* Hence the fold, whose equation has one solution, tells what the hits tell.
LEMMA UniqueScan ==
  ASSUME NEW n \in Nat, NEW list, NEW hits \in SUBSET (1..n),
         Named(hits, list),
         NEW scan, scan[{}] = Unmatched,
         \A s \in (SUBSET (1..n)) \ {{}} :
            scan[s] = Met(scan[s \ {Max(s)}], Max(s), hits, list)
  PROVE  Answer(scan[1..n]) = OnlyRom(RomsOf(hits, list))
<1> DEFINE among == [s \in SUBSET (1..n) |-> UniqueAmong(hits \cap s, list)]
<1>1. /\ among[{}] = Unmatched
      /\ \A s \in (SUBSET (1..n)) \ {{}} :
            among[s] = Met(among[s \ {Max(s)}], Max(s), hits, list)
  BY UniqueScanExists
<1>2. among[1..n] = UniqueAmong(hits, list)
  <2>1. hits \cap (1..n) = hits
    OBVIOUS
  <2>2. QED BY <2>1
<1> HIDE DEF among
<1>3. ASSUME NEW s \in (SUBSET (1..n)) \ {{}},
             scan[s \ {Max(s)}] = among[s \ {Max(s)}]
      PROVE  scan[s] = among[s]
  BY <1>1, <1>3
<1>4. scan[1..n] = among[1..n]
  BY <1>1, <1>3, SameScan
<1>5. hits \in SUBSET Nat
  OBVIOUS
<1>6. Answer(UniqueAmong(hits, list)) = OnlyRom(RomsOf(hits, list))
  BY <1>5, UniqueAnswer
<1>7. QED BY <1>2, <1>4, <1>6

-----------------------------------------------------------------------------
SerialHit(l, c) == c.rom > 0 /\ Eligible(c) /\ l.game \in c.serials

TitleHit(l, c) == c.rom > 0 /\ Eligible(c) /\ SameText(c.label, l.title)

\* The fold of a stage, as the equation its partial results satisfy.
SerialScan(l, list) ==
  CHOOSE scan : scan =
    [s \in SUBSET DOMAIN list |->
       IF s = {} THEN Unmatched
       ELSE IF SerialHit(l, list[Max(s)])
            THEN RegisterUnique(scan[s \ {Max(s)}], list[Max(s)].rom)
            ELSE scan[s \ {Max(s)}]]

\* Stage 1 answers the one ROM among the bearers of the serial.
LEMMA SerialStage ==
  ASSUME NEW l, NEW n \in Nat, NEW list, DOMAIN list = 1..n,
         \A i \in 1..n : list[i].rom \in Int, l.game \in Long
  PROVE  Answer(BySerial(l, list)) =
           OnlyRom({c.rom : c \in {d \in Range(list) : SerialHit(l, d)}})
<1> DEFINE hits == {i \in 1..n : SerialHit(l, list[i])}
           among == [s \in SUBSET (1..n) |-> UniqueAmong(hits \cap s, list)]
           scan == SerialScan(l, list)
<1>1. BySerial(l, list) = scan[DOMAIN list]
  BY DEF BySerial, FoldLeft, MapThenFoldSet, SerialScan, SerialHit
<1>2. /\ hits \in SUBSET (1..n)
      /\ Named(hits, list)
  BY DEF SerialHit, NoRom, Named
<1>3. \A s \in (SUBSET (1..n)) \ {{}} :
        Max(s) \in hits <=> SerialHit(l, list[Max(s)])
  BY MaxIsLargest
<1>4. RomsOf(hits, list)
        = {c.rom : c \in {d \in Range(list) : SerialHit(l, d)}}
  BY DEF Range, RomsOf
<1> HIDE DEF hits
<1>5. among =
        [s \in SUBSET DOMAIN list |->
           IF s = {} THEN Unmatched
           ELSE IF SerialHit(l, list[Max(s)])
                THEN RegisterUnique(among[s \ {Max(s)}], list[Max(s)].rom)
                ELSE among[s \ {Max(s)}]]
  <2>1. /\ among[{}] = Unmatched
        /\ \A s \in (SUBSET (1..n)) \ {{}} :
              among[s] = Met(among[s \ {Max(s)}], Max(s), hits, list)
    BY <1>2, UniqueScanExists
  <2>2. among = [s \in SUBSET (1..n) |-> among[s]]
    OBVIOUS
  <2> HIDE DEF among
  <2>3. QED BY <1>3, <2>1, <2>2 DEF Met
<1> HIDE DEF among
<1>6. scan =
        [s \in SUBSET DOMAIN list |->
           IF s = {} THEN Unmatched
           ELSE IF SerialHit(l, list[Max(s)])
                THEN RegisterUnique(scan[s \ {Max(s)}], list[Max(s)].rom)
                ELSE scan[s \ {Max(s)}]]
  BY <1>5 DEF SerialScan
<1> HIDE DEF scan
<1>7. /\ scan[{}] = Unmatched
      /\ \A s \in (SUBSET (1..n)) \ {{}} :
            scan[s] = Met(scan[s \ {Max(s)}], Max(s), hits, list)
  BY <1>3, <1>6 DEF Met
<1>8. Answer(scan[1..n]) = OnlyRom(RomsOf(hits, list))
  BY <1>2, <1>7, UniqueScan
<1>9. QED BY <1>1, <1>4, <1>8

\* The fold of a stage, as the equation its partial results satisfy.
TitleScan(l, list) ==
  CHOOSE scan : scan =
    [s \in SUBSET DOMAIN list |->
       IF s = {} THEN Unmatched
       ELSE IF TitleHit(l, list[Max(s)])
            THEN RegisterUnique(scan[s \ {Max(s)}], list[Max(s)].rom)
            ELSE scan[s \ {Max(s)}]]

\* Stage 2 answers the one ROM among the files of that title.
LEMMA TitleStage ==
  ASSUME NEW l, NEW n \in Nat, NEW list, DOMAIN list = 1..n,
         \A i \in 1..n : list[i].rom \in Int, l.title \in Long
  PROVE  Answer(ByTitle(l, list)) =
           OnlyRom({c.rom : c \in {d \in Range(list) : TitleHit(l, d)}})
<1> DEFINE hits == {i \in 1..n : TitleHit(l, list[i])}
           among == [s \in SUBSET (1..n) |-> UniqueAmong(hits \cap s, list)]
           scan == TitleScan(l, list)
<1>1. ByTitle(l, list) = scan[DOMAIN list]
  BY DEF ByTitle, FoldLeft, MapThenFoldSet, TitleScan, TitleHit
<1>2. /\ hits \in SUBSET (1..n)
      /\ Named(hits, list)
  BY DEF TitleHit, NoRom, Named
<1>3. \A s \in (SUBSET (1..n)) \ {{}} :
        Max(s) \in hits <=> TitleHit(l, list[Max(s)])
  BY MaxIsLargest
<1>4. RomsOf(hits, list)
        = {c.rom : c \in {d \in Range(list) : TitleHit(l, d)}}
  BY DEF Range, RomsOf
<1> HIDE DEF hits
<1>5. among =
        [s \in SUBSET DOMAIN list |->
           IF s = {} THEN Unmatched
           ELSE IF TitleHit(l, list[Max(s)])
                THEN RegisterUnique(among[s \ {Max(s)}], list[Max(s)].rom)
                ELSE among[s \ {Max(s)}]]
  <2>1. /\ among[{}] = Unmatched
        /\ \A s \in (SUBSET (1..n)) \ {{}} :
              among[s] = Met(among[s \ {Max(s)}], Max(s), hits, list)
    BY <1>2, UniqueScanExists
  <2>2. among = [s \in SUBSET (1..n) |-> among[s]]
    OBVIOUS
  <2> HIDE DEF among
  <2>3. QED BY <1>3, <2>1, <2>2 DEF Met
<1> HIDE DEF among
<1>6. scan =
        [s \in SUBSET DOMAIN list |->
           IF s = {} THEN Unmatched
           ELSE IF TitleHit(l, list[Max(s)])
                THEN RegisterUnique(scan[s \ {Max(s)}], list[Max(s)].rom)
                ELSE scan[s \ {Max(s)}]]
  BY <1>5 DEF TitleScan
<1> HIDE DEF scan
<1>7. /\ scan[{}] = Unmatched
      /\ \A s \in (SUBSET (1..n)) \ {{}} :
            scan[s] = Met(scan[s \ {Max(s)}], Max(s), hits, list)
  BY <1>3, <1>6 DEF Met
<1>8. Answer(scan[1..n]) = OnlyRom(RomsOf(hits, list))
  BY <1>2, <1>7, UniqueScan
<1>9. QED BY <1>1, <1>4, <1>8

-----------------------------------------------------------------------------
PatternScan(l, list) ==
  CHOOSE scan : scan =
    [s \in SUBSET DOMAIN list |->
       IF s = {} THEN [score |-> 0, best |-> NoRom, ambiguous |-> FALSE]
       ELSE IF Eligible(list[Max(s)])
            THEN RegisterScored(scan[s \ {Max(s)}], Score(l, list[Max(s)]),
                                list[Max(s)].rom)
            ELSE scan[s \ {Max(s)}]]

\* The entries that score, and of these the ones with the highest score.
Scoring(l, S) == {c \in S : Eligible(c) /\ Score(l, c) > 0}
BestScoring(l, S) ==
  {c \in Scoring(l, S) : \A d \in Scoring(l, S) : Score(l, d) <= Score(l, c)}

\* Stage 3 answers the one ROM among the entries of the highest score.
LEMMA PatternStage ==
  ASSUME NEW l, NEW n \in Nat, NEW list, DOMAIN list = 1..n
  PROVE  Answer(ByPattern(l, list))
           = OnlyRom({c.rom : c \in BestScoring(l, Range(list))})
<1> DEFINE score == [i \in 1..n |-> IF Eligible(list[i]) THEN Score(l, list[i])
                                     ELSE 0]
           hits == {i \in 1..n : score[i] > 0}
           among == [s \in SUBSET (1..n) |->
                       ScoredAmong(hits \cap s, score, list)]
           scan == PatternScan(l, list)
<1>1. ByPattern(l, list) = scan[DOMAIN list]
  BY DEF ByPattern, FoldLeft, MapThenFoldSet, PatternScan
<1>2. ASSUME NEW c PROVE Score(l, c) \in 0..100
  BY DEF Score, Larger
<1>3. \A i \in 1..n : score[i] \in 0..100
  BY <1>2
<1>4. \A s \in (SUBSET (1..n)) \ {{}} : Max(s) \in 1..n
  <2>1. SUFFICES ASSUME NEW s \in (SUBSET (1..n)) \ {{}} PROVE Max(s) \in s
    OBVIOUS
  <2>2. QED BY MaxIsLargest
<1>5. /\ \A i \in 1..n : score[i] = IF Eligible(list[i])
                                   THEN Score(l, list[i]) ELSE 0
      /\ \A i \in 1..n : i \in hits <=> score[i] > 0
      /\ \A i \in hits : i \in 1..n
  OBVIOUS
<1> HIDE DEF score
<1>6. RomsOf(Top(hits, score), list)
        = {c.rom : c \in BestScoring(l, Range(list))}
  <2> DEFINE set == Range(list)
  <2>1. \A i \in 1..n : list[i] \in set
    BY DEF Range
  <2>2. \A c \in set : \E i \in 1..n : c = list[i]
    BY DEF Range
  <2> HIDE DEF set, hits
  <2>3. \A i \in 1..n : /\ (i \in hits) <=> (list[i] \in Scoring(l, set))
                        /\ (i \in hits) => (score[i] = Score(l, list[i]))
    <3> SUFFICES ASSUME NEW i \in 1..n
                 PROVE  /\ (i \in hits) <=> (list[i] \in Scoring(l, set))
                        /\ (i \in hits) => (score[i] = Score(l, list[i]))
      OBVIOUS
    <3>1. list[i] \in Scoring(l, set)
            <=> Eligible(list[i]) /\ Score(l, list[i]) > 0
      BY <2>1 DEF Scoring
    <3>2. ~(0 > 0)
      OBVIOUS
    <3>3. CASE Eligible(list[i])
      BY <1>5, <3>1, <3>3
    <3>4. CASE ~Eligible(list[i])
      BY <1>5, <3>1, <3>2, <3>4
    <3>5. QED BY <3>3, <3>4
  <2>4. \A c \in Scoring(l, set) : \E i \in hits : c = list[i]
    <3> SUFFICES ASSUME NEW c \in Scoring(l, set)
                 PROVE  \E i \in hits : c = list[i]
      OBVIOUS
    <3>1. c \in set
      BY DEF Scoring
    <3>2. PICK i \in 1..n : c = list[i]
      BY <2>2, <3>1
    <3>3. (i \in hits) <=> (list[i] \in Scoring(l, set))
      BY <2>3
    <3>5. i \in hits
      BY <3>2, <3>3
    <3>6. QED BY <3>2, <3>5
  <2>5. \A i \in hits :
          i \in Top(hits, score) <=> list[i] \in BestScoring(l, set)
    <3> SUFFICES ASSUME NEW i \in hits
                 PROVE  i \in Top(hits, score)
                          <=> list[i] \in BestScoring(l, set)
      OBVIOUS
    <3>1. i \in Top(hits, score) <=> \A j \in hits : score[j] <= score[i]
      BY DEF Top
    <3>2. list[i] \in BestScoring(l, set) <=>
            \A d \in Scoring(l, set) : Score(l, d) <= Score(l, list[i])
      BY <1>5, <2>3 DEF BestScoring
    <3>3. \A j \in hits : /\ list[j] \in Scoring(l, set)
                          /\ score[j] = Score(l, list[j])
      BY <1>5, <2>3
    <3>4. score[i] = Score(l, list[i])
      BY <3>3
    <3>5. (\A j \in hits : score[j] <= score[i]) <=>
            \A d \in Scoring(l, set) : Score(l, d) <= Score(l, list[i])
      <4>1. ASSUME \A j \in hits : score[j] <= score[i],
                   NEW d \in Scoring(l, set)
            PROVE  Score(l, d) <= Score(l, list[i])
        <5>1. PICK j \in hits : d = list[j]
          BY <2>4
        <5>2. score[j] <= score[i]
          BY <4>1
        <5>3. QED BY <3>3, <3>4, <5>1, <5>2
      <4>2. ASSUME \A d \in Scoring(l, set) : Score(l, d) <= Score(l, list[i]),
                   NEW j \in hits
            PROVE  score[j] <= score[i]
        <5>1. Score(l, list[j]) <= Score(l, list[i])
          BY <3>3, <4>2
        <5>2. QED BY <3>3, <3>4, <5>1
      <4>3. QED BY <4>1, <4>2
    <3>6. QED BY <3>1, <3>2, <3>5
  <2>6. /\ Top(hits, score) \subseteq hits
        /\ BestScoring(l, set) \subseteq Scoring(l, set)
    BY DEF Top, BestScoring
  <2>7. QED BY <2>4, <2>5, <2>6 DEF set, RomsOf
<1>7. ASSUME NEW s \in (SUBSET (1..n)) \ {{}}
      PROVE  among[s] = IF Eligible(list[Max(s)])
                        THEN RegisterScored(among[s \ {Max(s)}],
                                            Score(l, list[Max(s)]),
                                            list[Max(s)].rom)
                        ELSE among[s \ {Max(s)}]
  <2>1. ScoredAmong(hits \cap s, score, list) =
          RegisterScored(ScoredAmong(hits \cap (s \ {Max(s)}), score, list),
                         score[Max(s)], list[Max(s)].rom)
    <3>1. s \in SUBSET (1..n) /\ s # {}
      OBVIOUS
    <3>2. AreScores(score, n, hits)
      BY <1>3 DEF AreScores
    <3> HIDE DEF among, scan, hits
    <3>3. QED BY <3>1, <3>2, ScoredStep
  <2>2. among[s] = ScoredAmong(hits \cap s, score, list)
    OBVIOUS
  <2>3. among[s \ {Max(s)}] = ScoredAmong(hits \cap (s \ {Max(s)}), score, list)
    OBVIOUS
  <2>4. Max(s) \in 1..n
    BY <1>4
  <2> HIDE DEF among, hits
  <2>5. CASE Eligible(list[Max(s)])
    BY <1>5, <2>1, <2>2, <2>3, <2>4, <2>5
  <2>6. CASE ~Eligible(list[Max(s)])
    <3>1. Max(s) \notin hits
      <4>1. ~(0 > 0)
        OBVIOUS
      <4>2. QED BY <1>5, <2>4, <2>6, <4>1
    <3>2. hits \cap s = hits \cap (s \ {Max(s)})
      BY <3>1
    <3>3. QED BY <2>2, <2>3, <2>6, <3>2
  <2>7. QED BY <2>5, <2>6
<1>8. among[{}] = [score |-> 0, best |-> NoRom, ambiguous |-> FALSE]
  BY DEF ScoredAmong
<1>9. among[1..n] = ScoredAmong(hits, score, list)
  <2>1. hits \cap (1..n) = hits
    OBVIOUS
  <2>2. QED BY <2>1
<1>10. among = [s \in SUBSET (1..n) |-> among[s]]
  OBVIOUS
<1>11. hits \in SUBSET (1..n) /\ Scored(hits, score)
  <2>1. \A i \in hits : i \in 1..n /\ score[i] \in 0..100 /\ score[i] > 0
    BY <1>3
  <2>2. QED BY <1>5, <2>1, Scores DEF Scored
<1> HIDE DEF among, hits
<1>12. among =
         [s \in SUBSET DOMAIN list |->
            IF s = {} THEN [score |-> 0, best |-> NoRom, ambiguous |-> FALSE]
            ELSE IF Eligible(list[Max(s)])
                 THEN RegisterScored(among[s \ {Max(s)}],
                                     Score(l, list[Max(s)]),
                                     list[Max(s)].rom)
                 ELSE among[s \ {Max(s)}]]
  BY <1>7, <1>8, <1>10
<1>13. scan =
         [s \in SUBSET DOMAIN list |->
            IF s = {} THEN [score |-> 0, best |-> NoRom, ambiguous |-> FALSE]
            ELSE IF Eligible(list[Max(s)])
                 THEN RegisterScored(scan[s \ {Max(s)}], Score(l, list[Max(s)]),
                                     list[Max(s)].rom)
                 ELSE scan[s \ {Max(s)}]]
  BY <1>12 DEF PatternScan
<1> HIDE DEF scan
<1>14. scan[1..n] = among[1..n]
  <2>1. scan[{}] = among[{}]
    BY <1>12, <1>13
  <2>2. ASSUME NEW s \in (SUBSET (1..n)) \ {{}},
               scan[s \ {Max(s)}] = among[s \ {Max(s)}]
        PROVE  scan[s] = among[s]
    <3>1. s \in SUBSET DOMAIN list /\ s # {}
      BY <2>2
    <3>2. among[s] =
            IF Eligible(list[Max(s)])
            THEN RegisterScored(among[s \ {Max(s)}], Score(l, list[Max(s)]),
                                list[Max(s)].rom)
            ELSE among[s \ {Max(s)}]
      BY <1>12, <3>1
    <3>3. scan[s] =
            IF Eligible(list[Max(s)])
            THEN RegisterScored(scan[s \ {Max(s)}], Score(l, list[Max(s)]),
                                list[Max(s)].rom)
            ELSE scan[s \ {Max(s)}]
      BY <1>13, <3>1
    <3>4. QED BY <2>2, <3>2, <3>3
  <2>3. QED BY <2>1, <2>2, SameScan
<1>15. Answer(ScoredAmong(hits, score, list))
         = OnlyRom(RomsOf(Top(hits, score), list))
  BY <1>11, ScoredAnswer
<1>16. QED BY <1>1, <1>6, <1>9, <1>14, <1>15

-----------------------------------------------------------------------------
\* What a save resolves to, told from the set of the catalog's entries.
Decided(l, S) ==
  LET serial == IF l.game \in Long
                THEN OnlyRom({c.rom : c \in {d \in S : SerialHit(l, d)}})
                ELSE NoRom
      title  == IF l.title \in Long
                THEN OnlyRom({c.rom : c \in {d \in S : TitleHit(l, d)}})
                ELSE NoRom
  IN  IF l.rom > 0 THEN l.rom
      ELSE IF serial # NoRom THEN serial
      ELSE IF title # NoRom THEN title
      ELSE OnlyRom({c.rom : c \in BestScoring(l, S)})

\* The whole resolution, told from the set of the entries.
LEMMA SetDecides ==
  ASSUME NEW l, NEW n \in Nat, NEW list, DOMAIN list = 1..n,
         \A i \in 1..n : list[i].rom \in Int
  PROVE  ResolveRomId(l, list) = Decided(l, Range(list))
<1>1. Answer(BySerial(l, list)) =
        IF l.game \in Long
        THEN OnlyRom({c.rom : c \in {d \in Range(list) : SerialHit(l, d)}})
        ELSE NoRom
  <2>1. CASE l.game \in Long
    BY <2>1, SerialStage
  <2>2. CASE l.game \notin Long
    BY <2>2 DEF BySerial, Answer, Unmatched
  <2>3. QED BY <2>1, <2>2
<1>2. Answer(ByTitle(l, list)) =
        IF l.title \in Long
        THEN OnlyRom({c.rom : c \in {d \in Range(list) : TitleHit(l, d)}})
        ELSE NoRom
  <2>1. CASE l.title \in Long
    BY <2>1, TitleStage
  <2>2. CASE l.title \notin Long
    BY <2>2 DEF ByTitle, Answer, Unmatched
  <2>3. QED BY <2>1, <2>2
<1>3. Answer(ByPattern(l, list))
        = OnlyRom({c.rom : c \in BestScoring(l, Range(list))})
  BY PatternStage
<1>4. QED BY <1>1, <1>2, <1>3 DEF ResolveRomId, Decided

\* Entries of another platform are no part of what decides.
LEMMA EligibleDecide ==
  ASSUME NEW l, NEW S, NEW T, {c \in S : Eligible(c)} = {c \in T : Eligible(c)}
  PROVE  Decided(l, S) = Decided(l, T)
<1>1. {d \in S : SerialHit(l, d)} = {d \in T : SerialHit(l, d)}
  BY DEF SerialHit
<1>2. {d \in S : TitleHit(l, d)} = {d \in T : TitleHit(l, d)}
  BY DEF TitleHit
<1>3. BestScoring(l, S) = BestScoring(l, T)
  <2>1. Scoring(l, S) = Scoring(l, T)
    BY DEF Scoring
  <2>2. QED BY <2>1 DEF BestScoring
<1>4. QED BY <1>1, <1>2, <1>3 DEF Decided

(***************************************************************************)
(* game_matcher_resolve_rom_id answers from the set of the PS1 ROMs        *)
(* listed: neither their order, nor how often one is listed, nor any ROM   *)
(* of another platform matters to the ROM a save is given.                 *)
(***************************************************************************)
THEOREM ResolutionIsOfThePs1Roms ==
  ASSUME NEW l, NEW m \in Nat, NEW n \in Nat, NEW listed, NEW other,
         DOMAIN listed = 1..m, DOMAIN other = 1..n,
         \A i \in 1..m : listed[i].rom \in Int,
         \A i \in 1..n : other[i].rom \in Int,
         {c \in Range(listed) : Eligible(c)}
           = {c \in Range(other) : Eligible(c)}
  PROVE  ResolveRomId(l, listed) = ResolveRomId(l, other)
<1>1. ResolveRomId(l, listed) = Decided(l, Range(listed))
  BY SetDecides
<1>2. ResolveRomId(l, other) = Decided(l, Range(other))
  BY SetDecides
<1>3. QED BY <1>1, <1>2, EligibleDecide

-----------------------------------------------------------------------------
\* The call of a resolution and its answer.
LEMMA ResolutionAnswered ==
  ASSUME IInv, Resolved
  PROVE  /\ answer.rom = ResolveRomId(call.save, call.catalog)
         /\ \E n \in Nat : call.catalog \in [1..n -> Candidates]
<1>1. call \in Resolution
  BY DEF IInv, CallIsOne, Resolved
<1>2. answer = [rom |-> ResolveRomId(call.save, call.catalog)]
  BY DEF IInv, AnswerFollows
<1>3. QED BY <1>1, <1>2 DEF Resolution, Catalogs

\* The ROMs of a catalog.
LEMMA CandidateRoms ==
  ASSUME NEW n, NEW list \in [1..n -> Candidates]
  PROVE  /\ DOMAIN list = 1..n
         /\ \A i \in 1..n : list[i].rom \in Int /\ list[i].rom > 0
BY LabelsAssumption

(***************************************************************************)
(* Whatever the order in which the server lists its catalog, of any size,  *)
(* a save resolves to the same ROM.                                        *)
(***************************************************************************)
THEOREM TheOrderDoesNotMatter == Spec => []OrderDoesNotMatter
<1>1. IInv => OrderDoesNotMatter
  <2> SUFFICES ASSUME IInv, Resolved,
                      NEW p \in Bijection(DOMAIN call.catalog,
                                         DOMAIN call.catalog)
               PROVE  ResolveRomId(call.save,
                        [i \in DOMAIN call.catalog |-> call.catalog[p[i]]])
                        = answer.rom
    BY DEF OrderDoesNotMatter
  <2> DEFINE list == call.catalog
             permuted == [i \in DOMAIN list |-> list[p[i]]]
  <2>1. PICK n \in Nat : list \in [1..n -> Candidates]
    BY ResolutionAnswered
  <2>2. /\ DOMAIN list = 1..n
        /\ \A i \in 1..n : list[i].rom \in Int
    BY <2>1, CandidateRoms
  <2>3. /\ p \in [1..n -> 1..n]
        /\ \A w \in 1..n : \E v \in 1..n : p[v] = w
    BY <2>2 DEF Bijection, Injection, Surjection, IsInjective
  <2> HIDE DEF list
  <2>4. /\ DOMAIN permuted = 1..n
        /\ \A i \in 1..n : permuted[i].rom \in Int
    BY <2>2, <2>3
  <2>5. Range(permuted) = Range(list)
    BY <2>2, <2>3 DEF Range
  <2> HIDE DEF permuted
  <2>6. ResolveRomId(call.save, permuted) = ResolveRomId(call.save, list)
    BY <2>2, <2>4, <2>5, SetDecides
  <2>7. QED BY <2>6, ResolutionAnswered DEF permuted, list
<1>2. QED BY <1>1, IInvHolds, PTL

\* Sequences are as long together as apart.
LEMMA Joined ==
  ASSUME NEW S, NEW p \in Seq(S), NEW q \in Seq(S)
  PROVE  p \o q \in Seq(S) /\ Len(p \o q) = Len(p) + Len(q)
OBVIOUS

(***************************************************************************)
(* In a catalog of any size, a ROM of another platform changes no answer,  *)
(* whatever its serials, its names and its place.                          *)
(***************************************************************************)
THEOREM OtherPlatformsNeverMatter == Spec => []OtherPlatformsDoNotMatter
<1>1. IInv => OtherPlatformsDoNotMatter
  <2> SUFFICES ASSUME IInv, Resolved, NEW k \in DOMAIN call.catalog,
                      call.catalog[k].platform = "other"
               PROVE  ResolveRomId(call.save, RemoveAt(call.catalog, k))
                        = answer.rom
    BY DEF OtherPlatformsDoNotMatter
  <2> DEFINE list == call.catalog
             rest == RemoveAt(list, k)
  <2>1. PICK n \in Nat : list \in [1..n -> Candidates]
    BY ResolutionAnswered
  <2>2. /\ DOMAIN list = 1..n
        /\ \A i \in 1..n : list[i].rom \in Int
        /\ k \in 1..n /\ ~Eligible(list[k])
    BY <2>1, CandidateRoms DEF Eligible
  <2> HIDE DEF list
  <2>3. /\ DOMAIN rest = 1..(n - 1)
        /\ \A j \in 1..(n - 1) : rest[j] = list[IF j < k THEN j ELSE j + 1]
    <3>1. list \in Seq(Candidates) /\ Len(list) = n
      BY <2>1, <2>2
    <3>2. /\ SubSeq(list, 1, k - 1) \in Seq(Candidates)
          /\ Len(SubSeq(list, 1, k - 1)) = k - 1
          /\ \A j \in 1..(k - 1) : SubSeq(list, 1, k - 1)[j] = list[j]
      BY <2>2, <3>1
    <3>3. /\ SubSeq(list, k + 1, n) \in Seq(Candidates)
          /\ Len(SubSeq(list, k + 1, n)) = n - k
          /\ \A j \in 1..(n - k) : SubSeq(list, k + 1, n)[j] = list[k + j]
      BY <2>2, <3>1
    <3>4. rest = SubSeq(list, 1, k - 1) \o SubSeq(list, k + 1, n)
      BY <3>1 DEF RemoveAt
    <3> DEFINE a == SubSeq(list, 1, k - 1)
               z == SubSeq(list, k + 1, n)
    <3>5. /\ a \in Seq(Candidates) /\ Len(a) = k - 1
          /\ z \in Seq(Candidates) /\ Len(z) = n - k
          /\ rest = a \o z
      BY <3>2, <3>3, <3>4
    <3>6. /\ \A j \in 1..(k - 1) : a[j] = list[j]
          /\ \A j \in 1..(n - k) : z[j] = list[k + j]
      BY <3>2, <3>3
    <3> HIDE DEF a, z, rest
    <3>7. k - 1 \in Nat /\ n - k \in Nat /\ (k - 1) + (n - k) = n - 1
      BY <2>2
    <3>8. DOMAIN rest = 1..(n - 1)
      <4>1. rest \in Seq(Candidates)
        BY <3>5, Joined
      <4>2. Len(rest) = Len(a) + Len(z)
        BY <3>5, Joined
      <4>3. DOMAIN rest = 1..Len(rest)
        BY <4>1
      <4>4. Len(rest) = n - 1
        BY <3>5, <3>7, <4>2
      <4>5. QED BY <4>3, <4>4
    <3>9. ASSUME NEW j \in 1..(n - 1)
          PROVE  rest[j] = list[IF j < k THEN j ELSE j + 1]
      <4>1. CASE j < k
        <5>1. j \in 1..(k - 1)
          BY <2>2, <4>1
        <5>2. rest[j] = a[j]
          BY <3>5, <5>1
        <5>3. QED BY <3>6, <4>1, <5>1, <5>2
      <4>2. CASE ~(j < k)
        <5>1. j - (k - 1) \in 1..(n - k) /\ k + (j - (k - 1)) = j + 1
          BY <2>2, <4>2
        <5>2. /\ j \in Int /\ ~(j <= Len(a)) /\ j >= 1
              /\ j <= Len(a) + Len(z)
          BY <2>2, <3>5, <3>7, <4>2
        <5>3. rest[j] = z[j - Len(a)]
          BY <3>5, <5>2
        <5>4. QED BY <3>5, <3>6, <4>2, <5>1, <5>3
      <4>3. QED BY <4>1, <4>2
    <3>10. QED BY <3>8, <3>9
  <2>4. n - 1 \in Nat
    BY <2>2
  <2> HIDE DEF rest
  <2>5. \A i \in 1..(n - 1) : rest[i].rom \in Int
    BY <2>2, <2>3
  <2>6. {c \in Range(list) : Eligible(c)} = {c \in Range(rest) : Eligible(c)}
    <3>1. ASSUME NEW i \in 1..n, Eligible(list[i])
          PROVE  \E j \in 1..(n - 1) : rest[j] = list[i]
      <4>1. CASE i < k
        BY <2>2, <2>3, <4>1
      <4>2. CASE i > k
        <5>1. i - 1 \in 1..(n - 1) /\ rest[i - 1] = list[i]
          BY <2>2, <2>3, <4>2
        <5>2. QED BY <5>1
      <4>3. QED BY <2>2, <3>1, <4>1, <4>2
    <3>2. ASSUME NEW j \in 1..(n - 1)
          PROVE  \E i \in 1..n : rest[j] = list[i]
      BY <2>2, <2>3
    <3>3. QED BY <2>2, <2>3, <3>1, <3>2 DEF Range
  <2>7. ResolveRomId(call.save, rest) = ResolveRomId(call.save, list)
    BY <2>2, <2>3, <2>4, <2>5, <2>6, ResolutionIsOfThePs1Roms
  <2>8. QED BY <2>7, ResolutionAnswered DEF list, rest
<1>2. QED BY <1>1, IInvHolds, PTL

(***************************************************************************)
(* A save whose identifier is the serial of one PS1 ROM of the catalog     *)
(* gets that ROM, whatever the titles and file names of the others.        *)
(***************************************************************************)
THEOREM TheSerialDecides == Spec => []SerialDecides
<1>1. IInv => SerialDecides
  <2> SUFFICES ASSUME IInv, Resolved, call.save.rom = NoRom,
                      NEW r \in Bearers, Bearers = {r}
               PROVE  answer.rom = r
    BY DEF SerialDecides
  <2> DEFINE l == call.save  list == call.catalog
  <2>1. PICK n \in Nat : list \in [1..n -> Candidates]
    BY ResolutionAnswered
  <2>2. /\ DOMAIN list = 1..n
        /\ \A i \in 1..n : list[i].rom \in Int /\ list[i].rom > 0
    BY <2>1, CandidateRoms
  <2>3. \A c \in Range(list) : c.rom \in Int /\ c.rom > 0
    BY <2>2 DEF Range
  <2>4. r \in Int /\ r > 0 /\ l.game \in Long
    BY <2>3 DEF Bearers
  <2>5. {c.rom : c \in {d \in Range(list) : SerialHit(l, d)}} = {r}
    <3>1. \A d \in Range(list) :
            SerialHit(l, d) <=> /\ d.platform # "other"
                                /\ l.game \in Long \cap d.serials
      BY <2>3, <2>4 DEF SerialHit, Eligible
    <3>2. {c.rom : c \in {d \in Range(list) : SerialHit(l, d)}} = Bearers
      BY <3>1 DEF Bearers
    <3>3. QED BY <3>2
  <2>6. OnlyRom({r}) = r
    BY DEF OnlyRom
  <2>7. answer.rom = Decided(l, Range(list))
    BY <2>2, ResolutionAnswered, SetDecides
  <2>8. ~(l.rom > 0) /\ r # NoRom
    BY <2>4 DEF NoRom
  <2> HIDE DEF l, list
  <2>9. QED BY <2>4, <2>5, <2>6, <2>7, <2>8 DEF Decided
<1>2. QED BY <1>1, IInvHolds, PTL

=============================================================================
