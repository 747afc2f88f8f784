------------------------ MODULE HttpTransactionProofs ------------------------
(***************************************************************************)
(* For every set of modules others may have loaded and everything the      *)
(* console may refuse to release: nothing is up without its foundation,    *)
(* nothing leaks, and a file is left exactly by a successful download.     *)
(***************************************************************************)
EXTENDS HttpTransaction, TLAPS

(***************************************************************************)
(* The two orders.  Every line of SetUp is a line of TearDown, and what    *)
(* something needs is set up before it and taken down after it.            *)
(***************************************************************************)
LEMMA LinesAreResources ==
  \A l \in Lines : SetUp[l] \in Resources /\ TearDown[l] \in Resources
BY DEF Lines, Last, SetUp, TearDown, Resources, Modules

LEMMA EverythingIsTakenDown ==
  \A s \in Resources : \E l \in Lines : TearDown[l] = s
<1>1. TearDown[1] = "request" /\ TearDown[2] = "connection"
        /\ TearDown[3] = "template" /\ TearDown[4] = "unverified"
        /\ TearDown[5] = "ssl" /\ TearDown[6] = "http"
        /\ TearDown[7] = "netctl" /\ TearDown[8] = "net"
        /\ TearDown[9] = "pool" /\ TearDown[10] = "HTTPS"
        /\ TearDown[11] = "SSL" /\ TearDown[12] = "HTTP"
        /\ TearDown[13] = "NET"
  BY DEF TearDown
<1>2. QED BY <1>1 DEF Lines, Last, Resources, Modules

LEMMA FoundationsFirst ==
  \A l \in Lines : \A s \in Needs(SetUp[l]) :
    \E k \in Lines : k < l /\ SetUp[k] = s
<1>1. SetUp[1] = "NET" /\ SetUp[2] = "pool" /\ SetUp[3] = "net"
        /\ SetUp[4] = "netctl" /\ SetUp[5] = "HTTP" /\ SetUp[6] = "http"
        /\ SetUp[7] = "SSL" /\ SetUp[8] = "HTTPS" /\ SetUp[9] = "ssl"
        /\ SetUp[10] = "template" /\ SetUp[11] = "unverified"
        /\ SetUp[12] = "connection" /\ SetUp[13] = "request"
  BY DEF SetUp
<1>2. QED BY <1>1 DEF Lines, Last, Needs

LEMMA FoundationsLast ==
  \A l \in Lines : \A s \in Resources : TearDown[l] \in Needs(s) =>
    \E k \in Lines : k < l /\ TearDown[k] = s
<1>1. TearDown[1] = "request" /\ TearDown[2] = "connection"
        /\ TearDown[3] = "template" /\ TearDown[4] = "unverified"
        /\ TearDown[5] = "ssl" /\ TearDown[6] = "http"
        /\ TearDown[7] = "netctl" /\ TearDown[8] = "net"
        /\ TearDown[9] = "pool" /\ TearDown[10] = "HTTPS"
        /\ TearDown[11] = "SSL" /\ TearDown[12] = "HTTP"
        /\ TearDown[13] = "NET"
  BY DEF TearDown
<1>2. QED BY <1>1 DEF Lines, Last, Needs, Resources, Modules

\* What is needed by something the request wants, the request wants.
LEMMA FoundationsAreWanted ==
  \A s \in Resources : Wanted(s) =>
    \A f \in Needs(s) : f \in Resources /\ Wanted(f) /\ f # "unverified"
BY DEF Resources, Modules, Needs, Wanted

-----------------------------------------------------------------------------
(***************************************************************************)
(* The inductive invariant.  What is up is what the request holds, what    *)
(* others brought and what was not released, and these are apart; what was *)
(* wanted on the lines of the set-up that are done is up; what stands on   *)
(* the lines of the tear-down that are done is not held; and the file      *)
(* follows the phase.                                                      *)
(***************************************************************************)
Accounted ==
  /\ up = (foreign \cup held) \cup stuck
  /\ held \cap foreign = {}
  /\ held \cap stuck = {}

AtEnds == phase \in {"rest", "returned"} => at = 1 /\ held = {}

SetUpSoFar ==
  phase = "setup" =>
    \A k \in Lines : k < at /\ Wanted(SetUp[k]) /\ SetUp[k] # "unverified" =>
      SetUp[k] \in up

TakenDownSoFar ==
  phase = "teardown" => \A k \in Lines : k < at => TearDown[k] \notin held

FileFollows ==
  /\ phase \in {"rest", "setup", "open"} => file = "none" /\ result = "network"
  /\ phase \in {"open", "stream"} => req.toFile /\ result = "network"
  /\ phase \in {"teardown", "returned"} =>
       (file # "none" <=> req.toFile /\ result = "ok")

HttpInv ==
  /\ HttpTypeOK
  /\ Accounted
  /\ AtEnds
  /\ SetUpSoFar
  /\ TakenDownSoFar
  /\ Layered
  /\ FileFollows

LEMMA HttpInvInit == HttpInit => HttpInv
<1> SUFFICES ASSUME HttpInit PROVE HttpInv
  OBVIOUS
<1>1. HttpTypeOK
  BY ForeignAssumption
  DEF HttpInit, HttpTypeOK, Requests, NoRequest, Phases, Last, Answers,
      Modules, Resources
<1>2. Accounted /\ AtEnds /\ SetUpSoFar /\ TakenDownSoFar
  BY DEF HttpInit, Accounted, AtEnds, SetUpSoFar, TakenDownSoFar
<1>3. Layered /\ FileFollows
  BY DEF HttpInit, Layered, FileFollows
<1>4. QED BY <1>1, <1>2, <1>3 DEF HttpInv

LEMMA HttpInvNext == HttpInv /\ [HttpNext]_httpVars => HttpInv'
<1> SUFFICES ASSUME HttpInv, [HttpNext]_httpVars PROVE HttpInv'
  OBVIOUS
<1>0. HttpTypeOK /\ Accounted /\ AtEnds /\ SetUpSoFar /\ TakenDownSoFar
        /\ Layered /\ FileFollows
  BY DEF HttpInv
<1> USE <1>0
<1>1. ASSUME NEW r \in Requests, Begin(r)
     PROVE  HttpInv'
  <2>1. HttpTypeOK' /\ Accounted' /\ AtEnds'
    BY <1>1 DEF Begin, HttpTypeOK, Accounted, AtEnds, Phases, Answers, Last
  <2>2. SetUpSoFar' /\ TakenDownSoFar'
    BY <1>1 DEF Begin, HttpTypeOK, AtEnds, SetUpSoFar, TakenDownSoFar,
      Lines, Wanted
  <2>3. Layered' /\ FileFollows'
    BY <1>1 DEF Begin, HttpTypeOK, Layered, FileFollows, NoRequest
  <2>4. QED BY <2>1, <2>2, <2>3 DEF HttpInv
<1>2. ASSUME NEW l \in Lines, Acquire(l)
     PROVE  HttpInv'
  <2> DEFINE s == SetUp[l]
  <2>1. s \in Resources /\ Wanted(s)
    BY <1>2, LinesAreResources DEF Acquire, SettingUp
  <2>2. HttpTypeOK'
    BY <1>2, <2>1 DEF Acquire, SettingUp, GoOn, HttpTypeOK, Lines, Last
  <2>3. s \notin foreign
    BY <1>2 DEF Acquire, HttpTypeOK, Accounted
  <2>4. Accounted' /\ AtEnds' /\ TakenDownSoFar' /\ FileFollows'
    BY <1>2, <2>3 DEF Acquire, SettingUp, GoOn, HttpTypeOK, Accounted, AtEnds,
      TakenDownSoFar, FileFollows
  <2>5. ASSUME NEW k \in Lines, k < at', Wanted(SetUp[k]),
               SetUp[k] # "unverified"
        PROVE  SetUp[k] \in up'
    <3>1. k = l \/ k < at \/ k \in at..(l - 1)
      BY <1>2, <2>5 DEF Acquire, SettingUp, GoOn, HttpTypeOK, Lines, Last
    <3>2. QED BY <1>2, <2>5, <3>1 DEF Acquire, SettingUp, SetUpSoFar
  <2>6. SetUpSoFar'
    BY <1>2, <2>5 DEF Acquire, SetUpSoFar, Wanted
  <2>7. Needs(s) \subseteq up
    <3> SUFFICES ASSUME NEW f \in Needs(s) PROVE f \in up
      OBVIOUS
    <3>1. PICK k \in Lines : k < l /\ SetUp[k] = f
      BY FoundationsFirst
    <3>2. Wanted(f) /\ f # "unverified"
      BY <2>1, FoundationsAreWanted
    <3>3. k < at
      BY <1>2, <3>1, <3>2 DEF Acquire, SettingUp, HttpTypeOK, Lines, Last
    <3>4. QED BY <1>2, <3>1, <3>2, <3>3 DEF Acquire, SettingUp, SetUpSoFar
  <2>8. Layered'
    BY <1>2, <2>7 DEF Acquire, Layered
  <2>9. QED BY <2>2, <2>4, <2>6, <2>8 DEF HttpInv
<1>3. ASSUME NEW l \in Lines, AlreadyLoaded(l)
     PROVE  HttpInv'
  <2>1. HttpTypeOK' /\ Accounted' /\ AtEnds' /\ TakenDownSoFar' /\ FileFollows'
    BY <1>3 DEF AlreadyLoaded, SettingUp, GoOn, HttpTypeOK, Accounted, AtEnds,
      TakenDownSoFar, FileFollows, Lines, Last
  <2>2. ASSUME NEW k \in Lines, k < at', Wanted(SetUp[k]),
               SetUp[k] # "unverified"
        PROVE  SetUp[k] \in up
    <3>1. k = l \/ k < at \/ k \in at..(l - 1)
      BY <1>3, <2>2 DEF AlreadyLoaded, SettingUp, GoOn, HttpTypeOK, Lines, Last
    <3>2. QED BY <1>3, <2>2, <3>1 DEF AlreadyLoaded, SettingUp, SetUpSoFar
  <2>3. SetUpSoFar'
    BY <1>3, <2>2 DEF AlreadyLoaded, SetUpSoFar, Wanted
  <2>4. Layered'
    BY <1>3 DEF AlreadyLoaded, Layered
  <2>5. QED BY <2>1, <2>3, <2>4 DEF HttpInv
<1>4. ASSUME NEW l \in Lines, AcquireFails(l), SetUp[l] = "unverified"
     PROVE  HttpInv'
  <2>1. HttpTypeOK' /\ Accounted' /\ AtEnds' /\ TakenDownSoFar' /\ FileFollows'
    BY <1>4 DEF AcquireFails, SettingUp, GoOn, HttpTypeOK, Accounted, AtEnds,
      TakenDownSoFar, FileFollows, Lines, Last
  <2>2. ASSUME NEW k \in Lines, k < at', Wanted(SetUp[k]),
               SetUp[k] # "unverified"
        PROVE  SetUp[k] \in up
    <3>1. k = l \/ k < at \/ k \in at..(l - 1)
      BY <1>4, <2>2 DEF AcquireFails, SettingUp, GoOn, HttpTypeOK, Lines, Last
    <3>2. QED BY <1>4, <2>2, <3>1 DEF AcquireFails, SettingUp, SetUpSoFar
  <2>3. SetUpSoFar'
    BY <1>4, <2>2 DEF AcquireFails, SetUpSoFar, Wanted
  <2>4. Layered'
    BY <1>4 DEF AcquireFails, Layered
  <2>5. QED BY <2>1, <2>3, <2>4 DEF HttpInv
<1>5. ASSUME NEW l \in Lines, AcquireFails(l), SetUp[l] # "unverified"
     PROVE  HttpInv'
  <2>1. HttpTypeOK' /\ Accounted' /\ AtEnds'
    BY <1>5 DEF AcquireFails, SettingUp, Unwind, HttpTypeOK, Accounted, AtEnds, Phases, Answers, Last
  <2>2. SetUpSoFar' /\ TakenDownSoFar'
    BY <1>5 DEF AcquireFails, SettingUp, Unwind, HttpTypeOK, AtEnds, SetUpSoFar, TakenDownSoFar,
      Lines, Wanted
  <2>3. Layered' /\ FileFollows'
    BY <1>5 DEF AcquireFails, SettingUp, Unwind, HttpTypeOK, Layered, FileFollows, NoRequest
  <2>4. QED BY <2>1, <2>2, <2>3 DEF HttpInv
<1>6. ASSUME NEW l \in Lines, Release(l)
     PROVE  HttpInv'
  <2> DEFINE s == TearDown[l]
  <2>1. s \in Resources /\ s \in held /\ phase = "teardown"
    BY <1>6, LinesAreResources DEF Release, TakingDown
  <2>2. HttpTypeOK' /\ Accounted' /\ AtEnds' /\ SetUpSoFar' /\ FileFollows'
    BY <1>6, <2>1 DEF Release, GoOn, HttpTypeOK, Accounted, AtEnds, SetUpSoFar,
      FileFollows, Lines, Last
  <2>3. ASSUME NEW k \in Lines, k < l PROVE TearDown[k] \notin held
    <3>1. k < at \/ k \in at..(l - 1)
      BY <2>3 DEF HttpTypeOK, Lines, Last
    <3>2. QED BY <1>6, <2>1, <3>1 DEF Release, TakingDown, TakenDownSoFar
  <2>4. ASSUME NEW k \in Lines, k < at' PROVE TearDown[k] \notin held'
    <3>1. k = l \/ k < l
      BY <1>6, <2>4 DEF Release, GoOn, Lines, Last
    <3>2. QED BY <1>6, <2>3, <3>1 DEF Release
  <2>5. TakenDownSoFar'
    BY <2>4 DEF TakenDownSoFar
  <2>6. ASSUME NEW t \in up' \ (stuck' \cup foreign') PROVE Needs(t) \subseteq up'
    <3>1. t \in held /\ t \in Resources /\ Needs(t) \subseteq up
      BY <1>6 DEF Release, HttpTypeOK, Accounted, Layered
    <3>2. s \notin Needs(t)
      <4> SUFFICES ASSUME s \in Needs(t) PROVE FALSE
        OBVIOUS
      <4>1. PICK k \in Lines : k < l /\ TearDown[k] = t
        BY <3>1, FoundationsLast
      <4>2. QED BY <2>3, <3>1, <4>1
    <3>3. QED BY <1>6, <3>1, <3>2 DEF Release
  <2>7. Layered'
    BY <2>6 DEF Layered
  <2>8. QED BY <2>2, <2>5, <2>7 DEF HttpInv
<1>7. ASSUME NEW l \in Lines, ReleaseFails(l)
     PROVE  HttpInv'
  <2> DEFINE s == TearDown[l]
  <2>1. s \in Resources /\ s \in held /\ phase = "teardown"
    BY <1>7, LinesAreResources DEF ReleaseFails, TakingDown
  <2>2. HttpTypeOK' /\ Accounted' /\ AtEnds' /\ SetUpSoFar' /\ FileFollows'
    BY <1>7, <2>1 DEF ReleaseFails, GoOn, HttpTypeOK, Accounted, AtEnds, SetUpSoFar,
      FileFollows, Lines, Last
  <2>3. ASSUME NEW k \in Lines, k < l PROVE TearDown[k] \notin held
    <3>1. k < at \/ k \in at..(l - 1)
      BY <2>3 DEF HttpTypeOK, Lines, Last
    <3>2. QED BY <1>7, <2>1, <3>1 DEF ReleaseFails, TakingDown, TakenDownSoFar
  <2>4. ASSUME NEW k \in Lines, k < at' PROVE TearDown[k] \notin held'
    <3>1. k = l \/ k < l
      BY <1>7, <2>4 DEF ReleaseFails, GoOn, Lines, Last
    <3>2. QED BY <1>7, <2>3, <3>1 DEF ReleaseFails
  <2>5. TakenDownSoFar'
    BY <2>4 DEF TakenDownSoFar
  <2>6. Layered'
    BY <1>7 DEF ReleaseFails, Layered
  <2>7. QED BY <2>2, <2>5, <2>6 DEF HttpInv
<1>8. ASSUME SendFails
     PROVE  HttpInv'
  <2>1. HttpTypeOK' /\ Accounted' /\ AtEnds'
    BY <1>8 DEF SendFails, Ready, Unwind, HttpTypeOK, Accounted, AtEnds, Phases, Answers, Last
  <2>2. SetUpSoFar' /\ TakenDownSoFar'
    BY <1>8 DEF SendFails, Ready, Unwind, HttpTypeOK, AtEnds, SetUpSoFar, TakenDownSoFar,
      Lines, Wanted
  <2>3. Layered' /\ FileFollows'
    BY <1>8 DEF SendFails, Ready, Unwind, HttpTypeOK, Layered, FileFollows, NoRequest
  <2>4. QED BY <2>1, <2>2, <2>3 DEF HttpInv
<1>9. ASSUME Answer
     PROVE  HttpInv'
  <2>1. HttpTypeOK' /\ Accounted' /\ AtEnds'
    BY <1>9 DEF Answer, Ready, Unwind, HttpTypeOK, Accounted, AtEnds, Phases, Answers, Last
  <2>2. SetUpSoFar' /\ TakenDownSoFar'
    BY <1>9 DEF Answer, Ready, Unwind, HttpTypeOK, AtEnds, SetUpSoFar, TakenDownSoFar,
      Lines, Wanted
  <2>3. Layered' /\ FileFollows'
    BY <1>9 DEF Answer, Ready, Unwind, HttpTypeOK, Layered, FileFollows, NoRequest
  <2>4. QED BY <2>1, <2>2, <2>3 DEF HttpInv
<1>10. ASSUME FileOpens
     PROVE  HttpInv'
  <2>1. HttpTypeOK' /\ Accounted' /\ AtEnds'
    BY <1>10 DEF FileOpens, HttpTypeOK, Accounted, AtEnds, Phases, Answers, Last
  <2>2. SetUpSoFar' /\ TakenDownSoFar'
    BY <1>10 DEF FileOpens, HttpTypeOK, AtEnds, SetUpSoFar, TakenDownSoFar,
      Lines, Wanted
  <2>3. Layered' /\ FileFollows'
    BY <1>10 DEF FileOpens, HttpTypeOK, Layered, FileFollows, NoRequest
  <2>4. QED BY <2>1, <2>2, <2>3 DEF HttpInv
<1>11. ASSUME FileRefused
     PROVE  HttpInv'
  <2>1. HttpTypeOK' /\ Accounted' /\ AtEnds'
    BY <1>11 DEF FileRefused, Unwind, HttpTypeOK, Accounted, AtEnds, Phases, Answers, Last
  <2>2. SetUpSoFar' /\ TakenDownSoFar'
    BY <1>11 DEF FileRefused, Unwind, HttpTypeOK, AtEnds, SetUpSoFar, TakenDownSoFar,
      Lines, Wanted
  <2>3. Layered' /\ FileFollows'
    BY <1>11 DEF FileRefused, Unwind, HttpTypeOK, Layered, FileFollows, NoRequest
  <2>4. QED BY <2>1, <2>2, <2>3 DEF HttpInv
<1>12. ASSUME StreamEnds
     PROVE  HttpInv'
  <2>1. HttpTypeOK' /\ Accounted' /\ AtEnds'
    BY <1>12 DEF StreamEnds, Unwind, HttpTypeOK, Accounted, AtEnds, Phases, Answers, Last
  <2>2. SetUpSoFar' /\ TakenDownSoFar'
    BY <1>12 DEF StreamEnds, Unwind, HttpTypeOK, AtEnds, SetUpSoFar, TakenDownSoFar,
      Lines, Wanted
  <2>3. Layered' /\ FileFollows'
    BY <1>12 DEF StreamEnds, Unwind, HttpTypeOK, Layered, FileFollows, NoRequest
  <2>4. QED BY <2>1, <2>2, <2>3 DEF HttpInv
<1>13. ASSUME StreamFails
     PROVE  HttpInv'
  <2>1. HttpTypeOK' /\ Accounted' /\ AtEnds'
    BY <1>13 DEF StreamFails, RemoveFile, Unwind, HttpTypeOK, Accounted, AtEnds, Phases, Answers, Last
  <2>2. SetUpSoFar' /\ TakenDownSoFar'
    BY <1>13 DEF StreamFails, RemoveFile, Unwind, HttpTypeOK, AtEnds, SetUpSoFar, TakenDownSoFar,
      Lines, Wanted
  <2>3. Layered' /\ FileFollows'
    BY <1>13 DEF StreamFails, RemoveFile, Unwind, HttpTypeOK, Layered, FileFollows, NoRequest
  <2>4. QED BY <2>1, <2>2, <2>3 DEF HttpInv
<1>14. ASSUME Return
     PROVE  HttpInv'
  <2>1. \A k \in Lines : TearDown[k] \notin held
    <3> SUFFICES ASSUME NEW k \in Lines PROVE TearDown[k] \notin held
      OBVIOUS
    <3>1. k < at \/ k \in at..Last
      BY DEF HttpTypeOK, Lines, Last
    <3>2. QED BY <1>14, <3>1 DEF Return, TakenDownSoFar
  <2>2. held = {}
    BY <2>1, EverythingIsTakenDown DEF HttpTypeOK
  <2>3. HttpTypeOK' /\ Accounted' /\ AtEnds' /\ SetUpSoFar' /\ TakenDownSoFar'
    BY <1>14, <2>2 DEF Return, HttpTypeOK, Accounted, AtEnds, SetUpSoFar,
      TakenDownSoFar, Phases, Last
  <2>4. Layered' /\ FileFollows'
    BY <1>14 DEF Return, Layered, FileFollows
  <2>5. QED BY <2>3, <2>4 DEF HttpInv
<1>15. ASSUME Collected
     PROVE  HttpInv'
  <2>1. HttpTypeOK' /\ Accounted' /\ AtEnds'
    BY <1>15 DEF Collected, RemoveFile, HttpTypeOK, Accounted, AtEnds, Phases, Answers, Last,
      Requests, NoRequest
  <2>2. SetUpSoFar' /\ TakenDownSoFar'
    BY <1>15 DEF Collected, RemoveFile, HttpTypeOK, AtEnds, SetUpSoFar, TakenDownSoFar,
      Lines, Wanted
  <2>3. Layered' /\ FileFollows'
    BY <1>15 DEF Collected, RemoveFile, HttpTypeOK, Layered, FileFollows, NoRequest
  <2>4. QED BY <2>1, <2>2, <2>3 DEF HttpInv
<1>16. ASSUME ProcessEnds
     PROVE  HttpInv'
  <2>1. HttpTypeOK' /\ Accounted' /\ AtEnds'
    BY <1>16 DEF ProcessEnds, HttpTypeOK, Accounted, AtEnds, Phases, Answers, Last
  <2>2. SetUpSoFar' /\ TakenDownSoFar'
    BY <1>16 DEF ProcessEnds, HttpTypeOK, AtEnds, SetUpSoFar, TakenDownSoFar,
      Lines, Wanted
  <2>3. Layered' /\ FileFollows'
    BY <1>16 DEF ProcessEnds, HttpTypeOK, Layered, FileFollows, NoRequest
  <2>4. QED BY <2>1, <2>2, <2>3 DEF HttpInv
<1>17. CASE UNCHANGED httpVars
  BY <1>17 DEF httpVars, HttpInv, HttpTypeOK, Accounted, AtEnds, SetUpSoFar,
    TakenDownSoFar, Layered, FileFollows, Wanted
<1>18. QED
  BY <1>1, <1>2, <1>3, <1>4, <1>5, <1>6, <1>7, <1>8, <1>9, <1>10, <1>11, <1>12, <1>13, <1>14, <1>15, <1>16, <1>17
  DEF HttpNext, HttpStep

LEMMA HttpInvariant == HttpSpec => []HttpInv
BY HttpInvInit, HttpInvNext, PTL DEF HttpSpec

-----------------------------------------------------------------------------
\* The state of a request stays well formed.
THEOREM HttpTypeCorrect == HttpSpec => []HttpTypeOK
<1>1. HttpInv => HttpTypeOK
  BY DEF HttpInv
<1>2. QED BY <1>1, HttpInvariant, PTL

\* Whichever calls fail, nothing is up whose foundation is not.
THEOREM NothingStandsOnNothing == HttpSpec => []Layered
<1>1. HttpInv => Layered
  BY DEF HttpInv
<1>2. QED BY <1>1, HttpInvariant, PTL

\* A request that has returned has released what it brought up, on any path.
THEOREM NothingIsLeaked == HttpSpec => []NothingLeaks
<1>1. HttpInv => NothingLeaks
  BY DEF HttpInv, NothingLeaks, Accounted, AtEnds
<1>2. QED BY <1>1, HttpInvariant, PTL

\* There is a file at the destination exactly after a successful download.
THEOREM FilesMeanSuccess == HttpSpec => []FileMeansSuccess
<1>1. HttpInv => FileMeansSuccess
  BY DEF HttpInv, FileMeansSuccess, FileFollows
<1>2. QED BY <1>1, HttpInvariant, PTL

-----------------------------------------------------------------------------
(***************************************************************************)
(* How many steps a request has before it, at most: the lines of the       *)
(* set-up, the file, the lines of the tear-down, and its return.           *)
(***************************************************************************)
RequestLeft ==
  CASE phase = "rest" -> 32
    [] phase = "setup" -> 32 - at
    [] phase = "open" -> 17
    [] phase = "stream" -> 16
    [] phase = "teardown" -> 15 - at
    [] phase = "returned" -> 0

RequestSteps == HttpStep \/ \E r \in Requests : Begin(r)

LEMMA RequestLeftIn ==
  ASSUME HttpTypeOK
  PROVE  /\ phase = "rest" => RequestLeft = 32
         /\ phase = "setup" => RequestLeft = 32 - at
         /\ phase = "open" => RequestLeft = 17
         /\ phase = "stream" => RequestLeft = 16
         /\ phase = "teardown" => RequestLeft = 15 - at
         /\ phase = "returned" => RequestLeft = 0
         /\ RequestLeft \in 0..32
<1>1. phase \in Phases /\ at \in 1..14
  BY DEF HttpTypeOK, Last
<1>2. QED BY <1>1 DEF Phases, RequestLeft

LEMMA RequestAdvances ==
  ASSUME HttpTypeOK, HttpTypeOK', RequestSteps
  PROVE  RequestLeft' < RequestLeft
<1>0. at \in 1..14 /\ at' \in 1..14 /\ phase \in Phases
  BY DEF HttpTypeOK, Last
<1> DEFINE Left(ph, a) ==
      CASE ph = "rest" -> 32
        [] ph = "setup" -> 32 - a
        [] ph = "open" -> 17
        [] ph = "stream" -> 16
        [] ph = "teardown" -> 15 - a
        [] ph = "returned" -> 0
<1>1. RequestLeft = Left(phase, at) /\ RequestLeft' = Left(phase', at')
  BY DEF RequestLeft
<1>2. /\ Left("rest", at) = 32 /\ Left("setup", at) = 32 - at
      /\ Left("open", at) = 17 /\ Left("stream", at) = 16
      /\ Left("teardown", at) = 15 - at
  OBVIOUS
<1>3. /\ Left("setup", at') = 32 - at' /\ Left("open", at') = 17
      /\ Left("stream", at') = 16 /\ Left("teardown", at') = 15 - at'
      /\ Left("returned", at') = 0
  OBVIOUS
<1> HIDE DEF Left
<1>4. CASE \E r \in Requests : Begin(r)
  BY <1>0, <1>1, <1>2, <1>3, <1>4 DEF Begin
<1>5. ASSUME NEW l \in Lines,
             \/ Acquire(l) \/ AlreadyLoaded(l)
             \/ AcquireFails(l) \/ Release(l) \/ ReleaseFails(l)
      PROVE  RequestLeft' < RequestLeft
  <2>1. l \in Int /\ at <= l
    BY <1>5
    DEF Lines, Last, Acquire, AlreadyLoaded, AcquireFails, Release,
      ReleaseFails, SettingUp, TakingDown
  <2>2. CASE GoOn(l) /\ phase \in {"setup", "teardown"}
    BY <1>0, <1>1, <1>2, <1>3, <2>1, <2>2 DEF GoOn
  <2>3. CASE Unwind /\ phase = "setup"
    BY <1>0, <1>1, <1>2, <1>3, <2>3 DEF Unwind
  <2>4. QED
    BY <1>5, <2>2, <2>3
    DEF Acquire, AlreadyLoaded, AcquireFails, Release, ReleaseFails,
      SettingUp, TakingDown
<1>6. CASE SendFails \/ Answer
  BY <1>0, <1>1, <1>2, <1>3, <1>6 DEF SendFails, Answer, Ready, Unwind
<1>7. CASE FileOpens \/ FileRefused \/ StreamEnds \/ StreamFails
  BY <1>0, <1>1, <1>2, <1>3, <1>7
  DEF FileOpens, FileRefused, StreamEnds, StreamFails, Unwind
<1>8. CASE Return
  BY <1>0, <1>1, <1>2, <1>3, <1>8 DEF Return
<1>9. QED BY <1>4, <1>5, <1>6, <1>7, <1>8 DEF RequestSteps, HttpStep

\* Every step of a request brings it nearer its return, whichever calls fail:
\* it has returned after at most 32 steps.
RequestAlwaysReturns == [][RequestSteps => RequestLeft' < RequestLeft]_httpVars

\* No path of set-up, exchange and tear-down goes back.
THEOREM RequestsReturn == HttpSpec => RequestAlwaysReturns
<1>1. HttpInv /\ HttpInv' =>
        [RequestSteps => RequestLeft' < RequestLeft]_httpVars
  BY RequestAdvances DEF HttpInv
<1>2. QED
  BY <1>1, HttpInvariant, PTL DEF RequestAlwaysReturns

=============================================================================
