-------------------------- MODULE ApplicationProofs --------------------------
(***************************************************************************)
(* The menu, for every set of cards and games, every capacity and every    *)
(* height of the list: the indices fit the list, the armed game survives   *)
(* every scan that finds it, and what is synchronized is what was          *)
(* confirmed.  Then the application: its menu is SyncMenu's and its        *)
(* requests are HttpTransaction's, so that what is proved of either holds  *)
(* of it, and requests are made only for a synchronization in progress.    *)
(***************************************************************************)
EXTENDS Application, HttpTransactionProofs, FiniteSetTheorems, TLAPS

LEMMA ListsAreSequences ==
  ASSUME NEW g \in Lists
  PROVE  g \in Seq(Games) /\ Len(g) \in Nat /\ DOMAIN g = 1..Len(g)
<1>1. PICK n \in 0..MaxItems : g \in [1..n -> Games]
  BY DEF Lists
<1>2. n \in Nat
  BY CapacityAssumption
<1>3. QED BY <1>1, <1>2

LEMMA ScansAreSequences ==
  ASSUME NEW s \in Scans
  PROVE  s \in Seq(Cards)
<1>1. PICK n \in 0..MaxItems : s \in [1..n -> Cards]
  BY DEF Scans
<1>2. n \in Nat
  BY CapacityAssumption
<1>3. QED BY <1>1, <1>2

\* No card, no game.
LEMMA EmptyIsThere == <<>> \in Lists /\ <<>> \in Scans
<1>1. 0 \in 0..MaxItems
  BY CapacityAssumption
<1>2. <<>> \in [1..0 -> Games] /\ <<>> \in [1..0 -> Cards]
  OBVIOUS
<1>3. QED BY <1>1, <1>2 DEF Lists, Scans

-----------------------------------------------------------------------------
(***************************************************************************)
(* The inductive invariant: the list holds the games of the inventory's    *)
(* cards; the row of the list that has the focus is the armed one.         *)
(***************************************************************************)
ListFits == {games[k] : k \in DOMAIN games} = {GameOf[c] : c \in Found}

OffIsClean ==
  screen = "off" => games = <<>> /\ items = <<>> /\ active = -1 /\ selected = 0

FocusArms == selected >= GameBase => active = selected - GameBase

AskedHere == screen \in {"confirm", "busy"} => selected \in {Primary, All}

MenuInv ==
  /\ MenuTypeOK
  /\ ListFits
  /\ OffIsClean
  /\ FocusArms
  /\ AskedHere
  /\ IndicesFit
  /\ SyncGetsTheGame

\* What a scan leaves behind.
LEMMA AfterScan ==
  ASSUME MenuInv, Refresh
  PROVE  /\ items' \in Scans /\ games' \in Lists /\ scroll' = 0
         /\ ListFits'
         /\ active' \in -1..(Len(games') - 1)
         /\ games' # <<>> => active' >= 0
         /\ \/ Armed \notin {games'[k] : k \in DOMAIN games'}
            \/ Armed' = Armed
<1>1. items' \in Scans /\ games' \in Lists /\ scroll' = 0
  BY DEF Refresh
<1>2. games' \in Seq(Games) /\ Len(games') \in Nat /\ DOMAIN games' = 1..Len(games')
  BY <1>1, ListsAreSequences
<1>3. ListFits'
  BY DEF Refresh, IsListOf, ListFits, Found
<1>4. CASE games' = <<>>
  BY <1>1, <1>2, <1>3, <1>4 DEF Refresh, Restored
<1>5. CASE games' # <<>> /\ Armed \notin {games'[k] : k \in DOMAIN games'}
  <2>1. Len(games') > 0
    BY <1>2, <1>5
  <2>2. active' = 0
    BY <1>5 DEF Refresh, Restored
  <2>3. QED BY <1>1, <1>2, <1>3, <1>5, <2>1, <2>2
<1>6. CASE games' # <<>> /\ Armed \in {games'[k] : k \in DOMAIN games'}
  <2>1. PICK k \in 1..Len(games') : games'[k] = Armed /\ active' = k - 1
    BY <1>2, <1>6 DEF Refresh, Restored
  <2>2. Armed' = Armed
    BY <1>2, <2>1 DEF Armed
  <2>3. QED BY <1>1, <1>2, <1>3, <2>1, <2>2
<1>7. QED BY <1>4, <1>5, <1>6

LEMMA MenuInvInit == MenuInit => MenuInv
<1> SUFFICES ASSUME MenuInit PROVE MenuInv
  OBVIOUS
<1>1. <<>> \in Lists /\ <<>> \in Scans
  BY EmptyIsThere
<1>3. MenuTypeOK
  BY <1>1 DEF MenuInit, MenuTypeOK, Screens
<1>4. ListFits /\ OffIsClean /\ FocusArms /\ AskedHere
  BY DEF MenuInit, ListFits, Found, OffIsClean, FocusArms, AskedHere, GameBase
<1>5. IndicesFit /\ SyncGetsTheGame
  BY DEF MenuInit, IndicesFit, SyncGetsTheGame, Rows, GameBase
<1>6. QED BY <1>3, <1>4, <1>5 DEF MenuInv

LEMMA ScanInvariant ==
  ASSUME MenuInv, ScanAgain, selected \in {Primary, All, RescanRow}
  PROVE  MenuInv'
<1>1. /\ items' \in Scans /\ games' \in Lists /\ scroll' = 0 /\ ListFits'
      /\ active' \in -1..(Len(games') - 1) /\ (games' # <<>> => active' >= 0)
  BY AfterScan DEF ScanAgain
<1>2. Len(games') \in Nat
  BY <1>1, ListsAreSequences
<1>3. selected' = selected /\ selected' \in 0..5
  BY <1>2 DEF ScanAgain, Clamped, Primary, All, RescanRow, GameBase
<1>4. MenuTypeOK'
  BY <1>1, <1>2, <1>3 DEF ScanAgain, Back, settings, MenuInv, MenuTypeOK, Screens
<1>5. OffIsClean' /\ FocusArms' /\ AskedHere'
  BY <1>3 DEF ScanAgain, Back, OffIsClean, FocusArms, AskedHere, GameBase
<1>6. IndicesFit' /\ SyncGetsTheGame'
  BY <1>1, <1>2, <1>3 DEF ScanAgain, Back, IndicesFit, SyncGetsTheGame, Rows,
    GameBase
<1>7. QED BY <1>1, <1>4, <1>5, <1>6 DEF MenuInv

\* The row a game's key is found at is a game of the inventory.
LEMMA ArmedIsFound ==
  ASSUME MenuInv, Armed # NoGame
  PROVE  Armed \in Games /\ \E c \in Found : GameOf[c] = Armed
<1>1. Armed \in {games[k] : k \in DOMAIN games}
  BY DEF Armed
<1>2. Found \subseteq Cards
  BY ScansAreSequences DEF MenuInv, MenuTypeOK, Found
<1>3. QED BY <1>1, <1>2 DEF MenuInv, ListFits, Games

LEMMA DrawKeepsIndices ==
  ASSUME MenuInv, Draw
  PROVE  selected' = selected /\ active' = active
<1>1. Len(games) \in Nat /\ (games = <<>> <=> Len(games) = 0)
  BY ListsAreSequences DEF MenuInv, MenuTypeOK
<1>2. /\ selected \in 0..(5 + Len(games))
      /\ active \in -1..(Len(games) - 1)
      /\ games # <<>> => active >= 0
  BY <1>1 DEF MenuInv, IndicesFit, Rows, GameBase, Draw
<1>3. selected' = selected
  BY <1>1, <1>2 DEF Draw, Clamped, GameBase
<1>4. active' = active
  <2>1. CASE games = <<>>
    BY <1>1, <1>2, <2>1 DEF Draw
  <2>2. CASE games # <<>>
    BY <1>1, <1>2, <2>2 DEF Draw, Clamped
  <2>3. QED BY <2>1, <2>2
<1>5. QED BY <1>3, <1>4

LEMMA MenuInvNext == MenuInv /\ [MenuNext]_menuVars => MenuInv'
<1> SUFFICES ASSUME MenuInv, [MenuNext]_menuVars PROVE MenuInv'
  OBVIOUS
<1>0. MenuTypeOK /\ ListFits /\ OffIsClean /\ FocusArms /\ AskedHere
        /\ IndicesFit /\ SyncGetsTheGame
  BY DEF MenuInv
<1>a. games \in Seq(Games) /\ Len(games) \in Nat /\ DOMAIN games = 1..Len(games)
  BY <1>0, ListsAreSequences DEF MenuTypeOK
<1> USE <1>0, <1>a, CapacityAssumption
<1>1. CASE Launch
  <2>1. /\ items' \in Scans /\ games' \in Lists /\ scroll' = 0 /\ ListFits'
        /\ active' \in -1..(Len(games') - 1) /\ (games' # <<>> => active' >= 0)
    BY <1>1, AfterScan DEF Launch
  <2>2. Len(games') \in Nat
    BY <2>1, ListsAreSequences
  <2>3. selected' = 0
    BY <1>1 DEF Launch, OffIsClean
  <2>4. MenuTypeOK'
    BY <1>1, <2>1, <2>2, <2>3 DEF Launch, settings, target, MenuTypeOK, Screens
  <2>5. OffIsClean' /\ FocusArms' /\ AskedHere'
    BY <1>1, <2>3 DEF Launch, OffIsClean, FocusArms, AskedHere, GameBase
  <2>6. IndicesFit' /\ SyncGetsTheGame'
    BY <1>1, <2>1, <2>2, <2>3 DEF Launch, IndicesFit, SyncGetsTheGame, Rows,
      GameBase
  <2>7. QED BY <2>1, <2>4, <2>5, <2>6 DEF MenuInv
<1>2. CASE Quit
  <2>2. <<>> \in Lists /\ <<>> \in Scans
    BY EmptyIsThere
  <2>3. MenuTypeOK' /\ ListFits' /\ OffIsClean' /\ FocusArms' /\ AskedHere'
    BY <1>2, <2>2 DEF Quit, settings, target, MenuTypeOK, ListFits, Found,
      OffIsClean, FocusArms, AskedHere, GameBase, Screens
  <2>4. IndicesFit' /\ SyncGetsTheGame'
    BY <1>2 DEF Quit, IndicesFit, SyncGetsTheGame, Rows, GameBase
  <2>5. QED BY <2>3, <2>4 DEF MenuInv
<1>3. CASE Draw
  <2>1. selected' = selected /\ active' = active
    BY <1>3, DrawKeepsIndices
  <2>2. scroll' \in 0..Len(games) /\
          (active >= 0 => active \in scroll'..(scroll' + Visible - 1))
    <3>1. CASE games = <<>>
      BY <1>3, <3>1 DEF Draw, IndicesFit
    <3>2. CASE games # <<>>
      <4>1. Len(games) >= 1 /\ active \in 0..(Len(games) - 1)
        BY <1>3, <3>2 DEF Draw, IndicesFit
      <4> DEFINE to == Scrolled(active)
                 last == Len(games) - Visible
      <4>2. to \in Nat /\ to <= active /\ active <= to + Visible - 1
        BY <4>1 DEF Scrolled, MenuTypeOK
      <4>3. scroll' = IF to <= last THEN to ELSE IF last < 0 THEN 0 ELSE last
        BY <1>3, <2>1, <3>2 DEF Draw
      <4>4. QED BY <4>1, <4>2, <4>3
    <3>3. QED BY <3>1, <3>2
  <2>3. MenuTypeOK' /\ ListFits' /\ OffIsClean' /\ FocusArms' /\ AskedHere'
    <3>1. screen' = "shown" /\ UNCHANGED <<list, settings, target>>
      BY <1>3 DEF Draw
    <3>2. ListFits' /\ OffIsClean' /\ FocusArms' /\ AskedHere'
      BY <2>1, <3>1 DEF list, ListFits, Found, OffIsClean, FocusArms, AskedHere
    <3>3. scroll' \in Nat
      BY <2>2
    <3>4. MenuTypeOK'
      BY <2>1, <3>1, <3>3 DEF list, settings, target, MenuTypeOK, Screens
    <3>5. QED BY <3>2, <3>4
  <2>4. IndicesFit'
    BY <1>3, <2>1, <2>2 DEF Draw, list, IndicesFit, Rows
  <2>5. SyncGetsTheGame'
    BY <1>3 DEF Draw, SyncGetsTheGame
  <2>6. QED BY <2>3, <2>4, <2>5 DEF MenuInv
<1>4. ASSUME NEW d \in Directions, Move(d)
      PROVE  MenuInv'
  <2>1. PICK r \in 0..(5 + Len(games)) : selected' = r /\ active' = ArmedBy(r)
    BY <1>4 DEF Move, Rows, GameBase
  <2>2. screen' = "frame" /\ UNCHANGED <<list, scroll, settings, target>>
    BY <1>4 DEF Move, Back
  <2>3. PICK a \in Int : active' = a /\ a >= -1 /\ a < Len(games)
                            /\ (games # <<>> => a >= 0)
                            /\ (r >= 6 => a = r - 6)
    <3>1. CASE r >= 6
      BY <2>1, <3>1 DEF ArmedBy, GameBase
    <3>2. CASE ~(r >= 6)
      BY <1>4, <2>1, <3>2 DEF Move, ArmedBy, GameBase, IndicesFit
    <3>3. QED BY <3>1, <3>2
  <2>4. ListFits' /\ OffIsClean' /\ AskedHere'
    BY <2>2 DEF list, ListFits, Found, OffIsClean, AskedHere
  <2>5. FocusArms'
    BY <2>1, <2>3 DEF FocusArms, GameBase
  <2>6. MenuTypeOK'
    BY <2>1, <2>2, <2>3 DEF list, settings, target, MenuTypeOK, Screens
  <2>7. IndicesFit'
    BY <2>1, <2>2, <2>3 DEF list, IndicesFit, Rows, GameBase
  <2>8. SyncGetsTheGame'
    BY <2>2 DEF SyncGetsTheGame
  <2>9. QED BY <2>4, <2>5, <2>6, <2>7, <2>8 DEF MenuInv
<1>5. CASE EditUrl \/ EditLogin \/ StartRefused
  <2>1. MenuTypeOK' /\ ListFits' /\ OffIsClean' /\ FocusArms' /\ AskedHere'
    BY <1>5 DEF EditUrl, EditLogin, StartRefused, Back, list, settings, target,
      MenuTypeOK, ListFits, Found, OffIsClean, FocusArms, AskedHere, Screens,
      Fields
  <2>2. IndicesFit' /\ SyncGetsTheGame'
    BY <1>5 DEF EditUrl, EditLogin, StartRefused, Back, list, IndicesFit,
      SyncGetsTheGame, Rows
  <2>3. QED BY <2>1, <2>2 DEF MenuInv
<1>6. CASE Ask
  <2> DEFINE good == /\ named' \in Games \cup {NoGame, AllGames}
                     /\ work' \subseteq Found
                     /\ work' # {}
                     /\ IF named' = AllGames THEN work' = Found
                        ELSE named' = Armed
                             /\ work' = {c \in Found : GameOf[c] = named'}
  <2>2. good
    <3>1. CASE selected = Primary
      <4>1. Armed # NoGame /\ named' = Armed /\ work' = Collect(Armed)
        BY <1>6, <3>1 DEF Ask, MayStart
      <4>2. Armed \in Games /\ Collect(Armed) # {}
        BY <4>1, ArmedIsFound DEF Collect
      <4>3. QED BY <4>1, <4>2, ListAssumption DEF Collect
    <3>2. CASE selected # Primary
      <4>1. selected = All /\ items # <<>> /\ named' = AllGames /\ work' = Found
        BY <1>6, <3>2 DEF Ask, MayStart, Primary, All
      <4>2. Found # {}
        BY <4>1, ScansAreSequences DEF Found, MenuTypeOK
      <4>3. QED BY <4>1, <4>2
    <3>3. QED BY <3>1, <3>2
  <2>3. Found \subseteq Cards
    BY ScansAreSequences DEF MenuTypeOK, Found
  <2>4. MenuTypeOK' /\ ListFits' /\ OffIsClean' /\ FocusArms' /\ AskedHere'
    BY <1>6, <2>2, <2>3 DEF Ask, list, settings, MenuTypeOK, ListFits, Found,
      OffIsClean, FocusArms, AskedHere, Screens
  <2>5. IndicesFit'
    BY <1>6 DEF Ask, list, IndicesFit, Rows
  <2>6. SyncGetsTheGame'
    BY <1>6, <2>2 DEF Ask, MayStart, Connected, list, settings, SyncGetsTheGame,
      Found, Armed
  <2>7. QED BY <2>4, <2>5, <2>6 DEF MenuInv
<1>7. CASE Confirm
  <2>1. MenuTypeOK' /\ ListFits' /\ OffIsClean' /\ FocusArms' /\ AskedHere'
    BY <1>7 DEF Confirm, list, settings, target, MenuTypeOK, ListFits, Found,
      OffIsClean, FocusArms, AskedHere, Screens
  <2>2. IndicesFit' /\ SyncGetsTheGame'
    BY <1>7 DEF Confirm, list, settings, target, IndicesFit, SyncGetsTheGame,
      Rows, Connected, Found, Armed
  <2>3. QED BY <2>1, <2>2 DEF MenuInv
<1>8. CASE Cancel \/ Closed \/ Rescan
  BY <1>8, ScanInvariant DEF Cancel, Closed, Rescan, AskedHere
<1>9. CASE PickGame
  <2>1. active' = active
    BY <1>9 DEF PickGame, FocusArms
  <2>2. screen' = "frame" /\ selected' = 3
          /\ UNCHANGED <<list, scroll, settings, target>>
    BY <1>9 DEF PickGame, Back, Primary
  <2>3. ListFits' /\ OffIsClean' /\ AskedHere'
    BY <2>2 DEF list, ListFits, Found, OffIsClean, AskedHere
  <2>4. FocusArms'
    BY <2>2 DEF FocusArms, GameBase
  <2>5. MenuTypeOK'
    BY <2>1, <2>2 DEF list, settings, target, MenuTypeOK, Screens
  <2>6. IndicesFit' /\ SyncGetsTheGame'
    BY <1>9, <2>1, <2>2 DEF PickGame, list, IndicesFit, SyncGetsTheGame, Rows,
      GameBase
  <2>7. QED BY <2>3, <2>4, <2>5, <2>6 DEF MenuInv
<1>10. CASE UNCHANGED menuVars
  <2>1. MenuTypeOK' /\ ListFits' /\ OffIsClean' /\ FocusArms' /\ AskedHere'
    BY <1>10 DEF menuVars, MenuTypeOK, ListFits, Found, OffIsClean, FocusArms,
      AskedHere
  <2>2. IndicesFit' /\ SyncGetsTheGame'
    BY <1>10 DEF menuVars, IndicesFit, SyncGetsTheGame, Rows, Connected, Found,
      Armed
  <2>3. QED BY <2>1, <2>2 DEF MenuInv
<1>11. QED
  BY <1>1, <1>2, <1>3, <1>4, <1>5, <1>6, <1>7, <1>8, <1>9, <1>10
  DEF MenuNext, MenuStep

LEMMA MenuInvariant == MenuSpec => []MenuInv
BY MenuInvInit, MenuInvNext, PTL DEF MenuSpec

-----------------------------------------------------------------------------
\* The menu's state stays well formed.
THEOREM MenuTypeCorrect == MenuSpec => []MenuTypeOK
<1>1. MenuInv => MenuTypeOK
  BY DEF MenuInv
<1>2. QED BY <1>1, MenuInvariant, PTL

\* No index outlives the list it points into.
THEOREM IndicesAlwaysFit == MenuSpec => []IndicesFit
<1>1. MenuInv => IndicesFit
  BY DEF MenuInv
<1>2. QED BY <1>1, MenuInvariant, PTL

\* What is synchronized is what the user confirmed.
THEOREM ConfirmedGameIsSynced == MenuSpec => []SyncGetsTheGame
<1>1. MenuInv => SyncGetsTheGame
  BY DEF MenuInv
<1>2. QED BY <1>1, MenuInvariant, PTL

\* The armed game changes only by the user's move to another row of the list,
\* or because a scan no longer finds it.
THEOREM TheArmedGameSurvives == MenuSpec => ArmedGameSurvives
<1> DEFINE Kept == Armed # NoGame /\ Armed' # Armed /\ screen' # "off" =>
                     \/ \A i \in DOMAIN games' : games'[i] # Armed
                     \/ selected' >= GameBase
<1>1. MenuInv /\ [MenuNext]_menuVars => [Kept]_menuVars
  <2> SUFFICES ASSUME MenuInv, MenuNext, screen' # "off", Armed' # Armed,
                      Armed # NoGame, ~(selected' >= GameBase)
               PROVE  \A i \in DOMAIN games' : games'[i] # Armed
    BY DEF menuVars
  <2>0. MenuTypeOK /\ OffIsClean /\ FocusArms /\ IndicesFit
    BY DEF MenuInv
  <2>a. games \in Seq(Games) /\ Len(games) \in Nat
          /\ DOMAIN games = 1..Len(games)
    BY <2>0, ListsAreSequences DEF MenuTypeOK
  <2>1. CASE Refresh
    BY <2>1, AfterScan
  <2>2. CASE games' = games /\ active' = active
    BY <2>2 DEF Armed
  <2>3. CASE Draw
    <3>1. active' = active
      BY <2>3, DrawKeepsIndices
    <3>2. QED BY <2>3, <3>1 DEF Draw, list, Armed
  <2>4. ASSUME NEW d \in Directions, Move(d)
        PROVE  games' = games /\ active' = active
    BY <2>4 DEF Move, list, ArmedBy
  <2>5. CASE PickGame
    BY <2>0, <2>2, <2>5 DEF PickGame, list, FocusArms
  <2>6. QED
    BY <2>1, <2>2, <2>3, <2>4, <2>5
    DEF MenuNext, MenuStep, Launch, Quit, EditUrl, EditLogin, StartRefused, Ask,
      Cancel, Confirm, Closed, Rescan, ScanAgain, list
<1>2. QED BY <1>1, MenuInvariant, PTL DEF MenuSpec, ArmedGameSurvives

-----------------------------------------------------------------------------
(***************************************************************************)
(* The application is a menu and, beside it, one request after another.    *)
(***************************************************************************)
LEMMA MenuStepsAreKept == [Next]_vars => [MenuNext]_menuVars
<1> SUFFICES ASSUME Next PROVE MenuNext \/ UNCHANGED menuVars
  BY DEF vars
<1>1. CASE Idle \/ Start \/ Exit \/ ConfirmSync \/ CloseReport
  BY <1>1 DEF Idle, Start, Exit, ConfirmSync, CloseReport, MenuNext
<1>2. CASE Work
  BY <1>2
  DEF Work, Call, Exchange, Registered, AnotherPage, LastPage, PageFails,
    NoMemory, Uploaded, AskAgain, Downloaded, LoadState, TreatCard, PassEnds,
    Told
<1>3. QED BY <1>1, <1>2 DEF Next

LEMMA RequestStepsAreKept == [Next]_vars => [HttpNext]_httpVars
<1> SUFFICES ASSUME Next PROVE HttpNext \/ UNCHANGED httpVars
  BY DEF vars
<1>1. CASE Idle \/ Start \/ ConfirmSync \/ CloseReport
  BY <1>1 DEF Idle, Start, ConfirmSync, CloseReport
<1>2. CASE Exit
  BY <1>2 DEF Exit, HttpNext
<1>3. CASE Call
  <2>1. [https |-> url = "https", verify |-> VerifyTls,
         toFile |-> job \in {"download", "retry"}] \in Requests
    BY FlagsAssumption DEF Requests
  <2>2. QED BY <1>3, <2>1 DEF Call, HttpNext
<1>4. CASE Exchange
  BY <1>4 DEF Exchange, HttpNext
<1>5. CASE Registered \/ AnotherPage \/ LastPage \/ PageFails \/ Uploaded
             \/ AskAgain \/ Downloaded
  BY <1>5
  DEF Registered, AnotherPage, LastPage, PageFails, Uploaded, AskAgain,
    Downloaded, Told, HttpNext
<1>6. CASE NoMemory \/ LoadState \/ TreatCard \/ PassEnds
  BY <1>6 DEF NoMemory, LoadState, TreatCard, PassEnds
<1>7. QED BY <1>1, <1>2, <1>3, <1>4, <1>5, <1>6 DEF Next, Work

\* Seen from the menu, the application is SyncMenu.
THEOREM ApplicationKeepsMenu == Spec => MenuSpec
<1>1. Init => MenuInit
  BY DEF Init
<1>2. QED BY <1>1, MenuStepsAreKept, PTL DEF Spec, MenuSpec

\* Seen from the network, the application is one request after another.
THEOREM ApplicationKeepsRequests == Spec => HttpSpec
<1>1. Init => HttpInit
  BY DEF Init
<1>2. QED BY <1>1, RequestStepsAreKept, PTL DEF Spec, HttpSpec

\* In the application too, indices never outlive their list, what is
\* synchronized is what was confirmed, nothing is up without its foundation,
\* nothing leaks, and files are left by successful downloads only.
THEOREM ApplicationIsSafe ==
  Spec => [](IndicesFit /\ SyncGetsTheGame /\ Layered /\ NothingLeaks
               /\ FileMeansSuccess)
BY ApplicationKeepsMenu, ApplicationKeepsRequests, IndicesAlwaysFit,
  ConfirmedGameIsSynced, NothingStandsOnNothing, NothingIsLeaked,
  FilesMeanSuccess, PTL

\* The armed game stays armed over synchronizations and rescans.
THEOREM ApplicationKeepsArmedGame == Spec => ArmedGameSurvives
BY ApplicationKeepsMenu, TheArmedGameSurvives, PTL

-----------------------------------------------------------------------------
(***************************************************************************)
(* The synchronization: it is under way exactly while the menu waits for   *)
(* it, requests are made only by its asking steps, and a card that is      *)
(* being transferred has not been counted as finished.                     *)
(***************************************************************************)
JobFits ==
  /\ job \in Jobs
  /\ page \in 0..(MaxPages - 1)
  /\ left \in 0..MaxItems
  /\ device \in BOOLEAN
  /\ job # "none" <=> screen = "busy"
  /\ phase # "rest" => job \in Asking
  /\ job \in {"remap", "upload", "download", "retry"} => left > 0

AppInv == MenuInv /\ HttpInv /\ JobFits

\* The cards to treat are cards of the inventory.
LEMMA WorkIsBounded ==
  ASSUME MenuInv, screen = "confirm"
  PROVE  Cardinality(work) \in 0..MaxItems
<1>1. work \subseteq Found
  BY DEF MenuInv, SyncGetsTheGame
<1>2. PICK n \in 0..MaxItems : items \in [1..n -> Cards]
  BY DEF MenuInv, MenuTypeOK, Scans
<1>3. n \in Nat /\ n <= MaxItems
  BY <1>2, CapacityAssumption
<1>4. IsFiniteSet(1..n) /\ Cardinality(1..n) = n
  BY <1>3, FS_Interval
<1>5. items \in Surjection(1..n, Found)
  BY <1>2 DEF Surjection, Found
<1>6. IsFiniteSet(Found) /\ Cardinality(Found) <= n
  BY <1>4, <1>5, FS_Surjection
<1>7. IsFiniteSet(work) /\ Cardinality(work) <= Cardinality(Found)
  BY <1>1, <1>6, FS_Subset
<1>8. Cardinality(work) \in Nat /\ Cardinality(Found) \in Nat
  BY <1>6, <1>7, FS_CardinalityType
<1>9. QED BY <1>3, <1>6, <1>7, <1>8, CapacityAssumption

LEMMA JobInit == Init => JobFits
BY PagesAssumption, CapacityAssumption
DEF Init, MenuInit, HttpInit, JobFits, Jobs

LEMMA JobNext == AppInv /\ [Next]_vars => JobFits'
<1> SUFFICES ASSUME AppInv, Next PROVE JobFits'
  BY DEF AppInv, JobFits, vars, jobVars, menuVars, httpVars
<1>0. JobFits /\ MenuInv /\ page \in Nat /\ left \in Nat
        /\ MaxPages \in Nat /\ MaxPages > 0 /\ MaxItems \in Nat
  BY PagesAssumption, CapacityAssumption DEF AppInv, JobFits
<1>1. CASE Idle
  <2>1. screen # "busy" /\ screen' # "busy"
    BY <1>1
    DEF Idle, MenuStep, Draw, EditUrl, EditLogin, StartRefused, Ask, Cancel,
      Rescan, PickGame, Move, ScanAgain, Back
  <2>2. QED BY <1>0, <1>1, <2>1 DEF Idle, JobFits, httpVars, jobVars
<1>2. CASE Start
  BY <1>0, <1>2 DEF Start, Launch, JobFits, httpVars, jobVars
<1>3. CASE Exit
  BY <1>0, <1>3 DEF Exit, Quit, ProcessEnds, JobFits, jobVars
<1>4. CASE ConfirmSync
  <2>1. left' \in 0..MaxItems
    BY <1>0, <1>4, WorkIsBounded DEF ConfirmSync, Confirm
  <2>2. QED
    BY <1>0, <1>4, <2>1
    DEF ConfirmSync, Confirm, JobFits, Jobs, Asking, Paged, httpVars
<1>5. CASE CloseReport
  BY <1>0, <1>5
  DEF CloseReport, Closed, ScanAgain, Back, JobFits, Jobs, Asking, Paged,
    httpVars
<1>6. CASE Call
  BY <1>0, <1>6 DEF Call, Begin, JobFits, menuVars, jobVars
<1>7. CASE Exchange
  <2>1. phase # "rest"
    BY <1>7
    DEF Exchange, HttpStep, Acquire, AlreadyLoaded, AcquireFails, Release,
      ReleaseFails, SettingUp, TakingDown, SendFails, Answer, Ready, FileOpens,
      FileRefused, StreamEnds, StreamFails, Return
  <2>2. QED BY <1>0, <1>7, <2>1 DEF Exchange, JobFits, menuVars, jobVars
<1> DEFINE Kept == screen' = screen /\ job # "none" /\ phase' = "rest"
<1>8. CASE Registered \/ AnotherPage \/ LastPage \/ PageFails \/ NoMemory
             \/ Uploaded \/ AskAgain \/ Downloaded
  <2>1. Kept
    BY <1>8
    DEF Registered, AnotherPage, LastPage, PageFails, NoMemory, Uploaded,
      AskAgain, Downloaded, Told, Collected, Paged, menuVars, httpVars
  <2>2. CASE Registered
    <3>1. device' \in BOOLEAN
      BY <2>2 DEF Registered
    <3>2. job' = "catalog" /\ page' = 0 /\ left' = left
      BY <2>2 DEF Registered, Turn
    <3>3. QED BY <1>0, <2>1, <3>1, <3>2 DEF JobFits, Jobs, Asking, Paged
  <2>3. CASE AnotherPage
    BY <1>0, <2>1, <2>3 DEF AnotherPage, NextPage, JobFits
  <2>4. CASE LastPage
    <3>1. CASE job = "catalog"
      BY <1>0, <2>1, <2>4, <3>1 DEF LastPage, Turn, JobFits, Jobs, Asking, Paged
    <3>2. CASE job = "list"
      BY <1>0, <2>1, <2>4, <3>2 DEF LastPage, Turn, JobFits, Jobs, Asking, Paged
    <3>3. CASE job = "remap"
      BY <1>0, <2>1, <2>4, <3>3
      DEF LastPage, Turn, CardDone, JobFits, Jobs, Asking, Paged
    <3>4. QED BY <2>4, <3>1, <3>2, <3>3 DEF LastPage, Told, Paged
  <2>5. CASE PageFails \/ NoMemory
    BY <1>0, <2>1, <2>5
    DEF PageFails, NoMemory, PagesRefused, Turn, CardDone, JobFits, Jobs,
      Asking, Paged
  <2>6. CASE Uploaded \/ AskAgain \/ Downloaded
    BY <1>0, <2>1, <2>6
    DEF Uploaded, AskAgain, Downloaded, Told, Turn, CardDone, JobFits, Jobs,
      Asking, Paged
  <2>7. QED BY <1>8, <2>2, <2>3, <2>4, <2>5, <2>6
<1>9. CASE LoadState \/ TreatCard \/ PassEnds
  <2>1. screen' = screen /\ phase' = "rest"
    BY <1>0, <1>9
    DEF LoadState, TreatCard, PassEnds, JobFits, Asking, Paged, menuVars,
      httpVars
  <2>2. QED
    BY <1>0, <1>9, <2>1
    DEF LoadState, TreatCard, PassEnds, Turn, CardDone, JobFits, Jobs, Asking,
      Paged
<1>10. QED
  BY <1>1, <1>2, <1>3, <1>4, <1>5, <1>6, <1>7, <1>8, <1>9 DEF Next, Work

LEMMA AppInvariant == Spec => []AppInv
<1>1. Spec => []MenuInv /\ []HttpInv
  BY ApplicationKeepsMenu, ApplicationKeepsRequests, MenuInvariant,
    HttpInvariant, PTL
<1>2. Init => JobFits
  BY JobInit
<1>3. MenuInv /\ HttpInv /\ JobFits /\ [Next]_vars => JobFits'
  BY JobNext DEF AppInv
<1>4. Init /\ [][Next]_vars /\ []MenuInv /\ []HttpInv => []JobFits
  BY <1>2, <1>3, PTL
<1>5. QED BY <1>1, <1>4, PTL DEF Spec, AppInv

\* The application's state stays well formed.
THEOREM TypeCorrect == Spec => []TypeOK
<1>1. AppInv => TypeOK
  BY DEF AppInv, MenuInv, HttpInv, JobFits, TypeOK
<1>2. QED BY <1>1, AppInvariant, PTL

(***************************************************************************)
(* The network is only used by a synchronization the user has confirmed,   *)
(* with an address and a login: no request is under way in the menu, and   *)
(* the settings cannot be edited while one is.                             *)
(***************************************************************************)
RequestsAreConfirmed == phase # "rest" => screen = "busy" /\ Connected

THEOREM OnlyConfirmedRequests == Spec => []RequestsAreConfirmed
<1>1. AppInv => RequestsAreConfirmed
  BY DEF AppInv, MenuInv, JobFits, RequestsAreConfirmed, SyncGetsTheGame,
    Asking, Paged
<1>2. QED BY <1>1, AppInvariant, PTL

-----------------------------------------------------------------------------
(***************************************************************************)
(* How much a synchronization has before it: steps of its jobs, each of    *)
(* which may take a request of at most 32 steps.  A card takes at most     *)
(* PerCard jobs, the pages of the catalog and the transfer.                *)
(***************************************************************************)
PerCard == MaxPages + 2
Cost(cards) == cards * PerCard

JobsAfter(step, read, cards) ==
  CASE step \in {"none", "report"} -> 0
    [] step = "register" -> Cost(cards) + MaxPages + MaxPages + 3
    [] step = "catalog" -> Cost(cards) + MaxPages + MaxPages + 2 - read
    [] step = "load" -> Cost(cards) + MaxPages + 2
    [] step = "list" -> Cost(cards) + MaxPages + 1 - read
    [] step = "cards" -> Cost(cards) + 1
    [] step = "remap" -> Cost(cards - 1) + MaxPages + 2 - read
    [] step = "download" -> Cost(cards - 1) + 3
    [] step \in {"upload", "retry"} -> Cost(cards - 1) + 2

JobsLeft == JobsAfter(job, page, left)
WorkLeft == 33 * JobsLeft + RequestLeft

\* Until its report, every step that is taken while a synchronization runs
\* brings it nearer the report, whatever its requests answer: no page loop, no
\* retry and no card repeats itself, and nothing else comes between.
SyncAdvances ==
  [][screen = "busy" /\ job # "report" =>
       screen' = "busy" /\ WorkLeft' < WorkLeft]_vars

\* At any time it has at most this many steps before it.
SyncIsBounded ==
  screen = "busy" =>
    WorkLeft \in 0..(33 * (Cost(MaxItems) + MaxPages + MaxPages + 3) + 32)

LEMMA CostOfACard ==
  ASSUME NEW n \in Nat
  PROVE  /\ Cost(n) \in Nat
         /\ n > 0 => Cost(n - 1) \in Nat /\ Cost(n) = Cost(n - 1) + PerCard
         /\ n <= MaxItems => Cost(n) <= Cost(MaxItems)
         /\ Cost(MaxItems) \in Nat
<1>1. MaxPages \in Nat /\ MaxItems \in Nat
  BY PagesAssumption, CapacityAssumption
<1>2. \A m \in Nat : m * (MaxPages + 2) \in Nat
  BY <1>1
<1>3. ASSUME n > 0
      PROVE  n * (MaxPages + 2) = (n - 1) * (MaxPages + 2) + (MaxPages + 2)
  BY <1>1, <1>3
<1>4. ASSUME n <= MaxItems
      PROVE  n * (MaxPages + 2) <= MaxItems * (MaxPages + 2)
  <2>1. (MaxItems - n) * (MaxPages + 2) \in Nat
    BY <1>1, <1>2, <1>4
  <2>2. MaxItems * (MaxPages + 2)
          = n * (MaxPages + 2) + (MaxItems - n) * (MaxPages + 2)
    BY <1>1
  <2>3. QED BY <1>1, <1>2, <2>1, <2>2
<1>5. QED BY <1>1, <1>2, <1>3, <1>4 DEF Cost, PerCard

\* How much each job has before it.
LEMMA JobsAfterIn ==
  ASSUME NEW read, NEW cards
  PROVE  /\ JobsAfter("none", read, cards) = 0
         /\ JobsAfter("report", read, cards) = 0
         /\ JobsAfter("register", read, cards)
              = Cost(cards) + MaxPages + MaxPages + 3
         /\ JobsAfter("catalog", read, cards)
              = Cost(cards) + MaxPages + MaxPages + 2 - read
         /\ JobsAfter("load", read, cards) = Cost(cards) + MaxPages + 2
         /\ JobsAfter("list", read, cards) = Cost(cards) + MaxPages + 1 - read
         /\ JobsAfter("cards", read, cards) = Cost(cards) + 1
         /\ JobsAfter("remap", read, cards)
              = Cost(cards - 1) + MaxPages + 2 - read
         /\ JobsAfter("download", read, cards) = Cost(cards - 1) + 3
         /\ JobsAfter("upload", read, cards) = Cost(cards - 1) + 2
         /\ JobsAfter("retry", read, cards) = Cost(cards - 1) + 2
BY DEF JobsAfter

\* Each job's end, and each page, leaves less to do.
LEMMA JobsAdvance ==
  ASSUME AppInv, job' \in Jobs,
         \/ Registered \/ AnotherPage \/ LastPage \/ PageFails \/ NoMemory
         \/ Uploaded \/ AskAgain \/ Downloaded \/ LoadState \/ TreatCard
         \/ PassEnds
  PROVE  JobsLeft' < JobsLeft
<1>0. /\ page \in Nat /\ page < MaxPages /\ left \in Nat
      /\ MaxPages \in Nat /\ MaxPages > 0
      /\ job \in {"remap", "upload", "download", "retry"} => left > 0
  BY PagesAssumption, CapacityAssumption DEF AppInv, JobFits
<1>1. /\ Cost(left) \in Nat
      /\ left > 0 => /\ Cost(left - 1) \in Nat
                     /\ Cost(left) = Cost(left - 1) + MaxPages + 2
  BY <1>0, CostOfACard DEF PerCard
<1>a. JobsLeft = JobsAfter(job, page, left)
        /\ JobsLeft' = JobsAfter(job', page', left')
  BY DEF JobsLeft
<1>2. CASE Registered
  <2>1. job = "register" /\ job' = "catalog" /\ page' = 0 /\ left' = left
    BY <1>2 DEF Registered, Told, Turn
  <2>2. QED BY <1>0, <1>1, <1>a, <2>1, JobsAfterIn
<1>3. CASE AnotherPage
  <2>1. job \in Paged /\ job' = job /\ page' = page + 1 /\ left' = left
    BY <1>3 DEF AnotherPage, Told, NextPage
  <2>2. QED BY <1>0, <1>1, <1>a, <2>1, JobsAfterIn DEF Paged
<1>4. CASE CardDone /\ job \in {"remap", "upload", "download", "retry"}
  <2>1. job' = "cards" /\ page' = 0 /\ left' = left - 1
    BY <1>4 DEF CardDone, Turn
  <2>2. QED BY <1>0, <1>1, <1>4, <1>a, <2>1, JobsAfterIn
<1>5. CASE Turn("report") /\ left' = left
             /\ job \in {"catalog", "list", "load", "cards"}
  <2>1. job' = "report"
    BY <1>5 DEF Turn
  <2>2. QED BY <1>0, <1>1, <1>5, <1>a, <2>1, JobsAfterIn
<1>6. CASE \/ job = "catalog" /\ Turn("load") /\ left' = left
           \/ job = "load" /\ Turn("list") /\ left' = left
           \/ job = "list" /\ Turn("cards") /\ left' = left
           \/ job = "remap" /\ Turn("upload") /\ left' = left
           \/ job = "download" /\ Turn("retry") /\ left' = left
  BY <1>0, <1>1, <1>6, <1>a, JobsAfterIn DEF Turn
<1>7. CASE LastPage
  BY <1>4, <1>6, <1>7 DEF LastPage, Told, Paged
<1>8. CASE PageFails \/ NoMemory
  BY <1>4, <1>5, <1>8 DEF PageFails, NoMemory, PagesRefused, Told, Paged
<1>9. CASE Uploaded \/ AskAgain \/ Downloaded
  BY <1>4, <1>6, <1>9 DEF Uploaded, AskAgain, Downloaded, Told
<1>10. CASE LoadState \/ PassEnds
  BY <1>5, <1>6, <1>10 DEF LoadState, PassEnds
<1>11. CASE TreatCard
  <2>1. job = "cards" /\ left > 0
    BY <1>11 DEF TreatCard
  <2>2. CASE CardDone
    <3>1. job' = "cards" /\ page' = 0 /\ left' = left - 1
      BY <2>2 DEF CardDone, Turn
    <3>2. QED BY <1>0, <1>1, <1>a, <2>1, <3>1, JobsAfterIn
  <2>3. CASE \E next \in {"upload", "remap", "download"} :
               Turn(next) /\ left' = left
    <3>1. job' \in {"upload", "remap", "download"} /\ page' = 0 /\ left' = left
      BY <2>3 DEF Turn
    <3>2. QED BY <1>0, <1>1, <1>a, <2>1, <3>1, JobsAfterIn
  <2>4. QED BY <1>11, <2>2, <2>3 DEF TreatCard
<1>12. QED
  BY <1>2, <1>3, <1>7, <1>8, <1>9, <1>10, <1>11

\* While a synchronization runs there is work until its report.
LEMMA OnlyWorkIsDone ==
  ASSUME AppInv, Next, screen = "busy", job # "report"
  PROVE  Work /\ screen' = "busy"
<1>1. ~(Idle \/ Start \/ Exit \/ ConfirmSync \/ CloseReport)
  BY DEF Idle, MenuStep, Draw, EditUrl, EditLogin, StartRefused, Ask, Cancel,
    Rescan, PickGame, Move, ScanAgain, Back, Start, Launch, Exit, Quit,
    ConfirmSync, Confirm, CloseReport
<1>2. Work
  BY <1>1 DEF Next
<1>3. screen' = screen
  BY <1>2
  DEF Work, Call, Exchange, Registered, AnotherPage, LastPage, PageFails,
    NoMemory, Uploaded, AskAgain, Downloaded, LoadState, TreatCard, PassEnds,
    Told, menuVars
<1>4. QED BY <1>2, <1>3

\* There is never more to do than at the start of the largest synchronization.
LEMMA JobsAreBounded ==
  ASSUME AppInv
  PROVE  JobsLeft \in 0..(Cost(MaxItems) + MaxPages + MaxPages + 3)
<1>0. /\ page \in Nat /\ page < MaxPages /\ left \in Nat /\ left <= MaxItems
      /\ MaxPages \in Nat /\ MaxPages > 0 /\ job \in Jobs
      /\ job \in {"remap", "upload", "download", "retry"} => left > 0
  BY PagesAssumption, CapacityAssumption DEF AppInv, JobFits
<1>1. /\ Cost(left) \in Nat
      /\ left > 0 => /\ Cost(left - 1) \in Nat
                     /\ Cost(left) = Cost(left - 1) + MaxPages + 2
      /\ Cost(MaxItems) \in Nat /\ Cost(left) <= Cost(MaxItems)
  BY <1>0, CostOfACard DEF PerCard
<1>2. CASE job \in {"none", "report", "register", "catalog", "load"}
  BY <1>0, <1>1, <1>2, JobsAfterIn DEF JobsLeft
<1>3. CASE job \in {"list", "cards"}
  BY <1>0, <1>1, <1>3, JobsAfterIn DEF JobsLeft
<1>4. CASE job \in {"remap", "upload", "download", "retry"}
  BY <1>0, <1>1, <1>4, JobsAfterIn DEF JobsLeft
<1>5. QED BY <1>0, <1>2, <1>3, <1>4 DEF Jobs, Asking, Paged

\* A job is worth more than all the steps of a request.
LEMMA JobsOutweighRequests ==
  \A j, k \in Int : \A r, q \in 0..32 :
    k < j \/ (k = j /\ q < r) => 33 * k + q < 33 * j + r
OBVIOUS

LEMMA WorkAdvances ==
  ASSUME AppInv, AppInv', Work, NEW b \in Nat,
         JobsLeft \in 0..b, (JobsLeft \in 0..b)',
         RequestLeft \in 0..32, (RequestLeft \in 0..32)'
  PROVE  WorkLeft' < WorkLeft
<1>0. JobsLeft \in Int /\ JobsLeft' \in Int
  OBVIOUS
<1>1. RequestLeft \in 0..32 /\ RequestLeft' \in 0..32
  OBVIOUS
<1>2. WorkLeft = 33 * JobsLeft + RequestLeft
        /\ WorkLeft' = 33 * JobsLeft' + RequestLeft'
  BY DEF WorkLeft
<1>3. CASE Call \/ Exchange
  <2>1. JobsLeft' = JobsLeft
    BY <1>3 DEF Call, Exchange, jobVars, JobsLeft
  <2>2. RequestSteps
    <3>1. [https |-> url = "https", verify |-> VerifyTls,
           toFile |-> job \in {"download", "retry"}] \in Requests
      BY FlagsAssumption DEF Requests
    <3>2. QED BY <1>3, <3>1 DEF Call, Exchange, RequestSteps
  <2>3. RequestLeft' < RequestLeft
    BY <2>2, RequestAdvances DEF AppInv, HttpInv
  <2>4. QED BY <1>0, <1>1, <1>2, <2>1, <2>3, JobsOutweighRequests, Zenon
<1>4. CASE ~(Call \/ Exchange)
  <2>1. JobsLeft' < JobsLeft
    BY <1>4, JobsAdvance DEF Work, AppInv, JobFits
  <2>2. QED BY <1>0, <1>1, <1>2, <2>1, JobsOutweighRequests, Zenon
<1>5. QED BY <1>3, <1>4

\* So it is for every number of cards and pages, and every failure.
THEOREM SyncAlwaysAdvances == Spec => SyncAdvances
<1> DEFINE Advances == screen = "busy" /\ job # "report" =>
                         screen' = "busy" /\ WorkLeft' < WorkLeft
      MostJobs == Cost(MaxItems) + MaxPages + MaxPages + 3
      Bounds == JobsLeft \in 0..MostJobs /\ RequestLeft \in 0..32
<1>0. MostJobs \in Nat
  BY CostOfACard, PagesAssumption, CapacityAssumption
<1>1. AppInv => Bounds
  BY JobsAreBounded, RequestLeftIn DEF AppInv, HttpInv
<1>2. AppInv /\ AppInv' /\ Bounds /\ Bounds' /\ [Next]_vars
        => [Advances]_vars
  BY <1>0, OnlyWorkIsDone, WorkAdvances
<1>3. QED BY <1>1, <1>2, AppInvariant, PTL DEF Spec, SyncAdvances

\* A synchronization has an end that can be told when it begins.
THEOREM SyncIsAlwaysBounded == Spec => []SyncIsBounded
<1>1. AppInv => SyncIsBounded
  <2> SUFFICES ASSUME AppInv PROVE SyncIsBounded
    OBVIOUS
  <2>1. RequestLeft \in 0..32
    BY RequestLeftIn DEF AppInv, HttpInv
  <2>2. JobsLeft \in 0..(Cost(MaxItems) + MaxPages + MaxPages + 3)
    BY JobsAreBounded
  <2>3. Cost(MaxItems) \in Nat /\ MaxPages \in Nat
    BY CostOfACard, PagesAssumption, CapacityAssumption
  <2>4. QED BY <2>1, <2>2, <2>3 DEF SyncIsBounded, WorkLeft
<1>2. QED BY <1>1, AppInvariant, PTL

=============================================================================
