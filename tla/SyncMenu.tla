------------------------------ MODULE SyncMenu ------------------------------
(***************************************************************************)
(* The menu of main.c: the inventory of the last scan, the list of games   *)
(* made from it, the row that has the focus, the game that is armed for    *)
(* synchronization, and the part of the list that is shown.  Rows 0 to 2   *)
(* are the connection fields, 3 and 4 synchronize, 5 rescans, and the      *)
(* games follow.                                                           *)
(*                                                                         *)
(* A frame of the main loop is Draw and then one button; buttons pressed   *)
(* in one frame are handled in turn and count as frames of their own.      *)
(* Each scan finds some of the cards, in some order: cards come and go     *)
(* while the application is open, and directories may be unreadable.       *)
(* A game's key is its directory's name, which the scanner always sets.    *)
(***************************************************************************)
EXTENDS Integers, Sequences

CONSTANTS
  Cards,      \* the memory-card files there may be
  GameOf,     \* GameOf[c]: the key of the game c belongs to
  Place,      \* Place[g]: where the alphabet puts the title of g
  MaxItems,   \* cards an inventory holds (ROMM_SYNC_MAX_ITEMS)
  Visible,    \* rows of the list that are shown (UI_GAME_LIST_VISIBLE)
  NoGame,     \* no game is armed
  AllGames    \* what is synchronized: every card

Games == {GameOf[c] : c \in Cards}
ASSUME ListAssumption ==
  /\ NoGame \notin Games
  /\ AllGames \notin Games \cup {NoGame}
  /\ Place \in [Games -> Int]
ASSUME CapacityAssumption ==
  MaxItems \in Nat \ {0} /\ Visible \in Nat \ {0}

VARIABLES
  items,      \* local_items: the cards of the last scan
  games,      \* the keys of the list of games
  active,     \* active_game_index: the armed game, from 0; -1: none
  selected,   \* selected_index: the row with the focus
  scroll,     \* game_scroll: the first game shown
  url,        \* the server's address: "none", or its scheme
  login,      \* which of the user name and the password are set
  screen,     \* what the user sees
  named,      \* the game the confirmation names, or AllGames
  work        \* the cards in sync_work_items

menuVars == <<items, games, active, selected, scroll, url, login, screen,
              named, work>>
settings == <<url, login>>
list == <<items, games>>
target == <<named, work>>

Fields == {"username", "password"}
Urls == {"none", "http", "https"}
Screens == {"off", "frame", "shown", "confirm", "busy"}

\* The rows before the list.
Primary == 3
All == 4
RescanRow == 5
GameBase == 6
Rows == 0..(GameBase + Len(games) - 1)

\* A scan's result, cut at the capacity.
Scans == {s \in UNION {[1..n -> Cards] : n \in 0..MaxItems} :
            \A i, j \in DOMAIN s : s[i] = s[j] => i = j}

-----------------------------------------------------------------------------
(***************************************************************************)
(* The list of games: one entry per key, sorted by title, and by the       *)
(* scan's order where titles are the same.                                 *)
(***************************************************************************)
Lists == UNION {[1..n -> Games] : n \in 0..MaxItems}

\* Game a is met before game b.
MetFirst(s, a, b) ==
  \E i \in DOMAIN s :
    /\ GameOf[s[i]] = a
    /\ \A j \in DOMAIN s : GameOf[s[j]] = b => i < j

\* ui_build_game_entries, ui_sort_game_entries
IsListOf(s, g) ==
  /\ {g[k] : k \in DOMAIN g} = {GameOf[s[i]] : i \in DOMAIN s}
  /\ \A j, k \in DOMAIN g : j < k =>
       \/ Place[g[j]] < Place[g[k]]
       \/ Place[g[j]] = Place[g[k]] /\ MetFirst(s, g[j], g[k])

Armed == IF active + 1 \in DOMAIN games THEN games[active + 1] ELSE NoGame

\* The mutated form keeps the index and not the game.
RestoredByIndex(key, g) ==
  IF g = <<>> THEN -1 ELSE IF active < Len(g) /\ active >= 0 THEN active ELSE 0

\* The index of the game that was armed, else the first.
Restored(key, g) ==
  IF g = <<>> THEN -1
  ELSE IF \E i \in DOMAIN g : g[i] = key
       THEN (CHOOSE i \in DOMAIN g : g[i] = key) - 1
       ELSE 0

\* ui_refresh_local_inventory, with any result of the scan
Refresh ==
  /\ items' \in Scans
  /\ games' \in {g \in Lists : IsListOf(items', g)}
  /\ active' = Restored(Armed, games')
  /\ scroll' = 0

-----------------------------------------------------------------------------
(***************************************************************************)
(* The focus.  Each row has an anchor on the screen; a direction leads to  *)
(* the row that is nearest along its axis, then across it, then first.     *)
(***************************************************************************)
X(r) == IF r < Primary THEN 247 ELSE IF r < GameBase THEN 703 ELSE 480
Y(r) == CASE r = 0 -> 176 [] r = 1 -> 230 [] r = 2 -> 284
          [] r = 3 -> 266 [] r = 4 -> 298 [] r = 5 -> 330
          [] OTHER -> 404 + 28 * (r - GameBase)

Abs(n) == IF n < 0 THEN -n ELSE n

\* How far row r lies along direction d, and how far across it.
Along(d, r) == CASE d = "up" -> Y(selected) - Y(r)
                 [] d = "down" -> Y(r) - Y(selected)
                 [] d = "left" -> X(selected) - X(r)
                 [] d = "right" -> X(r) - X(selected)
Across(d, r) == IF d \in {"up", "down"} THEN Abs(X(r) - X(selected))
                ELSE Abs(Y(r) - Y(selected))

Ahead(d) == {r \in Rows : Along(d, r) > 0}

Nearer(d, r, q) ==
  \/ Along(d, r) < Along(d, q)
  \/ Along(d, r) = Along(d, q) /\ Across(d, r) < Across(d, q)
  \/ Along(d, r) = Along(d, q) /\ Across(d, r) = Across(d, q) /\ r <= q

\* Where direction d leads; up and down go round at the ends.
Leads(d, r) ==
  IF Ahead(d) # {}
  THEN r \in Ahead(d) /\ \A q \in Ahead(d) : Nearer(d, r, q)
  ELSE r = CASE d = "up" -> IF selected = 0 THEN GameBase + Len(games) - 1
                            ELSE selected - 1
             [] d = "down" -> IF selected + 1 \in Rows THEN selected + 1 ELSE 0
             [] OTHER -> selected

\* A row of the list that has the focus is armed.
ArmedBy(row) == IF row >= GameBase THEN row - GameBase ELSE active

-----------------------------------------------------------------------------
MenuInit ==
  /\ items = <<>>
  /\ games = <<>>
  /\ active = -1
  /\ selected = 0
  /\ scroll = 0
  /\ url \in Urls
  /\ login \in SUBSET Fields
  /\ screen = "off"
  /\ named = NoGame
  /\ work = {}

\* ui_initialize_state, with the settings of the last time.
Launch ==
  /\ screen = "off"
  /\ Refresh
  /\ screen' = "frame"
  /\ UNCHANGED <<selected, settings, target>>

Quit ==
  /\ screen = "shown"
  /\ screen' = "off"
  /\ items' = <<>>
  /\ games' = <<>>
  /\ active' = -1
  /\ selected' = 0
  /\ scroll' = 0
  /\ UNCHANGED <<settings, target>>

Clamped(i, count) == IF i < 0 THEN 0 ELSE IF i >= count THEN count - 1 ELSE i

\* The mutated form lets the armed game slip below the last row shown.
ScrolledShort(i) ==
  IF i < scroll THEN i
  ELSE IF i > scroll + Visible THEN i - Visible ELSE scroll

\* ui_update_game_scroll
Scrolled(i) ==
  IF i < scroll THEN i
  ELSE IF i >= scroll + Visible THEN i - Visible + 1 ELSE scroll

\* The start of a frame: ui_clamp_selection, ui_update_game_scroll.
Draw ==
  /\ screen = "frame"
  /\ screen' = "shown"
  /\ selected' = Clamped(selected, GameBase + Len(games))
  /\ active' = IF games = <<>> THEN -1 ELSE Clamped(active, Len(games))
  /\ scroll' = IF games = <<>> THEN 0
               ELSE LET last == Len(games) - Visible
                        to == Scrolled(active')
                    IN IF to <= last THEN to ELSE IF last < 0 THEN 0 ELSE last
  /\ UNCHANGED <<list, settings, target>>

Back == screen' = "frame"

Move(d) ==
  /\ screen = "shown"
  /\ selected' \in {r \in Rows : Leads(d, r)}
  /\ active' = ArmedBy(selected')
  /\ Back
  /\ UNCHANGED <<list, scroll, settings, target>>

\* The keyboard dialog; cancelling it changes nothing.
EditUrl ==
  /\ screen = "shown"
  /\ selected = 0
  /\ url' \in Urls
  /\ Back
  /\ UNCHANGED <<list, active, selected, scroll, login, target>>

EditLogin ==
  /\ screen = "shown"
  /\ selected \in {1, 2}
  /\ LET field == IF selected = 1 THEN "username" ELSE "password" IN
     login' \in {login \cup {field}, login \ {field}}
  /\ Back
  /\ UNCHANGED <<list, active, selected, scroll, url, target>>

\* The fourth row and the next are gated.
Connected == url # "none" /\ login = Fields

MayStart == /\ Connected
            /\ selected = Primary => Armed # NoGame
            /\ selected = All => items # <<>>

\* A line of status says what is missing.
StartRefused ==
  /\ screen = "shown"
  /\ selected \in {Primary, All}
  /\ ~MayStart
  /\ Back
  /\ UNCHANGED <<list, active, selected, scroll, settings, target>>

\* The cards of the inventory.
Found == {items[i] : i \in DOMAIN items}

\* Two discs of a game may have one title (mutated form).
CollectByTitle(g) == {c \in Found : Place[GameOf[c]] = Place[g]}

\* ui_collect_game_items
Collect(g) == {c \in Found : GameOf[c] = g}

\* ui_run_sync_for_game and ui_run_sync_all_saves up to the confirmation.
Ask ==
  /\ screen = "shown"
  /\ selected \in {Primary, All}
  /\ MayStart
  /\ named' = IF selected = Primary THEN Armed ELSE AllGames
  /\ work' = IF selected = Primary THEN Collect(Armed) ELSE Found
  /\ screen' = "confirm"
  /\ UNCHANGED <<list, active, selected, scroll, settings>>

\* After a synchronization, and after one that was cancelled, comes a scan.
ScanAgain ==
  /\ Refresh
  /\ selected' = Clamped(selected, GameBase + Len(games'))
  /\ named' = NoGame
  /\ work' = {}
  /\ Back
  /\ UNCHANGED settings

Cancel == screen = "confirm" /\ ScanAgain

Confirm ==
  /\ screen = "confirm"
  /\ screen' = "busy"
  /\ UNCHANGED <<list, active, selected, scroll, settings, target>>

\* The user has closed the report.
Closed == screen = "busy" /\ ScanAgain

Rescan == screen = "shown" /\ selected = RescanRow /\ ScanAgain

\* Cross on a game leads to the button that synchronizes it.
PickGame ==
  /\ screen = "shown"
  /\ selected >= GameBase
  /\ active' = selected - GameBase
  /\ selected' = Primary
  /\ Back
  /\ UNCHANGED <<list, scroll, settings, target>>

Directions == {"up", "down", "left", "right"}

\* What the menu does by itself; Launch, Quit, Confirm and Closed concern
\* the rest of the application too.
MenuStep ==
  \/ Draw \/ EditUrl \/ EditLogin \/ StartRefused \/ Ask \/ Cancel \/ Rescan
  \/ PickGame
  \/ \E d \in Directions : Move(d)

MenuNext == MenuStep \/ Launch \/ Quit \/ Confirm \/ Closed

MenuSpec == MenuInit /\ [][MenuNext]_menuVars

-----------------------------------------------------------------------------
MenuTypeOK ==
  /\ items \in Scans
  /\ games \in Lists
  /\ active \in Int
  /\ selected \in Int
  /\ scroll \in Nat
  /\ url \in Urls
  /\ login \subseteq Fields
  /\ screen \in Screens
  /\ named \in Games \cup {NoGame, AllGames}
  /\ work \subseteq Cards

(***************************************************************************)
(* The indices never outlive their list: whatever a scan has made of it,   *)
(* the focus is on a row there is, a game is armed when there is one, and  *)
(* the armed game is among the rows that are shown.                        *)
(***************************************************************************)
IndicesFit ==
  /\ selected \in Rows
  /\ active \in -1..(Len(games) - 1)
  /\ screen # "off" /\ games # <<>> => active >= 0
  /\ screen \in {"shown", "confirm", "busy"} =>
       /\ scroll \in 0..Len(games)
       /\ active >= 0 => active \in scroll..(scroll + Visible - 1)

(***************************************************************************)
(* "The current sync target is selected from the detected PS1 game list    *)
(* and remains highlighted even when focus moves back to the sync button": *)
(* as long as its cards are found, a game stays armed, wherever a scan     *)
(* puts it, until the user moves the focus to another row of the list.     *)
(***************************************************************************)
ArmedGameSurvives ==
  [][Armed # NoGame /\ Armed' # Armed /\ screen' # "off" =>
       \/ \A i \in DOMAIN games' : games'[i] # Armed
       \/ selected' >= GameBase]_menuVars

(***************************************************************************)
(* What is synchronized is what the confirmation named: all the cards of   *)
(* that game the scan found and no others, the game being the armed one    *)
(* and on the screen; and only with an address and a login.                *)
(***************************************************************************)
SyncGetsTheGame ==
  screen \in {"confirm", "busy"} =>
    /\ Connected
    /\ work # {}
    /\ IF named = AllGames THEN work = Found
       ELSE named = Armed /\ work = {c \in Found : GameOf[c] = named}

=============================================================================
