---------------------------- MODULE AppSettings ----------------------------
(***************************************************************************)
(* The application's settings (app_config.c) over launches: edited at the  *)
(* menu, written to settings.ini, loaded at the next start, and given a    *)
(* device_id by the server the first time a synchronization finds none     *)
(* (main.c, ensure_device_registration).                                   *)
(*                                                                         *)
(* settings.ini is written in place: opening it empties it, and a failed   *)
(* or interrupted save leaves the first lines, the last of them possibly   *)
(* cut.  The fields no action changes (TLS, time limit, names, paths, log) *)
(* are left out; the field order is that of app_config_save.               *)
(***************************************************************************)
EXTENDS Integers, Sequences, SyncTypes

CONSTANTS
  Typed,        \* Typed[f]: what the user may enter for field f
  AsLoaded,     \* AsLoaded[v]: v without surrounding blanks and quotes
  CutsOf,       \* CutsOf[v]: the proper prefixes of v, the empty one included
  Values,       \* all values of text fields
  DeviceOf,     \* DeviceOf[u]: the device_id the server at u gives this device
  Missing,      \* the file has no line for a field
  FaultBudget,  \* bound: failures and crashes
  MaxRequests,  \* bound: successful registrations
  MaxEdits      \* bound: confirmed edits, by hand or at the menu

Edited == {"url", "username", "password"}
TextFields == Edited \cup {"token", "device_id"}
Fields == TextFields \cup {"dry_run"}
Order == <<"url", "token", "username", "password", "device_id", "dry_run">>
Servers == {AsLoaded[u] : u \in Typed["url"]} \ {NoText}

ASSUME ValuesAssumption ==
  /\ NoText \in Values /\ Missing \notin Values \cup {"true", "false", "cut"}
  /\ Typed \in [Edited -> SUBSET Values]
  /\ AsLoaded \in [Values -> Values] /\ AsLoaded[NoText] = NoText
  /\ CutsOf \in [Values -> SUBSET Values]
  /\ \A v \in Values : AsLoaded[AsLoaded[v]] = AsLoaded[v]
  /\ DeviceOf \in [Servers -> Values \ {NoText}]
ASSUME BoundsAssumption ==
  FaultBudget \in Nat /\ MaxEdits \in Nat /\ MaxRequests \in Nat

VARIABLES
  pc,        \* "closed", "menu", or a save under way: "opening", "writing"
  mem,       \* state->config
  file,      \* settings.ini: lines, and whether one of them has no "="
  kept,      \* history: the settings of the last complete save or hand edit
  consent,   \* history: the user has set dry_run to false by hand
  requests,  \* history: devices the server registered
  edits, faults

vars == <<pc, mem, file, kept, consent, requests, edits, faults>>

\* A configuration.
IsConfig(c) ==
  /\ c \in [Fields -> Values \cup {"true", "false"}]
  /\ \A f \in TextFields : c[f] \in Values
  /\ c["dry_run"] \in {"true", "false"}

\* app_config_init_defaults
Defaults == [f \in Fields |-> IF f = "dry_run" THEN "true" ELSE NoText]

Empty == [lines |-> [f \in Fields |-> Missing], bad |-> FALSE]

TypeOK ==
  /\ pc \in {"closed", "menu", "opening", "writing"}
  /\ IsConfig(mem) /\ IsConfig(kept)
  /\ file \in [lines : [Fields -> Values \cup {"true", "false", "cut", Missing}],
               bad : BOOLEAN]
  /\ \A f \in TextFields : file.lines[f] \in Values \cup {Missing}
  /\ file.lines["dry_run"] \in {"true", "false", "cut", Missing}
  /\ consent \in BOOLEAN
  /\ requests \in 0..MaxRequests
  /\ edits \in 0..MaxEdits /\ faults \in 0..FaultBudget

Init ==
  /\ pc = "closed" /\ mem = Defaults
  /\ file = Empty /\ kept = Defaults
  /\ consent = FALSE /\ requests = 0 /\ edits = 0 /\ faults = 0

-----------------------------------------------------------------------------
\* Mutated forms, for the mutation check only, stand before the definition
\* they replace.
ParsedBoolVerbatim(text) == text
ParsedBoolLax(text) == IF text = "true" THEN "true" ELSE "false"

\* parse_bool_value: a spelling it does not know keeps the default, "true".
ParsedBool(text) == IF text = "false" THEN "false" ELSE "true"

\* app_config_load and the fallback of ui_initialize_state: a line without
\* "=" makes the load fail, and every setting is then the default one.
Loaded(f) ==
  IF f.bad THEN Defaults
  ELSE [k \in Fields |->
          IF f.lines[k] = Missing THEN Defaults[k]
          ELSE IF k = "dry_run" THEN ParsedBool(f.lines[k])
          ELSE AsLoaded[f.lines[k]]]

WholeWithoutDevice(c) ==
  [lines |-> [c EXCEPT !["device_id"] = Missing], bad |-> FALSE]

\* What a complete app_config_save leaves.
Whole(c) == [lines |-> c, bad |-> FALSE]

\* The file after the first n lines, and a part of the next one: nothing of
\* it, not even its "=" (bad), or a prefix of its value.
FirstLines(c, n) ==
  [f \in Fields |->
     IF \E i \in 1..n : Order[i] = f THEN c[f] ELSE Missing]

CutValues(f, v) == IF f = "dry_run" THEN {"cut"} ELSE CutsOf[v]

CutsAfter(c, n) ==
  {[lines |-> FirstLines(c, n), bad |-> b] : b \in BOOLEAN}
  \cup {[lines |-> [FirstLines(c, n) EXCEPT ![Order[n + 1]] = v], bad |-> FALSE]
         : v \in CutValues(Order[n + 1], c[Order[n + 1]])}

Cuts(c) == UNION {CutsAfter(c, n) : n \in 0..Len(Order) - 1}

-----------------------------------------------------------------------------
\* ui_initialize_state
Start ==
  /\ pc = "closed"
  /\ mem' = Loaded(file)
  /\ pc' = "menu"
  /\ UNCHANGED <<file, kept, consent, requests, edits, faults>>

Quit ==
  /\ pc = "menu"
  /\ pc' = "closed"
  /\ UNCHANGED <<mem, file, kept, consent, requests, edits, faults>>

\* ui_edit_config_field: the URL and the user name are trimmed, the password
\* is not; an unchanged field is not saved.
Edit ==
  /\ pc = "menu" /\ edits < MaxEdits
  /\ \E f \in Edited : \E v \in Typed[f] :
       LET entered == IF f = "password" THEN v ELSE AsLoaded[v] IN
       /\ entered # mem[f]
       /\ mem' = [mem EXCEPT ![f] = entered]
  /\ pc' = "opening"
  /\ edits' = edits + 1
  /\ UNCHANGED <<file, kept, consent, requests, faults>>

HasServerUrl(c) == HasText(c["url"])
HasAuth(c) == \/ HasText(c["token"])
              \/ HasText(c["username"]) /\ HasText(c["password"])

NeedsDeviceAlways(c) == HasServerUrl(c) /\ HasAuth(c)

\* ensure_device_registration at the start of a confirmed synchronization,
\* which the menu offers only with a server and credentials.
NeedsDevice(c) == HasServerUrl(c) /\ HasAuth(c) /\ ~HasText(c["device_id"])

\* The request succeeds; a server that cannot be reached, or refuses, leaves
\* everything as it was.
Register ==
  /\ pc = "menu" /\ NeedsDevice(mem)
  /\ mem["url"] \in Servers
  /\ requests < MaxRequests
  /\ mem' = [mem EXCEPT !["device_id"] = DeviceOf[mem["url"]]]
  /\ requests' = requests + 1
  /\ pc' = "opening"
  /\ UNCHANGED <<file, kept, consent, edits, faults>>

-----------------------------------------------------------------------------
\* app_config_save: fopen, the lines, fflush.
SaveOpens ==
  /\ pc = "opening"
  /\ pc' = "writing"
  /\ file' = Empty
  /\ UNCHANGED <<mem, kept, consent, requests, edits, faults>>

SaveEnds ==
  /\ pc = "writing"
  /\ pc' = "menu"
  /\ file' = Whole(mem)
  /\ kept' = mem
  /\ UNCHANGED <<mem, consent, requests, edits, faults>>

Fault == faults < FaultBudget /\ faults' = faults + 1

\* The directory or the file cannot be opened: the menu goes on with the
\* settings in memory.
SaveCannotOpen ==
  /\ pc = "opening" /\ Fault
  /\ pc' = "menu"
  /\ UNCHANGED <<mem, file, kept, consent, requests, edits>>

SaveFails ==
  /\ pc = "writing" /\ Fault
  /\ pc' = "menu"
  /\ file' \in Cuts(mem)
  /\ UNCHANGED <<mem, kept, consent, requests, edits>>

\* The application is killed or the console loses power.
Crash ==
  /\ pc # "closed" /\ Fault
  /\ pc' = "closed"
  /\ IF pc = "writing" THEN file' \in Cuts(mem) ELSE UNCHANGED file
  /\ UNCHANGED <<mem, kept, consent, requests, edits>>

\* The user sets dry_run in settings.ini while the application is closed.
SetDryRun ==
  /\ pc = "closed" /\ edits < MaxEdits
  /\ edits' = edits + 1
  /\ \E b \in {"true", "false"} :
       /\ file' = [file EXCEPT !.lines["dry_run"] = b]
       /\ kept' = [kept EXCEPT !["dry_run"] = b]
       /\ consent' = (b = "false")
  /\ UNCHANGED <<pc, mem, requests, faults>>

Next ==
  \/ Start \/ Quit \/ Edit \/ Register
  \/ SaveOpens \/ SaveEnds \/ SaveCannotOpen \/ SaveFails \/ Crash \/ SetDryRun

Spec == Init /\ [][Next]_vars

-----------------------------------------------------------------------------
(***************************************************************************)
(* Transfers are executed only on request: dry_run is off only if the user *)
(* turned it off, whatever a failed or interrupted save left in the file   *)
(* and however often the application was started since.  ("Default is      *)
(* dry_run = true for safety-first runs".)                                 *)
(***************************************************************************)
TransfersAreChosen == pc # "closed" /\ mem["dry_run"] = "false" => consent

(***************************************************************************)
(* Restarts keep what was persisted ("Confirm URL/username/password are    *)
(* still present"): unless a save failed or was interrupted, the settings  *)
(* at the menu are those of the last save, up to the blanks and quotes     *)
(* around a value, which the loader strips (from a password, too).         *)
(***************************************************************************)
SettingsSurviveRestart ==
  pc = "menu" /\ faults = 0 =>
    /\ mem["dry_run"] = kept["dry_run"]
    /\ \A f \in TextFields : mem[f] \in {kept[f], AsLoaded[kept[f]]}

(***************************************************************************)
(* The device registers once: without failures no later start, edit or     *)
(* synchronization asks the server for another device_id.                  *)
(***************************************************************************)
RegistersOnce == faults = 0 => requests <= 1

=============================================================================
