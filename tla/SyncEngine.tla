----------------------------- MODULE SyncEngine -----------------------------
(***************************************************************************)
(* One device's synchronization passes (sync_engine.c) with everything     *)
(* they read and write: the memory-card files and their backups, the       *)
(* conversion files, the state file, and the server that other devices     *)
(* also write.  A pass lists the server once, then takes the scanned cards *)
(* one after the other and uploads, downloads or skips each; a download    *)
(* backs the card up, fetches the remote save into a conversion file,      *)
(* rewrites the card in place from it and signs the result.                *)
(*                                                                         *)
(* Each file operation that a crash can cut is a step of its own.  Network *)
(* and file failures and crashes are counted against FaultBudget.          *)
(*                                                                         *)
(* A content stands for the 131072 bytes of a memory card; the header a    *)
(* .VMP file adds to them is represented by "signed" only.  The card's     *)
(* record in the state file is keyed by the card: module StateStore shows  *)
(* the array gives each (game, file, slot) at most one entry.  A card's    *)
(* remote counterpart is the save of the same game and slot: module        *)
(* GameMatcher is about how it is found.                                   *)
(***************************************************************************)
EXTENDS Integers, FiniteSets, ConflictResolver

CONSTANTS
  Cards,          \* local memory-card files (paths)
  Contents,       \* whole card contents
  Absent, Torn,   \* no file; a file that is only partly written
  BaseNames,      \* file names without their directories
  BaseName,       \* BaseName[c]: the name of c in its directory
  GameOf,         \* GameOf[c]: the directory (game) c lies in
  Selections,     \* the sets of cards one pass may be asked to treat
  Resolver,       \* answers the confirmation callback gives; {}: no callback
  DryRun,         \* settings.ini dry_run
  TracksDevice,   \* the server's list carries device_is_current
  ReportsOrigin,  \* the server's list carries the uploading device
  AwayWhileOpen,  \* files may change while the application sits at its menu
  FaultBudget,    \* bound: failures and crashes in one behaviour
  MaxTime,        \* bound: the clock, in seconds
  Endless         \* passes may repeat after the clock has reached MaxTime

Times == 0..MaxTime
Data == Contents \cup {Absent, Torn}
Device == "vita"
Origins == {NoText, Device, "elsewhere"}
Sizes == {"none", "vmp", "srm", "odd"}

ASSUME DataAssumption ==
  /\ Absent \notin Contents
  /\ Torn \notin Contents
  /\ Absent # Torn
ASSUME BoundsAssumption ==
  MaxTime \in Nat \ {0} /\ FaultBudget \in Nat
\* A scan keeps at most ROMM_MAX_VMP_ITEMS files.
ASSUME CardsAssumption == IsFiniteSet(Cards)
ASSUME NamingAssumption ==
  BaseName \in [Cards -> BaseNames] /\ Selections \subseteq SUBSET Cards
ASSUME SettingsAssumption ==
  /\ Resolver \subseteq SyncActionType
  /\ {DryRun, TracksDevice, ReportsOrigin, AwayWhileOpen, Endless}
       \subseteq BOOLEAN
  /\ NoText \notin {Device, "elsewhere"}

VARIABLES
  now,        \* the clock
  disk,       \* disk[c]: the file of card c
  backups,    \* backups[<<name, t>>]: the file <name>.bak.<t>
  temps,      \* conversion files of the running pass
  server,     \* server[c]: the newest save of that game and slot
  stateFile,  \* the state file on the memory card
  inventory,  \* inventory[c]: what the last scan said of c
  entries,    \* the state entries in memory
  listed,     \* listed[c]: the server's save as the pass listed it
  pc,         \* where the pass is
  todo,       \* scanned cards the pass has not taken yet
  cur,        \* the card being transferred
  got,        \* content of the current conversion file
  stamp,      \* the second the current backup is named after
  report,     \* SyncRunReport
  faults,     \* failures so far
  used,       \* history: contents that exist or existed anywhere
  replaced,   \* history: <<c, content>> a pass removed from card c
  known       \* history: <<c, content>> the server received or handed out

local   == <<disk, backups, temps>>
passive == <<now, server, faults, used>>
run     == <<listed, pc, todo, cur, got, stamp, report>>
vars == <<now, disk, backups, temps, server, stateFile, inventory, entries,
          listed, pc, todo, cur, got, stamp, report, faults, used, replaced,
          known>>

File == [data : Data, signed : BOOLEAN, mtime : Times]
Remote == [content : Contents \cup {Absent}, timestamp : Times,
           origin : Origins, current : BOOLEAN]
Item == [size : Sizes, timestamp : Times]
NoItem == [size |-> "none", timestamp |-> 0]
NoRemote == [content |-> Absent, timestamp |-> 0, origin |-> NoText,
             current |-> FALSE]
NoFile == [data |-> Absent, signed |-> FALSE, mtime |-> 0]
NoEntries == [c \in Cards |-> NoItem]
\* Two are not fields of SyncRunReport: refused409 counts the server's 409
\* answers, mistaken409 the local failures that are taken for one.
Counters == {"actions", "up", "down", "uploaded", "downloaded", "conflicts",
             "skipped", "errors", "refused409", "mistaken409"}
EmptyReport == [k \in Counters |-> 0]

\* Where the application is.  "off": not running; "idle": at its menu.
Resting == {"off", "idle"}
Steps == {"list", "items", "backup", "copying", "fetch", "template",
          "writing", "sign", "finish", "pack", "send", "accepted", "refused",
          "unsent", "save", "saving", "rescan"}

-----------------------------------------------------------------------------
(***************************************************************************)
(* Helpers.                                                                *)
(***************************************************************************)
SizeOf(d) == IF d \in Contents THEN "vmp"
             ELSE IF d = Torn THEN "odd" ELSE "none"

\* scan_vmp_files and scan_result_to_sync_saves: every file that exists.
Scan == [c \in Cards |-> IF disk[c].data = Absent THEN NoItem
                         ELSE [size |-> SizeOf(disk[c].data),
                               timestamp |-> disk[c].mtime]]

LocalItem(c) == [timestamp |-> inventory[c].timestamp,
                 size |-> inventory[c].size, hash |-> NoText, origin |-> NoText]
RemoteItem(c) == [timestamp |-> listed[c].timestamp, size |-> "srm",
                  hash |-> NoText, origin |-> listed[c].origin]

\* What the server's list says of a save.
Reported(r) == [content |-> r.content, timestamp |-> r.timestamp,
                origin |-> IF ReportsOrigin THEN r.origin ELSE NoText,
                current |-> IF TracksDevice THEN r.current ELSE FALSE]

Later(t) == IF t < MaxTime THEN t + 1 ELSE t
ClockMayAdvance == now < MaxTime \/ Endless

Bump(S) == report' = [k \in Counters |-> IF k \in S THEN report[k] + 1
                                         ELSE report[k]]

Fails == faults < FaultBudget /\ faults' = faults + 1

\* Other files of the same directory can lend their header.
Siblings(c) == {d \in Cards \ {c} : GameOf[d] = GameOf[c]}

\* resolve_template_vmp_path: the card's own file whenever there is one.
Templates(c) ==
  IF disk[c].data # Absent THEN {c}
  ELSE {d \in Siblings(c) : disk[d].data # Absent}

\* The sizes vmp_to_srm_file and srm_to_vmp_file accept: a whole card.  (The
\* mutated form before it, like the others below, serves the mutation check.)
ConvertibleUnchecked(d) == d # Absent
Convertible(d) == d \in Contents

\* The engine is done with the current card.
NextItem == pc' = "items"

KeepTemp == UNCHANGED temps
DropTemp == temps' = {}

-----------------------------------------------------------------------------
(***************************************************************************)
(* A pass begins.                                                          *)
(***************************************************************************)
Init ==
  /\ now = 1
  /\ disk \in [Cards -> [data : Contents \cup {Absent}, signed : {TRUE},
                         mtime : {1}]]
  /\ backups = [n \in BaseNames \X Times |-> Absent]
  /\ temps = {}
  /\ server = [c \in Cards |-> NoRemote]
  /\ stateFile = [ok |-> TRUE, entries |-> NoEntries]
  /\ inventory = NoEntries
  /\ entries = NoEntries
  /\ listed = [c \in Cards |-> NoRemote]
  /\ pc = "off"
  /\ todo = {}
  /\ cur \in Cards
  /\ got = Absent
  /\ stamp = 0
  /\ report = EmptyReport
  /\ faults = 0
  /\ used = {disk[c].data : c \in Cards} \cap Contents
  /\ replaced = {}
  /\ known = {}

\* ui_initialize_state: the application starts and scans.
Launch ==
  /\ pc = "off"
  /\ pc' = "idle"
  /\ inventory' = Scan
  /\ UNCHANGED <<local, passive, stateFile, entries, listed, todo, cur, got,
                 stamp, report, replaced, known>>

Quit ==
  /\ pc = "idle"
  /\ pc' = "off"
  /\ UNCHANGED <<local, passive, stateFile, inventory, entries, listed, todo,
                 cur, got, stamp, report, replaced, known>>

\* The player confirms the dialog, which takes the clock on; the report is
\* cleared and the state file loaded.
StartRun(cards) ==
  /\ pc = "idle"
  /\ ClockMayAdvance
  /\ now' = Later(now)
  /\ stateFile.ok
  /\ todo' = {c \in cards : inventory[c] # NoItem}
  /\ todo' # {}
  /\ entries' = stateFile.entries
  /\ report' = EmptyReport
  /\ pc' = "list"
  /\ UNCHANGED <<local, server, faults, used, stateFile, inventory, listed,
                 cur, got, stamp, replaced, known>>

\* SYNC_ENGINE_ERR_STATE_LOAD: the state file is malformed, which stops every
\* pass, or cannot be read this time.  A catalog that cannot be fetched stops
\* the pass before that, to the same effect.
StartRunRefused ==
  /\ pc = "idle"
  /\ ClockMayAdvance
  /\ now' = Later(now)
  /\ \/ ~stateFile.ok /\ UNCHANGED faults
     \/ Fails
  /\ pc' = "rescan"
  /\ UNCHANGED <<local, server, used, stateFile, inventory, entries, listed,
                 todo, cur, got, stamp, report, replaced, known>>

\* The user rescans, or cancels a synchronization, which rescans too.
RescanAtMenu ==
  /\ pc = "idle"
  /\ inventory' = Scan
  /\ UNCHANGED <<local, passive, run, stateFile, entries, replaced, known>>

ListRemote ==
  /\ pc = "list"
  /\ listed' = [c \in Cards |-> Reported(server[c])]
  /\ NextItem
  /\ UNCHANGED <<local, passive, stateFile, inventory, entries, todo, cur,
                 got, stamp, report, replaced, known>>

\* The body of a page breaks off: it reads as an empty page, which ends the
\* list (module RemoteListing), and the pass goes on with part of it.
ListCutShort ==
  /\ pc = "list"
  /\ Fails
  /\ \E seen \in SUBSET Cards :
       listed' = [c \in Cards |-> IF c \in seen THEN Reported(server[c])
                                  ELSE NoRemote]
  /\ NextItem
  /\ UNCHANGED <<local, now, server, used, stateFile, inventory, entries, todo,
                 cur, got, stamp, report, replaced, known>>

\* SYNC_ENGINE_ERR_REMOTE_LIST: nothing was done, nothing is saved.
ListFails ==
  /\ pc = "list"
  /\ Fails
  /\ pc' = "rescan"
  /\ todo' = {}
  /\ UNCHANGED <<local, now, server, used, stateFile, inventory, entries,
                 listed, cur, got, stamp, report, replaced, known>>

-----------------------------------------------------------------------------
(***************************************************************************)
(* The decision about one card (the loop of sync_engine_run).              *)
(***************************************************************************)
Take(c) == /\ pc = "items"
           /\ c \in todo
           /\ todo' = todo \ {c}
           /\ cur' = c

NoMatch(c) == listed[c].content = Absent

SameAsRecordedBySize(c) ==
  entries[c] # NoItem /\ inventory[c].size = entries[c].size

\* should_skip_redundant_upload
SameAsRecorded(c) ==
  /\ entries[c] # NoItem
  /\ inventory[c].size = entries[c].size
  /\ inventory[c].timestamp = entries[c].timestamp

ReportedCurrentAlways(c) == disk[c].data # Absent

\* remote_reports_current_for_device
ReportedCurrent(c) == listed[c].current /\ disk[c].data # Absent

Conflict(c) == Detect(LocalItem(c), RemoteItem(c), Device)

DecisionsUnasked(conflict) == {DefaultAction(conflict)}
DecisionsIgnored(conflict) == {"skip"}

\* What may be decided: a conflict that needs confirmation is skipped when
\* there is no callback; an answer other than the three is ignored.
Decisions(conflict) ==
  IF ~RequiresConfirmation(conflict) THEN {DefaultAction(conflict)}
  ELSE IF Resolver = {} THEN {"skip"}
  ELSE {IF a = "none" THEN DefaultAction(conflict) ELSE a : a \in Resolver}

SkipWithUncounted(c, counters) ==
  /\ Take(c)
  /\ Bump({"actions"} \cup counters)
  /\ UNCHANGED <<local, passive, stateFile, inventory, entries, listed, pc,
                 got, stamp, replaced, known>>

SkipWith(c, counters) ==
  /\ Take(c)
  /\ Bump({"actions", "skipped"} \cup counters)
  /\ UNCHANGED <<local, passive, stateFile, inventory, entries, listed, pc,
                 got, stamp, replaced, known>>

SkipUnchanged(c) == NoMatch(c) /\ SameAsRecorded(c) /\ SkipWith(c, {})

SkipCurrent(c) == ~NoMatch(c) /\ ReportedCurrent(c) /\ SkipWith(c, {})

\* No conflict, or a save that came from this device.
SkipQuiet(c) ==
  /\ ~NoMatch(c) /\ ~ReportedCurrent(c)
  /\ ~RequiresConfirmation(Conflict(c))
  /\ SkipWith(c, {})

Disputed(c) ==
  ~NoMatch(c) /\ ~ReportedCurrent(c) /\ RequiresConfirmation(Conflict(c))

SkipConflict(c) ==
  /\ Disputed(c)
  /\ "skip" \in Decisions(Conflict(c))
  /\ SkipWith(c, {"conflicts"})

\* execute_upload returns before its first effect in a dry run.
BeginUpload(c, counters) ==
  /\ Take(c)
  /\ Bump({"actions", "up"} \cup counters)
  /\ pc' = IF DryRun THEN "items" ELSE "pack"
  /\ UNCHANGED <<local, passive, stateFile, inventory, entries, listed, got,
                 stamp, replaced, known>>

UploadNew(c) == NoMatch(c) /\ ~SameAsRecorded(c) /\ BeginUpload(c, {})

UploadConflict(c) ==
  /\ Disputed(c)
  /\ "upload" \in Decisions(Conflict(c))
  /\ BeginUpload(c, {"conflicts"})

PlanWithoutBackup(c) == IF DryRun THEN "items" ELSE "fetch"

\* A file that is there is backed up first.
AfterDownloadPlanned(c) ==
  IF DryRun THEN "items"
  ELSE IF disk[c].data # Absent THEN "backup" ELSE "fetch"

DownloadConflict(c) ==
  /\ Disputed(c)
  /\ "download" \in Decisions(Conflict(c))
  /\ Take(c)
  /\ Bump({"actions", "down", "conflicts"})
  /\ pc' = AfterDownloadPlanned(c)
  /\ UNCHANGED <<local, passive, stateFile, inventory, entries, listed, got,
                 stamp, replaced, known>>

-----------------------------------------------------------------------------
(***************************************************************************)
(* execute_upload: convert to a temporary .srm, send, drop it, record.     *)
(***************************************************************************)
AbandonQuietly ==
  /\ UNCHANGED report
  /\ NextItem

\* The transfer of the current card ends with an error.
Abandon ==
  /\ Bump({"errors"})
  /\ NextItem

Pack ==
  /\ pc = "pack"
  /\ Convertible(disk[cur].data)
  /\ got' = disk[cur].data
  /\ temps' = {<<cur, "upload">>}
  /\ pc' = "send"
  /\ UNCHANGED <<passive, disk, backups, stateFile, inventory, entries,
                 listed, todo, cur, stamp, report, replaced, known>>

\* vmp_to_srm_file refuses a file that is missing or not 131200 bytes long,
\* and removes what it wrote when it fails later.  The caller does nothing
\* more about these statuses.
PackFails ==
  /\ pc = "pack"
  /\ IF Convertible(disk[cur].data) THEN Fails ELSE UNCHANGED faults
  /\ Abandon
  /\ UNCHANGED <<local, now, server, used, stateFile, inventory, entries,
                 listed, todo, cur, got, stamp, replaced, known>>

\* What the caller counts besides the skip when execute_upload returns
\* ROMM_CLIENT_ERR_CONFLICT: an upload that answered a conflict had already
\* been counted as one.
ConflictCounts == IF NoMatch(cur) THEN {"conflicts"} ELSE {}

\* The conversion directory cannot be made, or the conversion file cannot be
\* opened.  Both statuses are -3, as ROMM_CLIENT_ERR_CONFLICT is, so after the
\* error is counted the caller takes it for a 409.
PackTakenForConflict ==
  /\ pc = "pack"
  /\ Fails
  /\ Bump({"errors", "skipped", "mistaken409"} \cup ConflictCounts)
  /\ NextItem
  /\ UNCHANGED <<local, now, server, used, stateFile, inventory, entries,
                 listed, todo, cur, got, stamp, replaced, known>>

\* The server stores the save and remembers that this device has it.
Stored == [content |-> got, timestamp |-> now, origin |-> Device,
           current |-> TRUE]

ServerAccepts ==
  /\ pc = "send"
  /\ server' = [server EXCEPT ![cur] = Stored]
  /\ known' = known \cup {<<cur, got>>}
  /\ pc' = "accepted"
  /\ UNCHANGED <<local, now, used, faults, stateFile, inventory, entries,
                 listed, todo, cur, got, stamp, report, replaced>>

\* The save is stored but the reply is lost.
ReplyLost ==
  /\ pc = "send"
  /\ Fails
  /\ server' = [server EXCEPT ![cur] = Stored]
  /\ known' = known \cup {<<cur, got>>}
  /\ pc' = "unsent"
  /\ UNCHANGED <<local, now, used, stateFile, inventory, entries, listed,
                 todo, cur, got, stamp, report, replaced>>

\* 409 Conflict: the server has a save this device has not seen.
ServerRefuses ==
  /\ pc = "send"
  /\ server[cur].content # Absent
  /\ ~server[cur].current
  /\ pc' = "refused"
  /\ UNCHANGED <<local, passive, stateFile, inventory, entries, listed, todo,
                 cur, got, stamp, report, replaced, known>>

SendFails ==
  /\ pc = "send"
  /\ Fails
  /\ pc' = "unsent"
  /\ UNCHANGED <<local, now, server, used, stateFile, inventory, entries,
                 listed, todo, cur, got, stamp, report, replaced, known>>

\* The upload is recorded with the size and date the scan found.
UploadRecord == inventory[cur]

FinishUpload ==
  /\ pc = "accepted"
  /\ DropTemp
  /\ entries' = [entries EXCEPT ![cur] = UploadRecord]
  /\ Bump({"uploaded"})
  /\ NextItem
  /\ UNCHANGED <<passive, disk, backups, stateFile, inventory, listed, todo,
                 cur, got, stamp, replaced, known>>

\* The state array is full: executed, but reported as an error.
FinishUploadUnrecorded ==
  /\ pc = "accepted"
  /\ Fails
  /\ DropTemp
  /\ Bump({"uploaded", "errors"})
  /\ NextItem
  /\ UNCHANGED <<now, server, used, disk, backups, stateFile, inventory,
                 entries, listed, todo, cur, got, stamp, replaced, known>>

FinishRefusedRetries ==
  /\ pc = "refused"
  /\ pc' = "send"
  /\ UNCHANGED <<local, passive, stateFile, inventory, entries, listed, todo,
                 cur, got, stamp, report, replaced, known>>

\* A 409 turns the action into a skip.
FinishRefused ==
  /\ pc = "refused"
  /\ DropTemp
  /\ Bump({"skipped", "refused409"} \cup ConflictCounts)
  /\ NextItem
  /\ UNCHANGED <<passive, disk, backups, stateFile, inventory, entries,
                 listed, todo, cur, got, stamp, replaced, known>>

FinishUnsent ==
  /\ pc = "unsent"
  /\ DropTemp
  /\ Abandon
  /\ UNCHANGED <<passive, disk, backups, stateFile, inventory, entries,
                 listed, todo, cur, got, stamp, replaced, known>>

-----------------------------------------------------------------------------
(***************************************************************************)
(* execute_download: back up, fetch, rebuild in place, sign, record.       *)
(***************************************************************************)
BackupOfUndated(c, t) == <<BaseName[c], 0>>

\* <backup directory>/<file name>.bak.<seconds>
BackupOf(c, t) == <<BaseName[c], t>>

\* copy_file_contents opens the copy with "wb": a file of that name is lost.
BackupOpen ==
  /\ pc = "backup"
  /\ stamp' = now
  /\ backups' = [backups EXCEPT ![BackupOf(cur, now)] = Torn]
  /\ pc' = "copying"
  /\ UNCHANGED <<passive, disk, temps, stateFile, inventory, entries, listed,
                 todo, cur, got, report, replaced, known>>

BackupRefused ==
  /\ pc = "backup"
  /\ Fails
  /\ Abandon
  /\ UNCHANGED <<local, now, server, used, stateFile, inventory, entries,
                 listed, todo, cur, got, stamp, replaced, known>>

BackupDone ==
  /\ pc = "copying"
  /\ backups' = [backups EXCEPT ![BackupOf(cur, stamp)] = disk[cur].data]
  /\ pc' = "fetch"
  /\ UNCHANGED <<passive, disk, temps, stateFile, inventory, entries, listed,
                 todo, cur, got, stamp, report, replaced, known>>

\* The partial copy is removed and the download abandoned.
BackupFails ==
  /\ pc = "copying"
  /\ Fails
  /\ backups' = [backups EXCEPT ![BackupOf(cur, stamp)] = Absent]
  /\ Abandon
  /\ UNCHANGED <<now, server, used, disk, temps, stateFile, inventory,
                 entries, listed, todo, cur, got, stamp, replaced, known>>

\* What GET /api/saves/<id>/content can return: the listed save, or the one
\* that has replaced it under the same id.
Served == {listed[cur].content, server[cur].content}

\* optimistic=true: the server notes at once that this device is current,
\* unless it does not know the device and is asked again without it.
NoteDownload(k) ==
  server' = IF k = server[cur].content
              THEN [server EXCEPT ![cur].current = TRUE] ELSE server

Fetch ==
  /\ pc = "fetch"
  /\ server[cur].content # Absent
  /\ \E k \in Served :
       /\ got' = k
       /\ NoteDownload(k) \/ UNCHANGED server
       /\ known' = known \cup {<<cur, k>>}
  /\ temps' = {<<cur, "download">>}
  /\ pc' = "template"
  /\ UNCHANGED <<now, used, faults, disk, backups, stateFile, inventory,
                 entries, listed, todo, cur, stamp, report, replaced>>

\* The save is gone (404), or the network fails before or after the server
\* has answered; the conversion file is removed.
FetchFails ==
  /\ pc = "fetch"
  /\ \/ server[cur].content = Absent /\ UNCHANGED <<faults, server>>
     \/ Fails /\ UNCHANGED server
     \/ /\ Fails
        /\ server[cur].content # Absent
        /\ NoteDownload(server[cur].content)
  /\ Abandon
  /\ UNCHANGED <<local, now, used, stateFile, inventory, entries, listed,
                 todo, cur, got, stamp, replaced, known>>

\* srm_to_vmp_file checks both sizes and reads the template's header before
\* it opens the card for writing, which truncates it.
RebuildOpen ==
  /\ pc = "template"
  /\ \E t \in Templates(cur) : Convertible(disk[t].data)
  /\ disk' = [disk EXCEPT ![cur] =
                [data |-> Torn, signed |-> FALSE, mtime |-> now]]
  /\ replaced' = replaced \cup ({<<cur, disk[cur].data>>}
                                  \cap (Cards \X Contents))
  /\ pc' = "writing"
  /\ UNCHANGED <<passive, backups, temps, stateFile, inventory, entries,
                 listed, todo, cur, got, stamp, report, known>>

\* No template, an unusable one, or a failure before the card is opened.
RebuildRefused ==
  /\ pc = "template"
  /\ \/ Templates(cur) = {} /\ UNCHANGED faults
     \/ (\E t \in Templates(cur) : ~Convertible(disk[t].data)) /\ UNCHANGED faults
     \/ Fails
  /\ DropTemp
  /\ Abandon
  /\ UNCHANGED <<now, server, used, disk, backups, stateFile, inventory,
                 entries, listed, todo, cur, got, stamp, replaced, known>>

RebuildDone ==
  /\ pc = "writing"
  /\ disk' = [disk EXCEPT ![cur] =
                [data |-> got, signed |-> FALSE, mtime |-> now]]
  /\ pc' = "sign"
  /\ UNCHANGED <<passive, backups, temps, stateFile, inventory, entries,
                 listed, todo, cur, got, stamp, report, replaced, known>>

\* A write error removes the card's file.
RebuildFails ==
  /\ pc = "writing"
  /\ Fails
  /\ disk' = [disk EXCEPT ![cur] = NoFile]
  /\ DropTemp
  /\ Abandon
  /\ UNCHANGED <<now, server, used, backups, stateFile, inventory, entries,
                 listed, todo, cur, got, stamp, replaced, known>>

Sign ==
  /\ pc = "sign"
  /\ disk' = [disk EXCEPT ![cur].signed = TRUE, ![cur].mtime = now]
  /\ pc' = "finish"
  /\ UNCHANGED <<passive, backups, temps, stateFile, inventory, entries,
                 listed, todo, cur, got, stamp, report, replaced, known>>

\* The rebuilt card stays, unsigned.
SignFails ==
  /\ pc = "sign"
  /\ Fails
  /\ DropTemp
  /\ Abandon
  /\ UNCHANGED <<now, server, used, disk, backups, stateFile, inventory,
                 entries, listed, todo, cur, got, stamp, replaced, known>>

\* The download is recorded with the size and date of the remote save.
DownloadRecord == [size |-> "srm", timestamp |-> listed[cur].timestamp]

FinishDownload ==
  /\ pc = "finish"
  /\ DropTemp
  /\ entries' = [entries EXCEPT ![cur] = DownloadRecord]
  /\ Bump({"downloaded"})
  /\ NextItem
  /\ UNCHANGED <<passive, disk, backups, stateFile, inventory, listed, todo,
                 cur, got, stamp, replaced, known>>

FinishDownloadUnrecorded ==
  /\ pc = "finish"
  /\ Fails
  /\ DropTemp
  /\ Bump({"downloaded", "errors"})
  /\ NextItem
  /\ UNCHANGED <<now, server, used, disk, backups, stateFile, inventory,
                 entries, listed, todo, cur, got, stamp, replaced, known>>

-----------------------------------------------------------------------------
(***************************************************************************)
(* The end of a pass: save the state file in place, show the report, scan. *)
(***************************************************************************)
EndItems ==
  /\ pc = "items"
  /\ todo = {}
  /\ pc' = IF DryRun THEN "rescan" ELSE "save"
  /\ UNCHANGED <<local, passive, stateFile, inventory, entries, listed, todo,
                 cur, got, stamp, report, replaced, known>>

\* fopen(path, "wb") leaves an empty file, which loads as an empty state.
SaveOpen ==
  /\ pc = "save"
  /\ stateFile' = [ok |-> TRUE, entries |-> NoEntries]
  /\ pc' = "saving"
  /\ UNCHANGED <<local, passive, inventory, entries, listed, todo, cur, got,
                 stamp, report, replaced, known>>

SaveRefused ==
  /\ pc = "save"
  /\ Fails
  /\ pc' = "rescan"
  /\ UNCHANGED <<local, now, server, used, stateFile, inventory, entries,
                 listed, todo, cur, got, stamp, report, replaced, known>>

SaveDone ==
  /\ pc = "saving"
  /\ stateFile' = [ok |-> TRUE, entries |-> entries]
  /\ pc' = "rescan"
  /\ UNCHANGED <<local, passive, inventory, entries, listed, todo, cur, got,
                 stamp, report, replaced, known>>

\* A cut save keeps some of the entries, or cannot be loaded (StateStore).
CutSave ==
  \/ \E kept \in SUBSET Cards :
       stateFile' = [ok |-> TRUE,
                     entries |-> [c \in Cards |-> IF c \in kept THEN entries[c]
                                                 ELSE NoItem]]
  \/ stateFile' = [ok |-> FALSE, entries |-> NoEntries]

SaveFails ==
  /\ pc = "saving"
  /\ Fails
  /\ CutSave
  /\ pc' = "rescan"
  /\ UNCHANGED <<local, now, server, used, inventory, entries, listed, todo,
                 cur, got, stamp, report, replaced, known>>

\* ui_present_report, then ui_refresh_local_inventory.  Nothing reads the
\* pass's memory again, so it is dropped here.
Forget ==
  /\ entries' = NoEntries
  /\ listed' = [c \in Cards |-> NoRemote]
  /\ todo' = {}
  /\ got' = Absent
  /\ stamp' = 0
  /\ report' = EmptyReport
  /\ UNCHANGED cur

Rescan ==
  /\ pc = "rescan"
  /\ pc' = "idle"
  /\ inventory' = Scan
  /\ Forget
  /\ UNCHANGED <<local, passive, stateFile, replaced, known>>

\* The process dies.  A save in progress is cut; conversion files stay, but
\* their names carry a time no later pass uses, so they are not kept here.
Crash ==
  /\ pc # "off"
  /\ Fails
  /\ pc' = "off"
  /\ DropTemp
  /\ IF pc = "saving" THEN CutSave ELSE UNCHANGED stateFile
  /\ inventory' = NoEntries
  /\ Forget
  /\ UNCHANGED <<now, server, used, disk, backups, replaced, known>>

-----------------------------------------------------------------------------
(***************************************************************************)
(* The rest of the world.                                                  *)
(***************************************************************************)
Unattended == pc = "off" \/ (AwayWhileOpen /\ pc = "idle")

outside == <<backups, temps, stateFile, inventory, entries, run, faults,
             replaced, known>>

\* The player plays: the emulator writes the card whole, later than before.
Play(c) ==
  /\ Unattended
  /\ now < MaxTime
  /\ now' = now + 1
  /\ \E k \in Contents \ used :
       /\ disk' = [disk EXCEPT ![c] =
                     [data |-> k, signed |-> TRUE, mtime |-> now + 1]]
       /\ used' = used \cup {k}
  /\ UNCHANGED <<outside, server>>

Delete(c) ==
  /\ Unattended
  /\ disk[c].data # Absent
  /\ disk' = [disk EXCEPT ![c] = NoFile]
  /\ UNCHANGED <<outside, server, now, used>>

\* Another device uploads a save, at any moment.
OtherUpload(c) ==
  /\ \E k \in Contents \ used :
       /\ server' = [server EXCEPT ![c] =
                       [content |-> k, timestamp |-> now,
                        origin |-> "elsewhere", current |-> FALSE]]
       /\ used' = used \cup {k}
  /\ UNCHANGED <<outside, disk, now>>

\* Somebody deletes the save on the server.
ServerDelete(c) ==
  /\ server[c].content # Absent
  /\ server' = [server EXCEPT ![c] = NoRemote]
  /\ UNCHANGED <<outside, disk, now, used>>

Tick ==
  /\ now < MaxTime
  /\ now' = now + 1
  /\ UNCHANGED <<outside, disk, server, used>>

-----------------------------------------------------------------------------
Decide ==
  \E c \in Cards :
    \/ SkipUnchanged(c) \/ SkipCurrent(c) \/ SkipQuiet(c) \/ SkipConflict(c)
    \/ UploadNew(c) \/ UploadConflict(c) \/ DownloadConflict(c)

UploadStep ==
  \/ Pack \/ PackFails \/ PackTakenForConflict
  \/ ServerAccepts \/ ReplyLost \/ ServerRefuses \/ SendFails
  \/ FinishUpload \/ FinishUploadUnrecorded \/ FinishRefused \/ FinishUnsent

DownloadStep ==
  \/ BackupOpen \/ BackupRefused \/ BackupDone \/ BackupFails
  \/ Fetch \/ FetchFails
  \/ RebuildOpen \/ RebuildRefused \/ RebuildDone \/ RebuildFails
  \/ Sign \/ SignFails \/ FinishDownload \/ FinishDownloadUnrecorded

EndStep ==
  \/ EndItems \/ SaveOpen \/ SaveRefused \/ SaveDone \/ SaveFails \/ Rescan

EngineStep ==
  \/ ListRemote \/ ListCutShort \/ ListFails \/ Decide \/ UploadStep \/ DownloadStep
  \/ EndStep

AppStep ==
  \/ Launch \/ Quit \/ Crash \/ StartRunRefused \/ RescanAtMenu
  \/ \E cards \in Selections : StartRun(cards)

WorldStep ==
  \/ Tick
  \/ \E c \in Cards : Play(c) \/ Delete(c) \/ OtherUpload(c) \/ ServerDelete(c)

Next == EngineStep \/ AppStep \/ WorldStep

Spec == Init /\ [][Next]_vars

-----------------------------------------------------------------------------
TypeOK ==
  /\ now \in Times
  /\ disk \in [Cards -> File]
  /\ backups \in [BaseNames \X Times -> Data]
  /\ temps \subseteq Cards \X {"upload", "download"}
  /\ server \in [Cards -> Remote]
  /\ stateFile \in [ok : BOOLEAN, entries : [Cards -> Item]]
  /\ inventory \in [Cards -> Item]
  /\ entries \in [Cards -> Item]
  /\ listed \in [Cards -> Remote]
  /\ pc \in Resting \cup Steps
  /\ todo \subseteq Cards
  /\ cur \in Cards
  /\ got \in Contents \cup {Absent}
  /\ stamp \in Times
  /\ report \in [Counters -> Nat]
  /\ faults \in 0..FaultBudget
  /\ used \subseteq Contents
  /\ replaced \subseteq Cards \X Contents
  /\ known \subseteq Cards \X Contents

Preserved(c, k) == \E t \in Times : backups[BackupOf(c, t)] = k

(***************************************************************************)
(* Safety Model, "always create backups before restore": whatever failed,  *)
(* and wherever the process died, every content a pass removed from a      *)
(* memory card is still in one of that card's backups.                     *)
(***************************************************************************)
NothingLost ==
  \A c \in Cards, k \in Contents :
     <<c, k>> \in replaced => Preserved(c, k)

\* A scan made now would say of the card what the last one said.
StillAsScanned(c) == inventory[c] = Scan[c]

(***************************************************************************)
(* A card is skipped as "unchanged" only when the server was given, or     *)
(* gave, the very content the scan found: no crash, cut state file, lost   *)
(* reply, or upload of a content newer than the scan whose size and date   *)
(* are recorded for it, makes the record vouch for a content that never    *)
(* reached the server.  (A card rewritten after the scan is judged by the  *)
(* scan all the same: that the code does not notice.)                      *)
(***************************************************************************)
SkipUnchangedIsSound ==
  \A c \in todo :
     pc = "items" /\ NoMatch(c) /\ SameAsRecorded(c) /\ StillAsScanned(c)
       => <<c, disk[c].data>> \in known

(***************************************************************************)
(* A pass that damages a card says so: when a card of the inventory has    *)
(* been written since the scan and the engine moves on leaving it missing, *)
(* cut or unsigned, the report counts an error.                            *)
(***************************************************************************)
DamageIsReported ==
  pc \in {"items", "save", "saving"} =>
    \A c \in Cards :
       /\ inventory[c] # NoItem
       /\ disk[c].mtime # inventory[c].timestamp
       /\ ~disk[c].signed
       => report["errors"] > 0

(***************************************************************************)
(* Every card taken is accounted for: planned or skipped, and both only    *)
(* when its upload met a 409 or a failure that is taken for one; and every *)
(* transfer planned outside a dry run was executed, refused by the server, *)
(* or counted as an error.                                                 *)
(***************************************************************************)
ReportAddsUp ==
  pc \in {"items", "save", "saving"} =>
    /\ report["actions"] + report["refused409"] + report["mistaken409"] =
         report["skipped"] + report["up"] + report["down"]
    /\ ~DryRun => report["up"] + report["down"] <=
         report["uploaded"] + report["downloaded"] + report["refused409"]
           + report["errors"]

(***************************************************************************)
(* A card the server refuses is a conflict and no transfer error, and one  *)
(* that fails is an error and no conflict (docs/index.md:156, "as          *)
(* synchronization conflicts ... rather than generic transfer errors"): no *)
(* card of a pass is counted as skipped and as failed at once.             *)
(***************************************************************************)
ErrorsAreNotConflicts ==
  pc \in {"items", "save", "saving"} =>
    report["errors"] + report["skipped"] <= report["actions"]

(***************************************************************************)
(* Between two cards no conversion file is left behind, on success or on   *)
(* any failure: a later card never picks up an earlier card's payload.     *)
(***************************************************************************)
NoTempLeft == pc \in {"items", "save", "saving", "rescan"} => temps = {}

(***************************************************************************)
(* Safety Model, "never overwrite local saves automatically": without a    *)
(* confirmation callback, or in a dry run, no pass changes a memory card   *)
(* or a backup.                                                            *)
(***************************************************************************)
CardsAreOnlyRead ==
  [][pc \notin Resting => UNCHANGED <<disk, backups>>]_vars

(***************************************************************************)
(* Fairness: the engine is a sequential program that never waits on        *)
(* anything but the network, whose calls time out; the user starts the     *)
(* application and synchronizes again and again.                           *)
(***************************************************************************)
UserSynchronizes == \E cards \in Selections : StartRun(cards)

FairSpec ==
  /\ Spec
  /\ WF_vars(EngineStep)
  /\ WF_vars(Launch)
  /\ SF_vars(UserSynchronizes)

(***************************************************************************)
(* Upload half of "bidirectional synchronization": a content that stays on *)
(* a card reaches the server, unless another device's save is in the way.  *)
(***************************************************************************)
LocalProgressReachesServer ==
  \A c \in Cards, k \in Contents :
     []<>(\/ disk[c].data # k
          \/ <<c, k>> \in known
          \/ server[c].origin = "elsewhere")

(***************************************************************************)
(* Download half: a newer save of another device that stays on the server  *)
(* reaches a card that is left alone.                                      *)
(***************************************************************************)
RemoteProgressReachesCard ==
  \A c \in Cards, k \in Contents :
     []<>(\/ server[c].content # k
          \/ server[c].timestamp <= disk[c].mtime
          \/ disk[c].data = Absent
          \/ disk[c].data = k)

(***************************************************************************)
(* Every pass comes to an end.                                             *)
(***************************************************************************)
PassEnds == pc \notin Resting ~> pc \in Resting

\* The contents of card c that backups preserve.
Vaulted(c) == {k \in Contents : Preserved(c, k)}

(***************************************************************************)
(* The pass implements SaveVault: no step of it replaces a content that is *)
(* not preserved, and backups once made stay.                              *)
(***************************************************************************)
Vault == INSTANCE SaveVault
           WITH live <- [c \in Cards |-> disk[c].data],
                vault <- [c \in Cards |-> Vaulted(c)],
                busy <- pc \notin Resting

VaultSpec == Vault!Spec

=============================================================================
