# romm-vita-sync in TLA+

A PS Vita application that keeps the memory cards of PS1 games (`SCEVMC0.VMP`,
`SCEVMC1.VMP`) in step with a RomM server. This directory holds TLA+ models of
its logic, TLC configurations that check them on small instances, and TLAPS
proofs of what matters most. Source paths are relative to the repository (`src/…`
below is its `src/` directory); `PROJECT.json` maps each definition to the lines
it models and lists the hazards the properties are for.

    tlc -workers 2 -config MCSyncEngine_faults.cfg MCSyncEngine.tla
    tlc -workers 2 -config MCApplication.cfg MCApplication.tla
    tlapm SyncEngineProofs.tla

## 1. The system

One process, one thread, no locks: the application draws a menu, and each user
action runs to completion. What makes it hard is everything outside that thread:
a battery or a player that ends the process between two file operations, an
emulator that rewrites cards between a scan and a pass, other devices that write
the same server, replies that are lost, and files that are written in place.

| Component | State it keeps | Operations | Talks to |
|---|---|---|---|
| `main.c` (application, menu) | `UiAppState`: configuration, inventory of the last scan, list of games, selection | start, rescan, edit a setting, register, synchronize one game or all, quit | everything below |
| `app_config.c` | `settings.ini` | defaults, load, save | — |
| `save_scanner.c`, `scan_to_sync_adapter.c` | — | walk the PS1 directories, give each card size, date, slot, game | inventory |
| `sync_engine.c` | local to a pass: remote list, state entries, `SyncRunReport` | `sync_engine_run`: list, decide, upload, download, record, save | client, matcher, resolver, backup, converter, signer, state store |
| `conflict_resolver.c` | — | classify two saves, default action, whether to ask | engine |
| `game_matcher.c` | — | ROM of a save, remote counterpart of a save | engine, client |
| `sync_state_store.c` | `sync_state.db` and its array of at most 512 entries | load, find, upsert, save | engine |
| `backup_manager.c` | the backup directory | copy a file to `<name>.bak.<seconds>` | engine |
| `vmp_srm_converter.c`, `vmp_signer.c` | — | `.VMP` ⇄ `.srm`, sign in place | engine |
| `romm_http_client.c` behind `romm_client.c` | the network stack of one transaction, brought up and taken down for every request | register, catalog, list saves by page, upload, download | RomM server |
| `sync_types.c` | — | reading of dates and slots | scanner, client |

A pass, in the code's order: load the state file; resolve ROM ids from the
catalog; list the remote saves; for every scanned card find its remote
counterpart and decide (unchanged since the last pass, reported current by the
server, same, conflict that the callback or the absence of one settles, or new);
upload through a temporary `.srm`, or back up, download into a temporary `.srm`,
rebuild the `.VMP` in place and sign it; write the state file; show the report;
scan again.

What makes each part correct, and what is hard about it:

* **engine** — no content is lost that is not in a backup first; "unchanged" is
  only said of what the server really has, as far as the scan can tell; damage is
  reported; every card is counted. Hard: failures and crashes between truncating, writing and signing;
  scans and state records that are older than the file; a reply lost after the
  server has acted.
* **state store** — one entry per card, found by a search in which an unknown
  slot is a wildcard; a cut file loads as something genuine or not at all.
* **resolver, matcher** — answers that do not depend on order, on other
  platforms or on which side asks; the newer side wins.
* **listing** — one row per ROM and slot, the latest, although rows appear and
  change between the pages; ends.
* **settings** — transfers are off until the user turns them on, also after a
  cut save; one registration.
* **menu** — the focus, the armed game and the part of the list that is shown are
  indices into a list every scan rebuilds and sorts again; whatever it does to
  them, the game the user confirmed is the one synchronized, with all its cards.
* **requests** — thirteen acquisitions, any of which fails, in layers that stand
  on each other: nothing leaks, nothing is taken down under something that still
  runs, no half file is left for the conversion; and every synchronization ends,
  whatever its requests answer.
* **dates** — a file's date and a server's become the exact second of one
  calendar, and an impossible one is unknown rather than wrong.

`PROJECT.json` "hazards" lists these one by one at the line where they bite.

## 2. Modules

| Module | Models | Used by |
|---|---|---|
| `SyncTypes` | the enumerations, empty text, "no match" (`sync_types.h`) | all |
| `ConflictResolver` | `conflict_resolver.c` as operators | `DecisionCheck`, `SyncEngine` |
| `GameMatcher` | both searches of `game_matcher.c` as operators | `DecisionCheck`, `RemoteListing` |
| `CivilTime` | dates to timestamps (`sync_types.c`, `parse_iso_timestamp`) as operators | `DecisionCheck` |
| `DecisionCheck` | one call of any of the three, on every input | run `decisions` |
| `StateEntries` | the array: key comparison, find, upsert, parse | `StateStore` |
| `StateStore` | the array and file over passes, cuts and crashes | run `state_store` |
| `SyncEngine` | a pass, the files, the server and the world | the `engine_*` runs |
| `SaveVault` | what a pass promises: replace only what is preserved | refined by `SyncEngine` |
| `TransferLedger` | what the state file stands for: a record for each save that was transferred | refined by `StateStore` and by `SyncEngine` |
| `RemoteListing` | paging and merging with other devices at work | `listing`, `listing_cut` |
| `AppSettings` | settings over launches, edits, saves, crashes | `settings` |
| `SyncMenu` | the menu of `main.c`: inventory, list of games, focus, confirmation | `Application` |
| `HttpTransaction` | one request from set-up to tear-down, every call of which may fail | `Application` |
| `Application` | the composition: a confirmed synchronization as a sequence of requests | run `application` |
| `DecisionProofs`, `SearchProofs`, `StateStoreProofs`, `SyncEngineProofs`, `RemoteListingProofs`, `AppSettingsProofs`, `HttpTransactionProofs`, `ApplicationProofs` | theorems | — |
| `MC*` | instances for TLC | — |

Operators written next to a definition and named after it (`SlotKeyMatchesExactly`,
`BackupOfUndated`, …) are mutated forms: plausible bugs, used only to show that each
property can fail.

### SyncEngine

State against code: `disk` is the `.VMP` files; `backups` the backup directory,
keyed as the code names files, by base name and second; `temps` the conversion
files; `stateFile`/`entries` the state file and `SyncStateStore`; `inventory` the
scan in `UiAppState`; `listed` the array `remote_items`; `todo`, `cur` the loop
over local saves; `report` is `SyncRunReport`; `server` and `now` are the world.
`used`, `replaced`, `known` are history variables the properties need; `faults`
counts failures.

One action per step a crash can separate: `StartRun`, `ListRemote`, the seven
outcomes of the loop body, `Pack` … `FinishUpload` for `execute_upload`,
`BackupOpen` … `FinishDownload` for `execute_download`, `EndItems`, `SaveOpen`,
`SaveDone`, `Rescan`, each with its failing counterpart (`BackupFails`,
`RebuildFails`, `SignFails`, `ReplyLost`, …). `RebuildOpen` is the `fopen(…, "wb")`
that truncates the card. `Crash` may happen anywhere outside "off".

A conversion that fails before an upload is two actions, told apart by its status.
`PackFails` is an error and no more. `PackTakenForConflict` is a conversion
directory that cannot be made or a conversion file that cannot be opened: their
status, -3, is that of a `409`, so the callers go on as for one (finding 3).
`refused409` and `mistaken409` among the counters are not in `SyncRunReport`; they
tell the two apart in `ReportAddsUp`.

What it abstracts, and why that is safe:

* a content stands for the 131072 bytes of a card; `Torn` for any partial file;
  the `.VMP` header is one bit, signed or not;
* the order in which the loop takes the cards is free (the code's is the scan's);
* the state record of a card is keyed by the card. That the array and the file
  provide this is `TransferLedger`: `StateStore` implements it with wildcard
  searches and a file that may be cut, the engine uses it with a set of records,
  and both are proved. `last_upload` and the origin in an entry are read by no
  decision and left out;
* a card's remote counterpart is the save of its game and slot; how it is found
  is `GameMatcher`, checked on its own and with the list in `RemoteListing`;
* a ROM that cannot be resolved, a payload that is refused and a network error
  are all `SendFails`;
* a cut state file keeps any subset of the entries or cannot be loaded: more than
  the prefixes `StateStore` shows possible;
* a crash strands conversion files; their names carry the time, so no later pass
  meets them and `Crash` drops them;
* the confirmation dialog takes the clock on by a second before a pass begins;
* the server is external: a `409` may come whenever it holds a save not noted as
  current for this device; a download returns the listed save or the one that has
  replaced it; `optimistic=true` makes it note the device as current when it sends
  the bytes, unless the client fell back to a request without `device_id`.

### StateEntries, StateStore

`SlotKeyMatches` is the wildcard comparison of `entry_key_matches`; `FindIndex` the
first match; `Upsert` overwrites or appends, and refuses when full. The file is
the entries of the last save, and a save that fails or is interrupted leaves any
prefix of the text: whole entries and a last one whose fields were partly
written. `Load` applies the parser's defaults to the missing fields.

### TransferLedger

A set of pairs of a save and its record. A session opens it, records transfers and
files them; a filing that is cut keeps any of the records or leaves a file that
cannot be read. What a vague key (a save whose slot is unknown) may take the place
of is the one place where the store's wildcard shows.

### RemoteListing

`FetchPage`, `TakeRow`, `PageDone` are the loop of
`romm_http_list_remote_saves_callback`; `Merge`, `Existing`, `Newer` its
identity and ordering rules. `FetchCutShort` is a body that breaks off, which
`http_send_request` takes for a success. `Add`, `Touch`, `Delete` are other
devices; the order of rows is the server's own and not assumed.

### AppSettings

The lines of `settings.ini` in the order `app_config_save` writes them; a cut save
leaves the first lines and a prefix of the next. The user edits `dry_run` by hand
while the application is closed (no menu entry changes it), the other fields in
the menu.

### SyncMenu

`items` is `local_items`, `games` the keys of `UiGameEntry` in their order,
`active`, `selected` and `scroll` the three indices of `UiAppState`, `work` the
cards copied to `sync_work_items`. A scan (`Refresh`) finds any of the cards in any
order up to the capacity; the list is one entry per key, sorted by title and by the
scan's order where titles agree, and the armed game is looked up again by its key.
`Draw` is the start of a frame, which clamps the indices; `Move` is
`ui_move_selection_direction` on the anchors of the rows; `Ask`, `Cancel`,
`Confirm`, `Closed` are `ui_run_sync_for_game` and `ui_run_sync_all_saves`.

A frame with several buttons is taken as several frames. A title is its place in
the alphabet, so two games may share one. The checks of URL and login are gates of
the two rows; the same checks inside the functions they call, and the one for an
empty list of cards, cannot fail there and are not repeated.

### HttpTransaction

`SetUp` and `TearDown` are the calls of `http_runtime_init`, `http_send_request`
and `http_runtime_term` in their order; `at` is the line reached; `held` the
program's own flags and ids, `up` what the console has up. `Acquire`,
`AlreadyLoaded`, `AcquireFails`, `Release`, `ReleaseFails` each do one line;
`SendFails`, `Answer`, `FileOpens`, `FileRefused`, `StreamEnds`, `StreamFails` are
the exchange. `Needs`, what must be up for something to be up, belongs to the
console's libraries and is external. Modules may have been loaded by others
(`foreign`), and the calls whose failure the code only logs may be refused
(`stuck`), after which the console still has what the program forgot.

That the credentials do not fit the header cannot happen: the callers check them,
and the buffers take the longest.

### Application

`Application` EXTENDS both and adds `job`, the step of the synchronization a
request belongs to: register, catalog, load the state, list, cards, and for each
card an upload (which may read the catalog again), a download (asked for again
without the device when the server answers 404) or nothing. It is the control of
`ensure_device_registration`, `sync_engine_run` and the callbacks of
`romm_http_client.c`, seen from the network; what a transfer does to files is
`SyncEngine`, what a page's rows become is `RemoteListing`.

Negative results of the scan, of the adapter and of the list of games stand for
null arguments, which `main.c` never passes. Pages are bounded by `MaxPages`, which
stands for the catalog's capacity and for the total the server states; that the
list's own loop ends with a total that grows is `ListingEnds`.

### CivilTime

`Leap`, `DaysInMonth`, `DaysFromCivil`, `Timestamp` are the arithmetic of
`sync_types.c`; `Written` is `format_timestamp` of the scanner, which brings each
field into its range before the adapter reads the text back. `DecisionCheck`
compares them with a calendar that counts days year by year and month by month
from January, written without regard to the code's March years and eras.

## 3. Runs

| Run | Result | Distinct states | Shows |
|---|---|---|---|
| `decisions` | pass | 492,544 | comparison, resolution and reading of dates on every input |
| `state_store` | pass | 52,258 | keys stay unique, cuts load as genuine; refinement of `TransferLedger` |
| `engine_faults` | pass | 533,276 | two cards, a failure or crash anywhere; refinement of `SaveVault` |
| `engine_app` | pass | 445,090 | as `main.c` configures it, cards changing under the menu: they are only read; "unchanged" is said only of what the server has, over several passes and three failures or crashes |
| `engine_converge` | pass | 137,941 | liveness of both directions |
| `listing` | pass | 884,758 | paging and merging, and the search in the result |
| `settings` | pass | 1,235,914 | consent, persistence, one registration |
| `application` | pass | 323,212 | menu, synchronization and requests together: the right game, nothing leaked, an end |
| `engine_names` | violation | — | backups of two games overwrite each other |
| `engine_noresolver` | violation | — | the application never downloads |
| `engine_status` | violation | — | a local failure is reported as a refusal by the server |
| `listing_cut` | violation | — | a cut body ends the list as a success |

Bounds, and why they are enough:

* **Cards: 2** in the engine, 1 in `engine_app` and the liveness runs. Cards meet in the backup
  directory, as templates for each other, in the state file and in the report;
  each is between two of them.
* **Contents: 3.** A content on the card, another on the server, and a third that
  replaces either later; `engine_app` has a fourth.
* **MaxTime 3, FaultBudget 1** (crashes included): a pass, then a second one that
  finds what the fault left. `engine_app` is about one card over time and has
  MaxTime 6 and three faults: play between a scan and a pass, the pass that records
  what is newer than its scan, play again while the server's save may be deleted, and
  another pass. It has no downloads, since `main.c` makes none; that what they record
  never matches a scan either is proved (`UnchangedIsSound` holds with any callback).
  The liveness runs let passes repeat after
  MaxTime 4. The proofs have no such bound.
* **Listing**: pages of two, up to three rows at first and four in all, one change
  by another device per listing: identities repeat within a page and across the
  boundary, and a row shifts over it. The list holds three, so it fills up.
* **State store**: an array of two for the keys of one file in three slots, so the
  array is full before the keys run out.
* **Settings**: two servers, one typed with a blank; six edits, two faults.
* **Decisions**: four times, one before 1970 and 0 the unknown one, two sizes,
  hashes present or not; catalogs of up to three entries in every order; dates of
  the years in which the leap rules turn, months 0 to 13, days and times of day at
  their limits and beyond.
* **Application**: three cards in two games that share a title, one game with both
  its cards; an inventory of two, so a scan leaves one out; one visible row, so the
  window moves; two pages, so loops go round. The HTTP module was loaded by
  somebody else; `sceNetTerm` and the switch back to verified certificates may be
  refused; certificates are not verified, so every line of the set-up is reached.
  `Resolver` is TRUE, which lets the engine download: `main.c` never does (finding
  2), but the client's download path is code, and this is how it is exercised.
  The proofs have no such bound.

Symmetry: contents are exchangeable everywhere in the engine; in `engine_faults`
also the two cards of the game together with their names. No run that checks
liveness uses symmetry. `CHECK_DEADLOCK FALSE` appears where a behaviour has an
end: one evaluated call, one listing.

### Fairness

* `WF(EngineStep)`: the engine is sequential code whose only waits are network
  calls, and those have a time limit (`timeout_seconds`).
* `WF(Launch)` and `SF(UserSynchronizes)`: progress needs a user who comes back.
  Strong fairness, because other events keep disabling the menu.
* `RemoteListing`: weak fairness of fetching a page and taking rows, not of the
  requests' success: `ListingEnds` counts a failure as an end.

* `WF(Work)` in `Application`: one thread does everything between the confirmation
  and the report; it waits only for calls that have a time limit. `SyncReturns`
  needs nothing of the user.

`engine_converge` uses a server that reports neither `device_is_current` nor the
origin, and no faults. On one that does report them the upload half fails: both
answers come before the timestamps (`src/src/sync_engine.c:753`), so local
progress made after the server noted the device as current is skipped until
someone else uploads. No document promises otherwise, so it is a hazard and not a
finding.

## 4. Findings

1. **Backups collide** (`engine_names`). `backup_manager_backup_file` names a
   backup by file name and second in one directory for all games, and every game's
   first card is `SCEVMC0.VMP`. Two downloads within a second leave one backup.
   `NothingIsLost` proves that distinct names are all it takes.
2. **Nothing is downloaded** (`engine_noresolver`). `main.c` sets no
   `resolve_conflict`, and without it the engine skips every conflict.
3. **A local failure is reported as a conflict** (`engine_status`). `execute_upload`
   returns the status of whichever module failed, and -3 is a directory that cannot
   be made (`backup_manager.h:10`), a file that cannot be opened
   (`vmp_srm_converter.h:13`) and a `409` (`romm_client.h:11`). The callers
   (`sync_engine.c:741`, `:821`) take all three for the last: the card counts as an
   error and as skipped, and the user is told to download first although nothing was
   sent. `ReportAlwaysAddsUp` proves that nothing else is counted twice.
4. **A cut page is the end of the list** (`listing_cut`).

Observed while modelling, without a run: a card rewritten between the scan and the
pass is still judged by the scan, so it is skipped as unchanged when the record
matches the scan, until the next scan (`sync_engine.c:723`;
`SkipUnchangedIsSound` speaks of cards that have not changed since the scan); a
card cut by a crash is chosen as its own template and so is never repaired from its
sibling's header (`sync_engine.c:186`); "already current" is asked before the card is looked at, so
an unsigned or cut card that the server takes for current stays so (`:285`); an
ambiguous serial falls through to the title and file-name stages
(`game_matcher.c:552`, against the header's comment); a remote save without a slot
that comes earlier wins over the exact slot (`:505`); filename rules may cross ROMs
(`:529`); a padded or quoted password is altered by a reload (`app_config.c:391`);
the device registers at the first synchronization and not at start
(`main.c:1707`, against `docs/index.md:143`).

## 5. Proofs

All theorems hold for every value of the constants within their named assumptions
(`DataAssumption`, `BoundsAssumption`, `NamingAssumption`, `SettingsAssumption`, …,
which TLC evaluates in the runs).

* **StateStoreProofs.** `IInv` joins the type, `Ordered` of the array and of the
  file (unique keys, and an entry of unknown slot ahead of its file's others) and
  genuineness of the file, and of the array while it is being saved. Order is what
  makes uniqueness inductive: were an entry of unknown slot behind an exact one, an
  upsert of the unknown slot would stop at the exact one, turn it into a second
  entry of unknown slot, and the key would occur twice. From `IInv` follow
  `KeysStayUnique`, `UnknownSlotStaysFirst`, `LoadedStaysGenuine`, and the action
  properties `WritesAreRead` and `OtherKeysStay` (no run checks the latter: the
  refinement says more). `SearchProofs` has the lemma on first matches. Because
  keys are unique, the array is a set of records (`Book`) whose size is its length,
  and each step of the store is a step of the ledger: `StoreImplementsLedger`, with
  `SearchesAlwaysReadTheLedger` for what a search returns.
* **SyncEngineProofs.** `TypeInv` adds two facts to the type: a conversion file
  holds a whole card, and the steps of a download have a listed save. `BackupInv`
  strengthens `NothingLost`: no backup is named after a later second; a card still
  to be treated would get a backup name that is not taken (so opening a backup
  destroys none); while copying, the open backup is the one being written; between
  the copy and the truncation the card's content *is* preserved; while writing, the
  card is the cut file. A backup is overwritten only by another of its name, so
  the argument is about names: those of one pass differ because its cards'
  names do, those of two passes because a pass starts in a later second than the
  backups it finds. From these `NothingIsLost` and, case by case over the same
  steps, `EngineImplementsVault`. Both assume `~Endless` (no pass starts without the
  clock advancing) and `NamesDistinct`; the first finding is what happens without
  the second. `CardsStayAsTheyAre` needs neither: in a dry run or without a
  callback the invariant `NoDownload` says that no download step is ever reached.
  Four more theorems rest on invariants of their own. `NoTempIsLeft`:
  `TempIsInUse`, a conversion file exists only in the steps between its creation
  and its removal. `ReportAlwaysAddsUp`: `CountsFit`, which counts the current card
  where it stands between "planned" and "executed, refused or failed".
  `DamageIsAlwaysReported` (`DamageInv`) assumes `~AwayWhileOpen`: nobody writes
  cards while the application is open, since otherwise a scan says nothing of the
  file. `UnchangedIsSound` needs no assumption and is the deepest argument here.
  `RecordInv`: a record that a scan can match is one of an upload (`RecordsVouch`)
  and vouches for the content that a card of this size and date has; every play
  gives the card a later date than any record or scan (`NoFutureDate`); what was
  scanned is what is there, or the card is dated later or gone (`ScanHolds`), so
  that a content newer than its scan is recorded under a size and date the card
  never has again; what is packed, sent and recorded is one content, known to the
  server (`PayloadIsKnown`). Cut state files and crashes
  only lose records. `EngineUsesALedger` is the refinement seen from the engine; its
  invariant `ScannedOnly` says that only cards of the scan are treated and recorded.
  `PassAlwaysAdvances` and `PassIsAlwaysBounded` are the part of `PassEnds` that is
  not fairness: `StepsLeft`, ten for each card still to be treated and a rank of the
  step within its card, goes down with every step of the engine and up with none.
  They need `CardsAssumption`, that there are finitely many cards.
* **RemoteListingProofs.** `RomsAreListedOnce`, from the type and distinctness:
  a row replaces the row of its own ROM and slot when there is one, and only
  otherwise one of its name, so no ROM and slot come twice. `LatestIsKept` by
  `LatestInv`: of each row that was there at first, the list holds one as new, or
  the page being merged does, or a place beyond the next offset does; additions move
  rows to later places only (`ChangesKeepAhead`), a page takes what is before its
  end and a short page or the total ends the listing only when nothing is beyond
  (`FetchReaches`), and merging never trades a dated revision for an older one
  (`MergeKeepsLatest`). `LocalsMeetTheirLatest` adds what the matcher's rules find
  in such a list (`FoundByRom`). `ListingAlwaysAdvances` is the safety half of
  `ListingEnds`: `ListingLeft` counts a page for every row beyond the offset, the
  rows that may still be added included, so that an addition, which shifts rows
  over the page boundary, does not take the listing further from its end.
* **AppSettingsProofs.** `TransfersNeedConsent`: `dry_run` is the last line, so no
  cut file carries it whole (`CutsAreSafe`), and a cut value reads as the default;
  the invariant adds that the file says "false" only with consent.
  `SettingsAlwaysSurvive`: as long as no save failed (`Faultless`) the file holds
  what was kept or leaves out a default. `OneRegistration` needs of it that an id
  outlasts the restart, and of the servers that no id consists of the blanks and
  quotes the loader strips (`IdsLast`).
* **HttpTransactionProofs.** `HttpInv` accounts for what is up (`Accounted`: held,
  foreign or stuck, and these apart), says what the line reached implies on the
  way up (`SetUpSoFar`) and down (`TakenDownSoFar`), and what the file is in each
  phase. That the layers are never broken (`Layered`) is then a comparison of the
  two orders with `Needs`: everything stands on earlier lines of the set-up
  (`FoundationsFirst`) and is released before what it stands on
  (`FoundationsLast`). `RequestsReturn`: no path through the lines goes back, so a
  request has returned after at most 32 steps, whichever calls fail.
* **ApplicationProofs.** For the menu `MenuInv`: the list is that of the inventory
  (`ListFits`), a focus on the list is the armed game (`FocusArms`), and while the
  dialog is open the focus is on a button (`AskedHere`), so that what is asked
  about stays armed. Then the composition: every step of `Application` is a step
  of the menu or leaves it alone, and likewise of the request
  (`ApplicationKeepsMenu`, `ApplicationKeepsRequests`), so the theorems about both
  hold of the whole (`ApplicationIsSafe`). `JobFits` joins the two: a request is
  under way only while the user waits for a synchronization
  (`OnlyConfirmedRequests`). `TypeOK` is proved here and is no invariant of the
  run, whose properties are better spent. `SyncAlwaysAdvances` and
  `SyncIsAlwaysBounded` are the safety half of `SyncReturns`: `WorkLeft` weighs what
  the job has before it (`JobsAfter`: pages, and for each card at most `PerCard`
  jobs) at 33 and adds what is left of the request, so a retry without the device,
  a catalog that is read again and every failure still lead on; and until the
  report only such steps are taken.
* **DecisionProofs.** Case analysis over `Detect` for all integers. The folds over
  a catalog: what a scan of `game_matcher_resolve_rom_id` returns is characterized,
  for catalogs of any length, by the *set* of entries it has seen: the equation that
  defines the fold has one solution (`SameScan`, by a least length at which two
  would differ), and what that set tells is one (`UniqueScanExists`). From this
  `ResolutionIsOfThePs1Roms` (two catalogs with the same PS1 ROMs give the same
  answer), and `TheOrderDoesNotMatter`, `OtherPlatformsNeverMatter` and
  `TheSerialDecides`. They need ROM ids to be positive (`LabelsAssumption`): the
  catalog's parser drops the others (`romm_http_client.c:1653`). Then the
  calendar: months from March (`MonthsFromMarch`), years in eras
  (`YearsFromMarch`), leap days (`LeapYears`), together `DayIsExact` for every
  year from 0 on.

Only model-checked: the liveness properties (`PassEnds`, both progress
properties, `ListingEnds`, `SyncReturns`), whose fairness is out of the prover's
reach. Of three of them the safety half is proved: a measure that every step of the
code lowers, so that a behaviour in which the code keeps taking steps ends. What TLC
adds is that it can keep taking them. For the two progress properties nothing of
the kind would say enough. All other properties of the passing runs are proved.

## 6. Not modelled

* Computation on bytes and text, with no state the rest depends on: the
  signature's HMAC and AES, the JSON scanner, multipart bodies, base64 and URL
  encoding, title parsing from `PARAM.SFO`, the reading of a slot from a file name.
* The scanner's recursion over directories: a scan is any selection of the cards
  (`SyncMenu`), with their true sizes and dates (`SyncEngine`). Files that are not
  `.VMP` never come out of it.
* Output: drawing, the text of dialogs and reports, the log with its bounded
  history, the vendored console. A dialog's answer is an input of the actions.
* The two command-line tools, which call the converter once on two paths.
* In `AppSettings`, the fields no action changes.

## 7. Where it could grow

The modules stand in the order they were built: decisions, state store, engine
with its abstraction, listing, settings, then the menu, the requests and their
composition, the dates, and the ledger. What is left would be:

1. the catalog's own page loop with its capacity, as `RemoteListing` has the list's;
2. a server that outlives several devices, so that `409` and "current" follow from
   its history instead of being free.
