----------------------------- MODULE Application -----------------------------
(***************************************************************************)
(* The application: the menu (SyncMenu), what it does once the user has    *)
(* confirmed a synchronization, and the requests that takes                *)
(* (HttpTransaction), one after the other.                                 *)
(*                                                                         *)
(* A synchronization registers the device if it has no id, reads the ROM   *)
(* catalog page by page, loads the state, reads the list of saves page by  *)
(* page, treats the cards one by one, and ends in a report the user        *)
(* closes.  job is the step it is at.  What a card's transfer does to      *)
(* files and state is SyncEngine's matter, how a page's rows are kept      *)
(* RemoteListing's; here each card is left alone, uploaded or downloaded,  *)
(* and each page is followed by another or is the last.                    *)
(***************************************************************************)
EXTENDS SyncMenu, HttpTransaction, FiniteSets

CONSTANTS
  VerifyTls,   \* settings.ini verify_tls
  Resolver,    \* whether the engine can ask the user (main.c: it cannot)
  MaxPages     \* bound: pages of the catalog (at ROMM_HTTP_MAX_ROMS it ends)
               \* and of the list (at the total the server states)

ASSUME FlagsAssumption == {VerifyTls, Resolver} \subseteq BOOLEAN
ASSUME PagesAssumption == MaxPages \in Nat \ {0}

VARIABLES
  job,      \* the step of the synchronization
  page,     \* pages of the catalog or of the list that have been read
  left,     \* cards that are not finished
  device    \* the settings hold a device_id

jobVars == <<job, page, left, device>>
vars == <<menuVars, httpVars, jobVars>>

Paged == {"catalog", "list", "remap"}
Asking == Paged \cup {"register", "upload", "download", "retry"}
Jobs == Asking \cup {"none", "load", "cards", "report"}

Init ==
  /\ MenuInit
  /\ HttpInit
  /\ job = "none"
  /\ page = 0
  /\ left = 0
  /\ device \in BOOLEAN

-----------------------------------------------------------------------------
(***************************************************************************)
(* The menu.                                                               *)
(***************************************************************************)
Idle ==
  /\ MenuStep
  /\ UNCHANGED <<httpVars, jobVars>>

Start ==
  /\ Launch
  /\ UNCHANGED <<httpVars, jobVars>>

Exit ==
  /\ Quit
  /\ ProcessEnds
  /\ UNCHANGED jobVars

\* ensure_device_registration asks for an id when there is none.
ConfirmSync ==
  /\ Confirm
  /\ job' = IF device THEN "catalog" ELSE "register"
  /\ page' = 0
  /\ left' = Cardinality(work)
  /\ UNCHANGED <<device, httpVars>>

CloseReport ==
  /\ job = "report"
  /\ Closed
  /\ job' = "none"
  /\ UNCHANGED <<page, left, device, httpVars>>

-----------------------------------------------------------------------------
(***************************************************************************)
(* Requests.                                                               *)
(***************************************************************************)
Call ==
  /\ job \in Asking
  /\ Begin([https |-> url = "https",
            verify |-> VerifyTls,
            toFile |-> job \in {"download", "retry"}])
  /\ UNCHANGED <<menuVars, jobVars>>

Exchange ==
  /\ HttpStep
  /\ UNCHANGED <<menuVars, jobVars>>

\* The result of a request is back.
Told(jobs) ==
  /\ job \in jobs
  /\ Collected
  /\ UNCHANGED menuVars

Turn(next) == job' = next /\ page' = 0

\* The answer may lack an id; the synchronization goes on without one.
Registered ==
  /\ Told({"register"})
  /\ device' \in (IF result = "ok" THEN BOOLEAN ELSE {FALSE})
  /\ Turn("catalog")
  /\ UNCHANGED left

\* The mutated form reads the same page again.
SamePage == UNCHANGED page
NextPage == page' = page + 1

\* Every page of the catalog adds a ROM and every page of the list but the
\* last is full.
AnotherPage ==
  /\ Told(Paged)
  /\ result = "ok"
  /\ page + 1 < MaxPages
  /\ NextPage
  /\ UNCHANGED <<job, left, device>>

CardDone == Turn("cards") /\ left' = left - 1

\* The last page, a page without rows, or one that is cut off.  A card's ROM
\* may not be in the catalog when its upload asks again.
LastPage ==
  /\ Told(Paged)
  /\ result = "ok"
  /\ CASE job = "catalog" -> Turn("load") /\ UNCHANGED left
       [] job = "list" -> Turn("cards") /\ UNCHANGED left
       [] job = "remap" -> \/ Turn("upload") /\ UNCHANGED left
                           \/ CardDone
  /\ UNCHANGED device

\* Without a catalog or a list there is no synchronization; a card whose ROM
\* stays unknown fails alone.
PagesRefused ==
  IF job = "remap" THEN CardDone ELSE Turn("report") /\ UNCHANGED left

PageFails ==
  /\ Told(Paged)
  /\ result # "ok"
  /\ PagesRefused
  /\ UNCHANGED device

\* The buffers for a page cannot be had.
NoMemory ==
  /\ job \in Paged
  /\ page = 0
  /\ phase = "rest"
  /\ PagesRefused
  /\ UNCHANGED <<device, menuVars, httpVars>>

Uploaded ==
  /\ Told({"upload"})
  /\ CardDone
  /\ UNCHANGED device

\* A server that does not know the device is asked again without it.
AskAgain ==
  /\ Told({"download"})
  /\ result = "missing"
  /\ device
  /\ Turn("retry")
  /\ UNCHANGED <<left, device>>

Downloaded ==
  /\ Told({"download", "retry"})
  /\ ~(job = "download" /\ result = "missing" /\ device)
  /\ CardDone
  /\ UNCHANGED device

-----------------------------------------------------------------------------
(***************************************************************************)
(* The engine's pass.                                                      *)
(***************************************************************************)
\* sync_engine_run loads the state, and fails when it cannot be read.
LoadState ==
  /\ job = "load"
  /\ \/ Turn("list")
     \/ Turn("report")
  /\ UNCHANGED <<left, device, menuVars, httpVars>>

\* A card is left alone (in a dry run always), or is transferred.
TreatCard ==
  /\ job = "cards"
  /\ left > 0
  /\ \/ CardDone
     \/ \E next \in {"upload", "remap"} \cup (IF Resolver THEN {"download"}
                                              ELSE {}) :
          Turn(next) /\ UNCHANGED left
  /\ UNCHANGED <<device, menuVars, httpVars>>

\* The state is saved; if that fails, the report says so.
PassEnds ==
  /\ job = "cards"
  /\ left = 0
  /\ Turn("report")
  /\ UNCHANGED <<left, device, menuVars, httpVars>>

\* What the application does while the user waits.
Work ==
  \/ Call \/ Exchange \/ Registered \/ AnotherPage \/ LastPage \/ PageFails
  \/ NoMemory \/ Uploaded \/ AskAgain \/ Downloaded
  \/ LoadState \/ TreatCard \/ PassEnds

Next == Idle \/ Start \/ Exit \/ ConfirmSync \/ CloseReport \/ Work

\* One thread runs it all; it only waits for the user when Work is done.
Spec == Init /\ [][Next]_vars /\ WF_vars(Work)

-----------------------------------------------------------------------------
TypeOK ==
  /\ MenuTypeOK
  /\ HttpTypeOK
  /\ job \in Jobs
  /\ page \in 0..(MaxPages - 1)
  /\ left \in 0..MaxItems
  /\ device \in BOOLEAN

(***************************************************************************)
(* However the requests fail, a synchronization that was confirmed comes   *)
(* to its report: the time limits end every request, and no page loop and  *)
(* no card repeats itself.                                                 *)
(***************************************************************************)
SyncReturns == screen = "busy" ~> job = "report"

=============================================================================
