--------------------------- MODULE RemoteListing ---------------------------
(***************************************************************************)
(* The listing of the server's saves (romm_http_list_remote_saves_callback)*)
(* page by page, while other devices add, replace and delete saves, and    *)
(* the reduction of the pages to one revision per identity.  The finished  *)
(* list is what game_matcher_find_remote_index searches for each local     *)
(* save of the pass.                                                       *)
(*                                                                         *)
(* A row is one save of the server.  Its id tells it from every other row; *)
(* its rom is NoRom when the server names none; its game is always NoText, *)
(* since the parser fills no game_id.  Time 0 is an unreadable date.       *)
(***************************************************************************)
EXTENDS Integers, GameMatcher

CONSTANTS
  Rows,          \* the rows the server may hold: [id, rom, game, file, slot, time]
  InitialServers,\* the sequences of rows it may hold at first
  Locals,        \* local saves: [rom, game, file, slot]
  ReportsTotal,  \* the server's answer carries "total"
  PageLimit,     \* ROMM_HTTP_PAGE_LIMIT
  MaxItems,      \* max_items of the caller
  MaxRows,       \* bound: rows on the server
  MaxChanges     \* bound: changes other devices make during one listing

ASSUME SizesAssumption ==
  PageLimit \in Nat \ {0} /\ MaxItems \in Nat \ {0}
ASSUME BoundsAssumption == MaxRows \in Nat /\ MaxChanges \in Nat
ASSUME RowsAssumption ==
  /\ Rows \subseteq [id : Nat, rom : Nat, game : {NoText},
                     file : {r.file : r \in Rows}, slot : SyncSlot, time : Nat]
  /\ InitialServers \subseteq Seq(Rows)

VARIABLES
  server,    \* the rows, in the order the server lists them
  phase,     \* where romm_http_list_remote_saves_callback is
  offset,    \* of the page being fetched
  total,     \* the last total the server gave; NoTotal before (INT_MAX)
  fetched,   \* page_count
  page,      \* page_items not yet taken
  items,     \* out_items
  begun,     \* history: the rows on the server when the listing began
  shrunk,    \* history: a row was deleted since
  cutShort,  \* history: the body of a page broke off
  changes    \* history: changes since, for the bound

listing == <<phase, offset, total, fetched, page, items>>
history == <<begun, shrunk, cutShort, changes>>
vars == <<server, listing, history>>

NoTotal == -1
Shorter(m, n) == IF m < n THEN m ELSE n

TypeOK ==
  /\ server \in Seq(Rows)
  /\ phase \in {"idle", "fetching", "merging", "listed", "failed"}
  /\ offset \in Nat
  /\ total \in {NoTotal} \cup Nat
  /\ fetched \in 0..PageLimit
  /\ page \in Seq(Rows) /\ Len(page) <= fetched
  /\ items \in Seq(Rows) /\ Len(items) <= MaxItems
  /\ begun \in Seq(Rows)
  /\ shrunk \in BOOLEAN /\ cutShort \in BOOLEAN
  /\ changes \in 0..MaxChanges

Init ==
  /\ server \in InitialServers
  /\ phase = "idle" /\ offset = 0 /\ total = NoTotal /\ fetched = 0
  /\ page = <<>> /\ items = <<>>
  /\ begun = <<>> /\ shrunk = FALSE /\ cutShort = FALSE /\ changes = 0

-----------------------------------------------------------------------------
NewerById(current, candidate) == candidate.id > current.id

\* remote_candidate_is_newer
Newer(current, candidate) ==
  IF current.time > 0 /\ candidate.time > 0 /\ candidate.time # current.time
  THEN candidate.time > current.time
  ELSE \/ candidate.time > 0 /\ current.time = 0
       \/ candidate.id > current.id

SameRomAndSlot(e, r) == e.rom > 0 /\ e.rom = r.rom /\ e.slot = r.slot
SameNameAndSlot(e, r) == SameText(e.file, r.file) /\ e.slot = r.slot

ExistingByName(list, r) ==
  LET named == {i \in 1..Len(list) : SameNameAndSlot(list[i], r)}
  IN  IF named = {} THEN NoMatch ELSE First(named)

\* find_existing_remote_index
Existing(list, r) ==
  LET owned == {i \in 1..Len(list) : SameRomAndSlot(list[i], r)}
      named == {i \in 1..Len(list) : SameNameAndSlot(list[i], r)}
  IN  IF owned # {} THEN First(owned)
      ELSE IF named # {} THEN First(named) ELSE NoMatch

MergeUnbounded(list, r) ==
  IF Existing(list, r) # NoMatch THEN list ELSE Append(list, r)

\* One row of a page: it replaces an older revision of its identity, or is
\* appended while there is room.
Merge(list, r) ==
  LET i == Existing(list, r) IN
  IF r.id <= 0 THEN list
  ELSE IF i # NoMatch
       THEN IF Newer(list[i], r) THEN [list EXCEPT ![i] = r] ELSE list
       ELSE IF Len(list) < MaxItems THEN Append(list, r) ELSE list

-----------------------------------------------------------------------------
\* The configuration carries no URL or no credentials.
Refuse ==
  /\ phase = "idle"
  /\ phase' = "failed"
  /\ UNCHANGED <<server, offset, total, fetched, page, items, history>>

Begin ==
  /\ phase = "idle"
  /\ phase' = "fetching"
  /\ begun' = server
  /\ UNCHANGED <<server, offset, total, fetched, page, items, shrunk, cutShort,
                 changes>>

\* GET /api/saves?limit&offset: one page, and the total if it is positive.
\* An empty page ends the listing.
FetchPage ==
  /\ phase = "fetching"
  /\ page' = SubSeq(server, offset + 1, Shorter(offset + PageLimit, Len(server)))
  /\ fetched' = Len(page')
  /\ total' = IF ReportsTotal /\ Len(server) > 0 THEN Len(server) ELSE total
  /\ phase' = IF page' = <<>> THEN "listed" ELSE "merging"
  /\ UNCHANGED <<server, offset, items, history>>

\* The body breaks off, or is longer than the buffer: http_send_request calls
\* that a success, and a body without its closing bracket has no rows.
FetchCutShort ==
  /\ phase = "fetching"
  /\ page' = <<>> /\ fetched' = 0
  /\ phase' = "listed"
  /\ cutShort' = TRUE
  /\ UNCHANGED <<server, offset, total, items, begun, shrunk, changes>>

\* Transport error, refused credentials, any other HTTP status.
FetchFails ==
  /\ phase = "fetching"
  /\ phase' = "failed"
  /\ UNCHANGED <<server, offset, total, fetched, page, items, history>>

TakeRow ==
  /\ phase = "merging" /\ page # <<>>
  /\ items' = Merge(items, Head(page))
  /\ page' = Tail(page)
  /\ UNCHANGED <<server, phase, offset, total, fetched, history>>

\* Mutated form: the rows kept so far are taken for the rows read.
AdvanceByKept == Len(items)

\* The offset of the next page.
Advance == offset + PageLimit

PageDone ==
  /\ phase = "merging" /\ page = <<>>
  /\ IF Len(items) >= MaxItems \/ fetched < PageLimit
     THEN phase' = "listed" /\ UNCHANGED offset
     ELSE /\ offset' = Advance
          /\ phase' = IF total # NoTotal /\ Advance >= total
                      THEN "listed" ELSE "fetching"
  /\ UNCHANGED <<server, total, fetched, page, items, history>>

-----------------------------------------------------------------------------
(***************************************************************************)
(* Other devices.  Nothing says in which order the server lists its rows:  *)
(* a new one may appear anywhere.                                          *)
(***************************************************************************)
Change ==
  /\ phase \in {"fetching", "merging"}
  /\ changes < MaxChanges
  /\ changes' = changes + 1
  /\ UNCHANGED <<listing, begun, cutShort>>

Add ==
  /\ Change
  /\ Len(server) < MaxRows
  /\ \E r \in Rows, n \in 0..Len(server) :
       /\ \A i \in 1..Len(server) : server[i].id < r.id
       /\ \A i \in 1..Len(begun) : begun[i].id < r.id
       /\ server' = SubSeq(server, 1, n) \o <<r>>
                      \o SubSeq(server, n + 1, Len(server))
  /\ UNCHANGED shrunk

\* A row's content is replaced: a later date.
Touch ==
  /\ Change
  /\ \E i \in 1..Len(server), r \in Rows :
       /\ r.time > server[i].time
       /\ r = [server[i] EXCEPT !.time = r.time]
       /\ server' = [server EXCEPT ![i] = r]
  /\ UNCHANGED shrunk

Delete ==
  /\ Change
  /\ \E n \in 1..Len(server) :
       server' = SubSeq(server, 1, n - 1) \o SubSeq(server, n + 1, Len(server))
  /\ shrunk' = TRUE

Next ==
  \/ Refuse \/ Begin \/ FetchPage \/ FetchCutShort \/ FetchFails \/ TakeRow
  \/ PageDone \/ Add \/ Touch \/ Delete

Spec == Init /\ [][Next]_vars /\ WF_vars(FetchPage \/ TakeRow \/ PageDone)

-----------------------------------------------------------------------------
\* A file name is used for one ROM only.
FilesTellRoms == \A r, q \in Rows : r.file = q.file => r.rom = q.rom

SameIdentity(r, q) == r.rom > 0 /\ r.rom = q.rom /\ r.slot = q.slot

\* Every revision of r's identity the server may hold has a readable date.
Dated(r) == \A q \in Rows : SameIdentity(r, q) => q.time > 0

\* The listing is whole: no row was deleted under it, every page was read, and
\* none of their rows was left out.
Whole == phase = "listed" /\ ~shrunk /\ ~cutShort /\ Len(items) < MaxItems

(***************************************************************************)
(* The engine is never given two revisions of one card: the kept rows of a *)
(* ROM have different slots, however rows replace each other by ROM or by  *)
(* file name.                                                              *)
(***************************************************************************)
RomsListedOnce ==
  \A i, j \in 1..Len(items) : SameIdentity(items[i], items[j]) => i = j

(***************************************************************************)
(* Nothing is missed when saves only appear or change while the pages are  *)
(* read: for each save there at the start, the list has one of its ROM and *)
(* slot that is not older.  It takes file names that tell ROMs apart and   *)
(* readable dates: a row without either may displace the right one.        *)
(***************************************************************************)
ListingKeepsLatest ==
  Whole /\ FilesTellRoms =>
    \A n \in 1..Len(begun) :
       begun[n].id > 0 /\ begun[n].rom > 0 /\ Dated(begun[n]) =>
         \E i \in 1..Len(items) : /\ SameIdentity(items[i], begun[n])
                                  /\ items[i].time >= begun[n].time

(***************************************************************************)
(* A card whose ROM is known and has saves in its slot is compared with    *)
(* the latest of those, or with a save of no slot; never with the other    *)
(* card of the game, nor with another game.                                *)
(***************************************************************************)
LocalMeetsItsLatest ==
  Whole /\ FilesTellRoms =>
    \A l \in Locals, n \in 1..Len(begun) :
       SameIdentity(l, begun[n]) /\ SlotIsKnown(l.slot) /\ Dated(begun[n])
         /\ begun[n].id > 0
       => LET m == FindRemoteIndex(l, items) IN
          /\ m # NoMatch
          /\ items[m].rom = l.rom
          /\ items[m].slot \in {l.slot, "unknown"}
          /\ items[m].slot = l.slot => items[m].time >= begun[n].time

(***************************************************************************)
(* The listing comes to an end.                                            *)
(***************************************************************************)
ListingEnds == phase = "fetching" ~> phase \in {"listed", "failed"}

(***************************************************************************)
(* "network issue: expect `network error`" (docs/index.md): when the body  *)
(* of a page breaks off, a listing that misses that page's rows fails.     *)
(***************************************************************************)
CutListingFails == cutShort /\ offset < Len(begun) => phase = "failed"

=============================================================================
