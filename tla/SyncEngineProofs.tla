-------------------------- MODULE SyncEngineProofs --------------------------
(***************************************************************************)
(* Theorems about SyncEngine, for any cards, contents and bounds.          *)
(***************************************************************************)
EXTENDS SyncEngine, FiniteSetTheorems, TLAPS

-----------------------------------------------------------------------------
(***************************************************************************)
(* The values the helpers compute are of the right kind.                   *)
(***************************************************************************)
\* A report is counted up and never leaves the natural numbers.
LEMMA BumpTyped ==
  ASSUME NEW S, Bump(S), report \in [Counters -> Nat]
  PROVE  report' \in [Counters -> Nat]
BY DEF Bump

\* A scan describes every card.
LEMMA ScanTyped ==
  ASSUME disk \in [Cards -> File]
  PROVE  Scan \in [Cards -> Item]
<1>1. \A c \in Cards : SizeOf(disk[c].data) \in Sizes /\ disk[c].mtime \in Times
  BY DEF SizeOf, Sizes, File
<1>2. NoItem \in Item
  BY BoundsAssumption DEF NoItem, Item, Sizes, Times
<1>3. QED BY <1>1, <1>2 DEF Scan, Item

\* The values an idle application starts from.
LEMMA BlanksTyped ==
  /\ NoEntries \in [Cards -> Item]
  /\ NoRemote \in Remote
  /\ NoFile \in File
  /\ EmptyReport \in [Counters -> Nat]
  /\ 0 \in Times
BY BoundsAssumption DEF NoEntries, NoItem, Item, Sizes, NoRemote, Remote,
                        Origins, NoFile, File, Data, EmptyReport, Times

\* What is left of a cut save is a state file.
LEMMA CutSaveTyped ==
  ASSUME entries \in [Cards -> Item], CutSave
  PROVE  stateFile' \in [ok : BOOLEAN, entries : [Cards -> Item]]
<1>1. \A kept \in SUBSET Cards :
         [c \in Cards |-> IF c \in kept THEN entries[c] ELSE NoItem]
           \in [Cards -> Item]
  BY BoundsAssumption DEF NoItem, Item, Sizes, Times
<1>2. ASSUME NEW kept \in SUBSET Cards,
             stateFile' = [ok |-> TRUE,
                           entries |-> [c \in Cards |-> IF c \in kept
                                                       THEN entries[c]
                                                       ELSE NoItem]]
      PROVE  stateFile' \in [ok : BOOLEAN, entries : [Cards -> Item]]
  BY <1>1, <1>2
<1>3. CASE stateFile' = [ok |-> FALSE, entries |-> NoEntries]
  BY <1>3, BlanksTyped
<1>4. QED BY <1>2, <1>3 DEF CutSave

\* What the server stores, and what it says of a save, are remote saves.
LEMMA RemotesTyped ==
  ASSUME TypeOK
  PROVE  /\ \A r \in Remote : Reported(r) \in Remote
         /\ got \in Contents => Stored \in Remote
         /\ \A k : NoteDownload(k) => server' \in [Cards -> Remote]
         /\ \A c \in Cards : listed[c].content \in Contents \cup {Absent}
                            /\ server[c].content \in Contents \cup {Absent}
<1>1. \A r \in Remote : Reported(r) \in Remote
  BY DEF Reported, Remote, Origins
<1>2. got \in Contents => Stored \in Remote
  BY DEF TypeOK, Stored, Remote, Origins, Device
<1>3. ASSUME NEW k, NoteDownload(k) PROVE server' \in [Cards -> Remote]
  <2>1. server \in [Cards -> Remote] /\ cur \in Cards
    BY DEF TypeOK
  <2>2. [server[cur] EXCEPT !.current = TRUE] \in Remote
    BY <2>1 DEF Remote
  <2>3. server' = server
        \/ server' = [server EXCEPT ![cur] = [server[cur] EXCEPT !.current = TRUE]]
    BY <1>3, <2>1 DEF NoteDownload
  <2>4. QED BY <2>1, <2>2, <2>3
<1>4. QED BY <1>1, <1>2, <1>3 DEF TypeOK, Remote

-----------------------------------------------------------------------------
(***************************************************************************)
(* Type correctness.  It needs two facts about the program counter: past   *)
(* the conversion a payload is a whole card, and a download is only        *)
(* planned for a card the server listed.                                   *)
(***************************************************************************)
PayloadIsWhole ==
  pc \in {"send", "accepted", "refused", "unsent", "template", "writing",
          "sign", "finish"} => got \in Contents

DownloadIsListed ==
  pc \in {"backup", "copying", "fetch"} => listed[cur].content \in Contents

TypeInv == TypeOK /\ PayloadIsWhole /\ DownloadIsListed

LEMMA TypeInit == Init => TypeInv
<1> SUFFICES ASSUME Init PROVE TypeInv
  OBVIOUS
<1>1. 1 \in Times /\ 0 \in 0..FaultBudget
  BY BoundsAssumption DEF Times
<1>2. disk \in [Cards -> File]
  BY <1>1 DEF Init, File, Data
<1>3. backups \in [BaseNames \X Times -> Data]
  BY DEF Init, Data
<1>4. stateFile \in [ok : BOOLEAN, entries : [Cards -> Item]]
  BY BlanksTyped DEF Init
<1>5. server \in [Cards -> Remote] /\ listed \in [Cards -> Remote]
  BY BlanksTyped DEF Init
<1>6. QED
  BY <1>1, <1>2, <1>3, <1>4, <1>5, BlanksTyped
     DEF Init, TypeInv, TypeOK, PayloadIsWhole, DownloadIsListed, Resting

LEMMA TypeNext == TypeInv /\ [Next]_vars => TypeInv'
<1> SUFFICES ASSUME TypeInv, [Next]_vars PROVE TypeInv'
  OBVIOUS
<1> USE BoundsAssumption DEF TypeInv, TypeOK, PayloadIsWhole,
        DownloadIsListed, local, passive, run, outside, Resting, Steps, Times,
        Data, Fails
<1>1. CASE Launch
  BY <1>1, ScanTyped DEF Launch, File, Remote, Item
<1>2. CASE Quit
  BY <1>2 DEF Quit, File, Remote, Item
<1>2a. CASE RescanAtMenu
  BY <1>2a, ScanTyped DEF RescanAtMenu, File, Remote, Item
<1>3. CASE StartRunRefused
  BY <1>3 DEF StartRunRefused, Later, ClockMayAdvance, File, Remote, Item
<1>4. CASE ListRemote
  <2>1. listed' \in [Cards -> Remote]
    BY <1>4, RemotesTyped DEF ListRemote
  <2>2. QED BY <1>4, <2>1 DEF ListRemote, NextItem
<1>5. CASE ListFails
  BY <1>5 DEF ListFails, File, Remote, Item
<1>51. CASE ListCutShort
  <2>1. PICK seen \in SUBSET Cards :
          listed' = [c \in Cards |-> IF c \in seen THEN Reported(server[c])
                                     ELSE NoRemote]
    BY <1>51 DEF ListCutShort
  <2>2. listed' \in [Cards -> Remote]
    BY <2>1, RemotesTyped, BlanksTyped
  <2>3. QED BY <1>51, <2>2 DEF ListCutShort, NextItem
<1>6. CASE Pack
  BY <1>6 DEF Pack, Convertible, File, Remote, Item
<1>7. CASE PackFails
  BY <1>7, BumpTyped
     DEF PackFails, Abandon, NextItem, DropTemp, File, Remote, Item
<1>7a. CASE PackTakenForConflict
  BY <1>7a, BumpTyped
     DEF PackTakenForConflict, NextItem, DropTemp, File, Remote, Item
<1>8. CASE ServerAccepts
  <2>1. server' \in [Cards -> Remote]
    BY <1>8, RemotesTyped DEF ServerAccepts
  <2>2. known' \subseteq Cards \X Contents
    BY <1>8 DEF ServerAccepts
  <2>3. QED BY <1>8, <2>1, <2>2 DEF ServerAccepts
<1>9. CASE ReplyLost
  <2>1. server' \in [Cards -> Remote]
    BY <1>9, RemotesTyped DEF ReplyLost
  <2>2. known' \subseteq Cards \X Contents
    BY <1>9 DEF ReplyLost
  <2>3. QED BY <1>9, <2>1, <2>2 DEF ReplyLost
<1>10. CASE ServerRefuses
  BY <1>10 DEF ServerRefuses, File, Remote, Item
<1>11. CASE SendFails
  BY <1>11 DEF SendFails, File, Remote, Item
<1>12. CASE FinishUpload
  BY <1>12, BumpTyped
     DEF FinishUpload, UploadRecord, Abandon, NextItem, DropTemp, File,
         Remote, Item
<1>13. CASE FinishUploadUnrecorded
  BY <1>13, BumpTyped
     DEF FinishUploadUnrecorded, Abandon, NextItem, DropTemp, File, Remote,
         Item
<1>14. CASE FinishRefused
  BY <1>14, BumpTyped
     DEF FinishRefused, Abandon, NextItem, DropTemp, File, Remote, Item
<1>15. CASE FinishUnsent
  BY <1>15, BumpTyped
     DEF FinishUnsent, Abandon, NextItem, DropTemp, File, Remote, Item
<1>16. CASE BackupOpen
  BY <1>16 DEF BackupOpen, File, Remote, Item
<1>17. CASE BackupRefused
  BY <1>17, BumpTyped
     DEF BackupRefused, Abandon, NextItem, DropTemp, File, Remote, Item
<1>18. CASE BackupDone
  BY <1>18 DEF BackupDone, File, Remote, Item
<1>19. CASE BackupFails
  <2>1. backups' \in [BaseNames \X Times -> Data]
    BY <1>19 DEF BackupFails
  <2>2. QED BY <1>19, <2>1, BumpTyped DEF BackupFails, Abandon, NextItem
<1>20. CASE Fetch
  <2>1. PICK k \in Served :
         /\ got' = k
         /\ NoteDownload(k) \/ UNCHANGED server
         /\ known' = known \cup {<<cur, k>>}
    BY <1>20 DEF Fetch
  <2>2. k \in Contents
    BY <1>20 DEF Fetch, Served, Remote
  <2>3. server' \in [Cards -> Remote]
    BY <2>1, RemotesTyped DEF TypeOK
  <2>4. QED BY <1>20, <2>1, <2>2, <2>3 DEF Fetch
<1>21. CASE FetchFails
  <2>1. server' \in [Cards -> Remote]
    BY <1>21, RemotesTyped DEF FetchFails
  <2>2. QED BY <1>21, <2>1, BumpTyped DEF FetchFails, Abandon, NextItem
<1>22. CASE RebuildOpen
  BY <1>22 DEF RebuildOpen, File, Remote, Item
<1>23. CASE RebuildRefused
  BY <1>23, BumpTyped
     DEF RebuildRefused, Abandon, NextItem, DropTemp, File, Remote, Item
<1>24. CASE RebuildDone
  BY <1>24 DEF RebuildDone, File, Remote, Item
<1>25. CASE RebuildFails
  BY <1>25, BlanksTyped, BumpTyped
     DEF RebuildFails, Abandon, NextItem, DropTemp, File, Remote, Item
<1>26. CASE Sign
  <2>1. [disk[cur] EXCEPT !.signed = TRUE, !.mtime = now] \in File
    <3>1. disk[cur] \in File /\ now \in Times
      OBVIOUS
    <3>2. \A f \in File, t \in Times :
            [f EXCEPT !.signed = TRUE, !.mtime = t] \in File
      BY DEF File
    <3>3. QED BY <3>1, <3>2
  <2>2. disk' = [disk EXCEPT ![cur] =
                   [disk[cur] EXCEPT !.signed = TRUE, !.mtime = now]]
    BY <1>26 DEF Sign
  <2>3. disk' \in [Cards -> File]
    BY <2>1, <2>2
  <2>4. QED BY <1>26, <2>3 DEF Sign
<1>27. CASE SignFails
  BY <1>27, BumpTyped
     DEF SignFails, Abandon, NextItem, DropTemp, File, Remote, Item
<1>28. CASE FinishDownload
  <2>1. DownloadRecord \in Item
    BY DEF DownloadRecord, Item, Remote, Sizes
  <2>2. entries' \in [Cards -> Item]
    BY <1>28, <2>1 DEF FinishDownload
  <2>3. QED BY <1>28, <2>2, BumpTyped DEF FinishDownload, NextItem, DropTemp
<1>29. CASE FinishDownloadUnrecorded
  BY <1>29, BumpTyped
     DEF FinishDownloadUnrecorded, Abandon, NextItem, DropTemp, File, Remote,
         Item
<1>30. CASE EndItems
  BY <1>30 DEF EndItems, File, Remote, Item
<1>31. CASE SaveOpen
  BY <1>31, BlanksTyped DEF SaveOpen, File, Remote, Item
<1>32. CASE SaveRefused
  BY <1>32 DEF SaveRefused, File, Remote, Item
<1>33. CASE SaveDone
  BY <1>33 DEF SaveDone, File, Remote, Item
<1>34. CASE SaveFails
  BY <1>34, CutSaveTyped DEF SaveFails, File, Remote, Item
<1>35. CASE Rescan
  BY <1>35, ScanTyped, BlanksTyped DEF Rescan, Forget, File, Remote, Item
<1>36. CASE Crash
  <2>1. stateFile' \in [ok : BOOLEAN, entries : [Cards -> Item]]
    BY <1>36, CutSaveTyped DEF Crash
  <2>2. QED BY <1>36, <2>1, BlanksTyped DEF Crash, Forget, DropTemp
<1>37. CASE Tick
  BY <1>37 DEF Tick, File, Remote, Item
<1>38. ASSUME NEW c \in Cards, SkipUnchanged(c) PROVE TypeInv'
  BY <1>38, BumpTyped
     DEF SkipUnchanged, SkipWith, BeginUpload, Take, File, Remote, Origins
<1>39. ASSUME NEW c \in Cards, SkipCurrent(c) PROVE TypeInv'
  BY <1>39, BumpTyped
     DEF SkipCurrent, SkipWith, BeginUpload, Take, File, Remote, Origins
<1>40. ASSUME NEW c \in Cards, SkipQuiet(c) PROVE TypeInv'
  BY <1>40, BumpTyped
     DEF SkipQuiet, SkipWith, BeginUpload, Take, File, Remote, Origins
<1>41. ASSUME NEW c \in Cards, SkipConflict(c) PROVE TypeInv'
  BY <1>41, BumpTyped
     DEF SkipConflict, SkipWith, BeginUpload, Take, File, Remote, Origins
<1>42. ASSUME NEW c \in Cards, UploadNew(c) PROVE TypeInv'
  BY <1>42, BumpTyped
     DEF UploadNew, SkipWith, BeginUpload, Take, File, Remote, Origins
<1>43. ASSUME NEW c \in Cards, UploadConflict(c) PROVE TypeInv'
  BY <1>43, BumpTyped
     DEF UploadConflict, SkipWith, BeginUpload, Take, File, Remote, Origins
<1>44. ASSUME NEW c \in Cards, DownloadConflict(c) PROVE TypeInv'
  BY <1>44, BumpTyped
     DEF DownloadConflict, AfterDownloadPlanned, Disputed, NoMatch, SkipWith,
         BeginUpload, Take, File, Remote, Origins
<1>45. ASSUME NEW c \in Cards, Play(c) PROVE TypeInv'
  BY <1>45 DEF Play, SkipWith, BeginUpload, Take, File, Remote, Origins
<1>46. ASSUME NEW c \in Cards, Delete(c) PROVE TypeInv'
  BY <1>46, BlanksTyped
     DEF Delete, SkipWith, BeginUpload, Take, File, Remote, Origins
<1>47. ASSUME NEW c \in Cards, OtherUpload(c) PROVE TypeInv'
  BY <1>47 DEF OtherUpload, SkipWith, BeginUpload, Take, File, Remote, Origins
<1>48. ASSUME NEW c \in Cards, ServerDelete(c) PROVE TypeInv'
  BY <1>48, BlanksTyped
     DEF ServerDelete, SkipWith, BeginUpload, Take, File, Remote, Origins
<1>49. ASSUME NEW cards \in Selections, StartRun(cards) PROVE TypeInv'
  BY <1>49, BlanksTyped, NamingAssumption DEF StartRun, Later, ClockMayAdvance
<1>50. CASE UNCHANGED vars
  BY <1>50 DEF vars
<1>52. QED
  BY <1>1, <1>2, <1>2a, <1>3, <1>4, <1>5, <1>6, <1>7, <1>7a, <1>8, <1>9,
     <1>10, <1>11, <1>12, <1>13, <1>14, <1>15, <1>16, <1>17, <1>18, <1>19, <1>20, <1>21,
     <1>22, <1>23, <1>24, <1>25, <1>26, <1>27, <1>28, <1>29, <1>30, <1>31,
     <1>32, <1>33, <1>34, <1>35, <1>36, <1>37, <1>38, <1>39, <1>40, <1>41,
     <1>42, <1>43, <1>44, <1>45, <1>46, <1>47, <1>48, <1>49, <1>50,
     <1>51 DEF Next, EngineStep, AppStep, WorldStep, Decide, UploadStep,
         DownloadStep, EndStep

-----------------------------------------------------------------------------
(***************************************************************************)
(* No content is lost.  A backup file is overwritten when another backup   *)
(* is given its name, so the argument is about names: those of one pass    *)
(* differ because its cards have different names, those of two passes      *)
(* because a pass starts in a later second than the backups it finds.      *)
(***************************************************************************)
\* No two cards of one pass share their file name.
NamesDistinct ==
  \A S \in Selections : \A c, d \in S : BaseName[c] = BaseName[d] => c = d

NoFutureBackup ==
  \A n \in BaseNames, t \in Times : t > now => backups[<<n, t>>] = Absent

\* The backup a card still to be treated would get now has a new name.
FreshNames ==
  /\ \A c \in todo : backups[BackupOf(c, now)] = Absent
  /\ \A c, d \in todo : BaseName[c] = BaseName[d] => c = d
  /\ pc = "backup" =>
       /\ backups[BackupOf(cur, now)] = Absent
       /\ \A c \in todo : BaseName[c] # BaseName[cur]

CopyIsOpen == pc = "copying" => backups[BackupOf(cur, stamp)] = Torn

BackedUp ==
  pc \in {"fetch", "template"} /\ disk[cur].data \in Contents
    => Preserved(cur, disk[cur].data)

CutWhileWriting == pc = "writing" => disk[cur].data = Torn

BackupInv ==
  /\ NoFutureBackup
  /\ FreshNames
  /\ CopyIsOpen
  /\ BackedUp
  /\ CutWhileWriting
  /\ NothingLost

\* The steps the invariant speaks about.
Critical == {"backup", "copying", "fetch", "template", "writing"}

\* A step that leaves the backups, the clock and the history alone, and does
\* not lead to a critical step, keeps the invariant.
LEMMA QuietStep ==
  ASSUME BackupInv, UNCHANGED <<backups, replaced, now>>,
         todo' \subseteq todo, pc' \notin Critical
  PROVE  BackupInv'
BY DEF BackupInv, NoFutureBackup, FreshNames, CopyIsOpen, BackedUp,
       CutWhileWriting, NothingLost, Preserved, BackupOf, Critical

\* So does a step of the world that leaves the device alone.
LEMMA ForeignStep ==
  ASSUME BackupInv,
         UNCHANGED <<backups, replaced, now, todo, pc, cur, stamp, disk>>
  PROVE  BackupInv'
BY DEF BackupInv, NoFutureBackup, FreshNames, CopyIsOpen, BackedUp,
       CutWhileWriting, NothingLost, Preserved, BackupOf

\* A later second makes every name fresh.
LEMMA ClockStep ==
  ASSUME TypeInv, BackupInv, now' = now + 1, now' \in Times,
         UNCHANGED <<backups, replaced>>,
         \/ UNCHANGED <<todo, pc, cur, stamp, disk>>
         \/ /\ todo' \subseteq Cards
            /\ \A c, d \in todo' : BaseName[c] = BaseName[d] => c = d
            /\ pc' \notin Critical
  PROVE  BackupInv'
<1> USE BoundsAssumption, NamingAssumption
<1>1. now \in Nat /\ now' \in Nat /\ Times \subseteq Nat
  BY DEF TypeInv, TypeOK, Times
<1>2. \A c \in Cards : BaseName[c] \in BaseNames
  OBVIOUS
<1>3. \A c \in Cards : backups[BackupOf(c, now')] = Absent
  BY <1>1, <1>2 DEF BackupInv, NoFutureBackup, BackupOf
<1>4. NoFutureBackup'
  BY <1>1 DEF BackupInv, NoFutureBackup
<1>5. todo \subseteq Cards /\ cur \in Cards
  BY DEF TypeInv, TypeOK
<1>6. CASE UNCHANGED <<todo, pc, cur, stamp, disk>>
  BY <1>3, <1>4, <1>5, <1>6
     DEF BackupInv, FreshNames, CopyIsOpen, BackedUp, CutWhileWriting,
         NothingLost, Preserved, BackupOf
<1>7. CASE /\ todo' \subseteq Cards
           /\ \A c, d \in todo' : BaseName[c] = BaseName[d] => c = d
           /\ pc' \notin Critical
  BY <1>3, <1>4, <1>7
     DEF BackupInv, FreshNames, CopyIsOpen, BackedUp, CutWhileWriting,
         NothingLost, Preserved, BackupOf, Critical
<1>8. QED BY <1>6, <1>7

\* Writing one backup file whose old content is no card content keeps every
\* content that was preserved.
LEMMA OverwriteKeeps ==
  ASSUME NEW slot \in BaseNames \X Times, NEW d,
         backups \in [BaseNames \X Times -> Data],
         backups[slot] \notin Contents,
         backups' = [backups EXCEPT ![slot] = d]
  PROVE  \A c \in Cards, k \in Contents : Preserved(c, k) => Preserved(c, k)'
<1> SUFFICES ASSUME NEW c \in Cards, NEW k \in Contents, Preserved(c, k)
             PROVE  Preserved(c, k)'
  OBVIOUS
<1>1. PICK t \in Times : backups[BackupOf(c, t)] = k
  BY DEF Preserved
<1>2. BackupOf(c, t) \in BaseNames \X Times
  BY NamingAssumption DEF BackupOf
<1>3. backups'[BackupOf(c, t)] = k
  BY <1>1, <1>2
<1>4. QED BY <1>3 DEF Preserved, BackupOf

LEMMA BackupInit == Init => BackupInv
BY DEF Init, BackupInv, NoFutureBackup, FreshNames, CopyIsOpen, BackedUp,
       CutWhileWriting, NothingLost, BackupOf

LEMMA BackupNext ==
  ASSUME ~Endless, NamesDistinct, TypeInv, BackupInv, [Next]_vars
  PROVE  BackupInv'
<1> USE DEF local, passive, run, outside, Fails
<1>0. /\ now \in Times /\ Times \subseteq Nat /\ cur \in Cards
      /\ todo \subseteq Cards
      /\ backups \in [BaseNames \X Times -> Data]
      /\ disk \in [Cards -> File]
      /\ \A c \in Cards, t \in Times : BackupOf(c, t) \in BaseNames \X Times
  BY NamingAssumption, BoundsAssumption DEF TypeInv, TypeOK, Times, BackupOf
\* Where the application rests, and how a pass begins.
<1>1. CASE Launch \/ Quit \/ RescanAtMenu \/ ListRemote \/ ListCutShort
             \/ ListFails \/ Crash \/ Rescan
  BY <1>1, QuietStep
     DEF Launch, Quit, RescanAtMenu, ListRemote, ListCutShort, ListFails,
         Crash, Rescan, Forget, NextItem, DropTemp, Critical
<1>2. ASSUME NEW cards \in Selections, StartRun(cards) PROVE BackupInv'
  <2>1. now' = now + 1 /\ now' \in Times
    BY <1>0, <1>2, BoundsAssumption
       DEF StartRun, ClockMayAdvance, Later, Times
  <2>2. todo' \subseteq cards /\ cards \subseteq Cards
    BY <1>2, NamingAssumption DEF StartRun
  <2>3. \A c, d \in todo' : BaseName[c] = BaseName[d] => c = d
    BY <2>2 DEF NamesDistinct
  <2>4. QED BY <1>2, <2>1, <2>2, <2>3, ClockStep DEF StartRun, Critical
<1>3. CASE StartRunRefused
  <2>1. now' = now + 1 /\ now' \in Times
    BY <1>0, <1>3, BoundsAssumption
       DEF StartRunRefused, ClockMayAdvance, Later, Times
  <2>2. UNCHANGED <<backups, replaced, todo, cur, stamp, disk>>
    BY <1>3 DEF StartRunRefused
  <2>3. /\ todo' \subseteq Cards
        /\ \A c, d \in todo' : BaseName[c] = BaseName[d] => c = d
    BY <1>0, <2>2 DEF BackupInv, FreshNames
  <2>4. QED BY <1>3, <2>1, <2>2, <2>3, ClockStep DEF StartRunRefused, Critical
<1>3a. CASE Tick
  <2>1. now' = now + 1 /\ now' \in Times
    BY <1>0, <1>3a, BoundsAssumption DEF Tick, Times
  <2>2. UNCHANGED <<backups, replaced, todo, pc, cur, stamp, disk>>
    BY <1>3a DEF Tick
  <2>3. QED BY <2>1, <2>2, ClockStep
\* The decisions.
<1>4. ASSUME NEW c \in Cards,
             SkipUnchanged(c) \/ SkipCurrent(c) \/ SkipQuiet(c)
               \/ SkipConflict(c) \/ UploadNew(c) \/ UploadConflict(c)
      PROVE  BackupInv'
  BY <1>4, QuietStep
     DEF SkipUnchanged, SkipCurrent, SkipQuiet, SkipConflict, UploadNew,
         UploadConflict, SkipWith, BeginUpload, Take, Critical
<1>5. ASSUME NEW c \in Cards, DownloadConflict(c) PROVE BackupInv'
  <2>1. /\ c \in todo /\ todo' = todo \ {c} /\ cur' = c
        /\ UNCHANGED <<backups, replaced, now, disk, stamp>>
        /\ pc' = "items" \/ (pc' = "backup" /\ disk[c].data # Absent)
             \/ (pc' = "fetch" /\ disk[c].data = Absent)
    BY <1>5 DEF DownloadConflict, Take, AfterDownloadPlanned
  <2>2. FreshNames'
    BY <2>1 DEF BackupInv, FreshNames, BackupOf
  <2>3. BackedUp'
    BY <2>1, DataAssumption DEF BackedUp
  <2>4. QED
    BY <2>1, <2>2, <2>3
       DEF BackupInv, NoFutureBackup, CopyIsOpen, CutWhileWriting,
           NothingLost, Preserved, BackupOf
\* Uploads read the card only.
<1>6. CASE UploadStep
  BY <1>6, QuietStep
     DEF UploadStep, Pack, PackFails, PackTakenForConflict,
         ServerAccepts, ReplyLost, ServerRefuses,
         SendFails, FinishUpload, FinishUploadUnrecorded, FinishRefused,
         FinishUnsent, Abandon, NextItem, DropTemp, Critical
\* The backup.
<1>7. CASE BackupOpen
  <2>1. /\ backups' = [backups EXCEPT ![BackupOf(cur, now)] = Torn]
        /\ backups[BackupOf(cur, now)] = Absent
        /\ pc = "backup" /\ pc' = "copying" /\ stamp' = now
        /\ UNCHANGED <<disk, todo, cur, now, replaced>>
    BY <1>7 DEF BackupOpen, BackupInv, FreshNames
  <2>2. \A c \in Cards, k \in Contents : Preserved(c, k) => Preserved(c, k)'
    BY <1>0, <2>1, OverwriteKeeps, DataAssumption
  <2>3. NothingLost'
    BY <2>1, <2>2 DEF BackupInv, NothingLost
  <2>4. NoFutureBackup'
    BY <1>0, <2>1 DEF BackupInv, NoFutureBackup, BackupOf
  <2>5. FreshNames'
    BY <1>0, <2>1 DEF BackupInv, FreshNames, BackupOf
  <2>6. CopyIsOpen'
    BY <1>0, <2>1 DEF CopyIsOpen, BackupOf
  <2>7. QED
    BY <2>1, <2>3, <2>4, <2>5, <2>6 DEF BackupInv, BackedUp, CutWhileWriting
<1>8. CASE BackupDone
  <2>1. /\ backups' = [backups EXCEPT ![BackupOf(cur, stamp)] = disk[cur].data]
        /\ backups[BackupOf(cur, stamp)] = Torn
        /\ stamp \in Times
        /\ pc' = "fetch"
        /\ UNCHANGED <<disk, todo, cur, now, stamp, replaced>>
    BY <1>8 DEF BackupDone, BackupInv, CopyIsOpen, TypeInv, TypeOK
  <2>2. \A c \in Cards, k \in Contents : Preserved(c, k) => Preserved(c, k)'
    BY <1>0, <2>1, OverwriteKeeps, DataAssumption
  <2>3. NothingLost'
    BY <2>1, <2>2 DEF BackupInv, NothingLost
  <2>4. \A s \in BaseNames \X Times : backups[s] = Absent => backups'[s] = Absent
    BY <1>0, <2>1, DataAssumption
  <2>5. NoFutureBackup'
    BY <1>0, <2>1, <2>4 DEF BackupInv, NoFutureBackup
  <2>6. FreshNames'
    BY <1>0, <2>1, <2>4 DEF BackupInv, FreshNames, BackupOf
  <2>7. BackedUp'
    <3>1. backups'[BackupOf(cur, stamp)] = disk[cur].data
      BY <1>0, <2>1
    <3>2. QED BY <2>1, <3>1 DEF BackedUp, Preserved, BackupOf
  <2>8. QED
    BY <2>1, <2>3, <2>5, <2>6, <2>7 DEF BackupInv, CopyIsOpen, CutWhileWriting
<1>9. CASE BackupFails
  <2>1. /\ backups' = [backups EXCEPT ![BackupOf(cur, stamp)] = Absent]
        /\ backups[BackupOf(cur, stamp)] = Torn
        /\ stamp \in Times
        /\ pc' = "items"
        /\ UNCHANGED <<disk, todo, cur, now, stamp, replaced>>
    BY <1>9
       DEF BackupFails, BackupInv, CopyIsOpen, TypeInv, TypeOK, Abandon, NextItem
  <2>2. \A c \in Cards, k \in Contents : Preserved(c, k) => Preserved(c, k)'
    BY <1>0, <2>1, OverwriteKeeps, DataAssumption
  <2>3. NothingLost'
    BY <2>1, <2>2 DEF BackupInv, NothingLost
  <2>4. \A s \in BaseNames \X Times : backups[s] = Absent => backups'[s] = Absent
    BY <1>0, <2>1
  <2>5. NoFutureBackup'
    BY <1>0, <2>1, <2>4 DEF BackupInv, NoFutureBackup
  <2>6. FreshNames'
    BY <1>0, <2>1, <2>4 DEF BackupInv, FreshNames, BackupOf
  <2>7. QED
    BY <2>1, <2>3, <2>5, <2>6
       DEF BackupInv, BackedUp, CopyIsOpen, CutWhileWriting
\* The payload and the rebuilt card.
<1>10. CASE Fetch
  BY <1>10
     DEF Fetch, BackupInv, NoFutureBackup, FreshNames, CopyIsOpen, BackedUp,
         CutWhileWriting, NothingLost, Preserved, BackupOf
<1>11. CASE RebuildOpen
  <2>1. /\ disk' = [disk EXCEPT ![cur] =
                      [data |-> Torn, signed |-> FALSE, mtime |-> now]]
        /\ replaced' = replaced \cup ({<<cur, disk[cur].data>>}
                                        \cap (Cards \X Contents))
        /\ pc = "template" /\ pc' = "writing"
        /\ UNCHANGED <<backups, todo, cur, now>>
    BY <1>11 DEF RebuildOpen
  <2>2. disk[cur].data \in Contents => Preserved(cur, disk[cur].data)
    BY <2>1 DEF BackupInv, BackedUp
  <2>3. NothingLost'
    <3> SUFFICES ASSUME NEW c \in Cards, NEW k \in Contents,
                        <<c, k>> \in replaced'
                 PROVE  Preserved(c, k)'
      BY DEF NothingLost
    <3>1. <<c, k>> \in replaced \/ (c = cur /\ k = disk[cur].data)
      BY <2>1
    <3>2. Preserved(c, k)
      BY <2>2, <3>1 DEF BackupInv, NothingLost
    <3>3. QED BY <2>1, <3>2 DEF Preserved, BackupOf
  <2>4. CutWhileWriting'
    BY <1>0, <2>1 DEF CutWhileWriting
  <2>5. QED
    BY <2>1, <2>3, <2>4
       DEF BackupInv, NoFutureBackup, FreshNames, CopyIsOpen, BackedUp, BackupOf
<1>12. CASE BackupRefused \/ FetchFails \/ RebuildRefused \/ RebuildDone
              \/ RebuildFails \/ Sign \/ SignFails \/ FinishDownload
              \/ FinishDownloadUnrecorded
  BY <1>12, QuietStep
     DEF BackupRefused, FetchFails, RebuildRefused, RebuildDone, RebuildFails,
         Sign, SignFails, FinishDownload, FinishDownloadUnrecorded, Abandon,
         NextItem, DropTemp, Critical
\* The end of the pass, and the world.
<1>13. CASE EndItems \/ SaveOpen \/ SaveRefused \/ SaveDone \/ SaveFails
  BY <1>13, QuietStep
     DEF EndItems, SaveOpen, SaveRefused, SaveDone, SaveFails, Critical
<1>14. ASSUME NEW c \in Cards, Play(c) PROVE BackupInv'
  <2>1. now' = now + 1 /\ now' \in Times
    BY <1>0, <1>14, BoundsAssumption DEF Play, Times
  <2>2. /\ UNCHANGED <<backups, replaced>>
        /\ todo' = todo /\ pc' \notin Critical
    BY <1>14 DEF Play, Unattended, Critical
  <2>3. \A d, e \in todo' : BaseName[d] = BaseName[e] => d = e
    BY <2>2 DEF BackupInv, FreshNames
  <2>4. QED BY <1>0, <2>1, <2>2, <2>3, ClockStep
<1>15. ASSUME NEW c \in Cards, Delete(c) PROVE BackupInv'
  BY <1>15, QuietStep DEF Delete, Unattended, Critical
<1>16. ASSUME NEW c \in Cards, OtherUpload(c) \/ ServerDelete(c)
       PROVE  BackupInv'
  BY <1>16, ForeignStep DEF OtherUpload, ServerDelete
<1>17. CASE UNCHANGED vars
  BY <1>17, ForeignStep DEF vars
<1>18. QED
  BY <1>1, <1>2, <1>3, <1>3a, <1>4, <1>5, <1>6, <1>7, <1>8, <1>9, <1>10, <1>11,
     <1>12, <1>13, <1>14, <1>15, <1>16, <1>17
     DEF Next, EngineStep, AppStep, WorldStep, Decide, DownloadStep, EndStep

THEOREM TypeInvariance == Spec => []TypeInv
BY TypeInit, TypeNext, PTL DEF Spec

\* The state keeps its type.
THEOREM TypeCorrect == Spec => []TypeOK
<1>1. TypeInv => TypeOK
  BY DEF TypeInv
<1>2. QED BY <1>1, TypeInvariance, PTL

THEOREM BackupInvariance ==
  ASSUME ~Endless, NamesDistinct
  PROVE  Spec => []BackupInv
<1>1. TypeInv /\ BackupInv /\ [Next]_vars => BackupInv'
  BY BackupNext
<1>2. QED BY <1>1, BackupInit, TypeInvariance, PTL DEF Spec

(***************************************************************************)
(* "Always create backups before restore" holds when the cards of one pass *)
(* have distinct file names, as those of one game do: every content a pass *)
(* removed from a card is in one of the card's backups, whatever fails.    *)
(***************************************************************************)
THEOREM NothingIsLost ==
  ASSUME ~Endless, NamesDistinct
  PROVE  Spec => []NothingLost
<1>1. BackupInv => NothingLost
  BY DEF BackupInv
<1>2. QED BY <1>1, BackupInvariance, PTL

-----------------------------------------------------------------------------
(***************************************************************************)
(* The pass implements SaveVault.                                          *)
(***************************************************************************)
LiveMap == [c \in Cards |-> disk[c].data]
VaultMap == [c \in Cards |-> Vaulted(c)]

\* A step that changes no card's data and no backup maps to a stutter, or
\* to the start or the end of a synchronization.
LEMMA IdleStep ==
  ASSUME backups' = backups, \A c \in Cards : disk'[c].data = disk[c].data
  PROVE  [Vault!Next]_(Vault!vars)
<1>1. LiveMap' = LiveMap
  BY DEF LiveMap
<1>2. VaultMap' = VaultMap
  BY DEF VaultMap, Vaulted, Preserved, BackupOf
<1>3. (pc \notin Resting)' = (pc \notin Resting)
      \/ (pc \notin Resting)' = ~(pc \notin Resting)
  OBVIOUS
<1>4. QED
  BY <1>1, <1>2, <1>3
     DEF Vault!Next, Vault!Switch, Vault!vars, LiveMap, VaultMap

\* A step that changes one card and no backup is a write of the player, or
\* a replacement of a content that is preserved.
LEMMA CardStep ==
  ASSUME TypeInv, NEW c \in Cards, NEW f \in File,
         disk' = [disk EXCEPT ![c] = f], backups' = backups,
         (pc \notin Resting)' = (pc \notin Resting),
         pc \notin Resting /\ disk[c].data \in Contents
           => Preserved(c, disk[c].data)
  PROVE  Vault!Next
<1>1. VaultMap' = VaultMap
  BY DEF VaultMap, Vaulted, Preserved, BackupOf
<1>2. disk \in [Cards -> File] /\ f.data \in Data
  BY DEF TypeInv, TypeOK, File
<1>3. LiveMap' = [LiveMap EXCEPT ![c] = f.data]
  BY <1>2 DEF LiveMap
<1>4. LiveMap' \in {[LiveMap EXCEPT ![c] = d] : d \in Data}
  BY <1>2, <1>3
<1>5. LiveMap[c] = disk[c].data /\ VaultMap[c] = Vaulted(c)
  BY DEF LiveMap, VaultMap
<1>6. CASE pc \in Resting
  BY <1>1, <1>4, <1>6
     DEF Vault!Next, Vault!UserWrites, Vault!Data, Data, LiveMap, VaultMap
<1>7. CASE pc \notin Resting
  <2>1. LiveMap[c] \in Contents => LiveMap[c] \in VaultMap[c]
    BY <1>5, <1>7 DEF Vaulted
  <2>2. QED
    BY <1>1, <1>4, <1>7, <2>1
       DEF Vault!Next, Vault!Replace, Vault!Data, Data, LiveMap, VaultMap
<1>8. QED BY <1>6, <1>7

\* Rewriting a backup file that holds no content with one that holds none
\* either changes nothing for the vault.
LEMMA NullOverwrite ==
  ASSUME TypeInv, NEW slot \in BaseNames \X Times, NEW d, d \notin Contents,
         backups[slot] \notin Contents,
         backups' = [backups EXCEPT ![slot] = d],
         disk' = disk
  PROVE  [Vault!Next]_(Vault!vars)
<1>1. \A s \in BaseNames \X Times, k \in Contents :
         backups'[s] = k <=> backups[s] = k
  BY DEF TypeInv, TypeOK
<1>2. \A c \in Cards, t \in Times : BackupOf(c, t) \in BaseNames \X Times
  BY NamingAssumption DEF BackupOf
<1>3. \A c \in Cards, k \in Contents : Preserved(c, k)' <=> Preserved(c, k)
  BY <1>1, <1>2 DEF Preserved, BackupOf
<1>4. VaultMap' = VaultMap
  BY <1>3 DEF VaultMap, Vaulted
<1>5. LiveMap' = LiveMap
  BY DEF LiveMap
<1>6. (pc \notin Resting)' = (pc \notin Resting)
      \/ (pc \notin Resting)' = ~(pc \notin Resting)
  OBVIOUS
<1>7. QED
  BY <1>4, <1>5, <1>6
     DEF Vault!Next, Vault!Switch, Vault!vars, LiveMap, VaultMap

LEMMA VaultInit == Init => Vault!Init
<1> SUFFICES ASSUME Init PROVE Vault!Init
  OBVIOUS
<1>1. \A c \in Cards : disk[c].data \in Data
  BY TypeInit DEF TypeInv, TypeOK, File
<1>2. \A c \in Cards, t \in Times : backups[BackupOf(c, t)] = Absent
  BY NamingAssumption DEF Init, BackupOf
<1>3. \A c \in Cards : Vaulted(c) = {}
  BY <1>2, DataAssumption DEF Vaulted, Preserved
<1>4. pc \in Resting
  BY DEF Init, Resting
<1>5. QED BY <1>1, <1>3, <1>4 DEF Vault!Init, Vault!Data, Data

LEMMA VaultNext ==
  ASSUME TypeInv, BackupInv, [Next]_vars
  PROVE  [Vault!Next]_(Vault!vars)
<1> USE DEF local, passive, run, outside, Fails
<1>0. /\ now \in Times /\ stamp \in Times /\ cur \in Cards
      /\ disk \in [Cards -> File]
      /\ backups \in [BaseNames \X Times -> Data]
      /\ \A c \in Cards, t \in Times : BackupOf(c, t) \in BaseNames \X Times
  BY NamingAssumption DEF TypeInv, TypeOK, BackupOf
<1>1. CASE UNCHANGED <<disk, backups>>
  BY <1>1, IdleStep
<1>2. CASE BackupOpen
  <2>1. /\ backups' = [backups EXCEPT ![BackupOf(cur, now)] = Torn]
        /\ backups[BackupOf(cur, now)] = Absent
        /\ disk' = disk
    BY <1>2 DEF BackupOpen, BackupInv, FreshNames
  <2>2. QED BY <1>0, <2>1, NullOverwrite, DataAssumption
<1>3. CASE BackupFails
  <2>1. /\ backups' = [backups EXCEPT ![BackupOf(cur, stamp)] = Absent]
        /\ backups[BackupOf(cur, stamp)] = Torn
        /\ disk' = disk
    BY <1>3 DEF BackupFails, BackupInv, CopyIsOpen
  <2>2. QED BY <1>0, <2>1, NullOverwrite, DataAssumption
<1>4. CASE BackupDone
  <2> DEFINE slot == BackupOf(cur, stamp)
             d == disk[cur].data
             same == {c \in Cards : BaseName[c] = BaseName[cur]}
  <2>1. /\ backups' = [backups EXCEPT ![slot] = d]
        /\ backups[slot] = Torn
        /\ disk' = disk
        /\ pc \notin Resting /\ pc' \notin Resting
    BY <1>4 DEF BackupDone, BackupInv, CopyIsOpen, Resting
  <2>2. CASE d \notin Contents
    BY <1>0, <2>1, <2>2, NullOverwrite, DataAssumption
  <2>3. CASE d \in Contents
    <3>1. LiveMap' = LiveMap /\ LiveMap[cur] = d
      BY <1>0, <2>1 DEF LiveMap
    <3>2. ASSUME NEW c \in Cards
          PROVE  Vaulted(c)' = IF c \in same THEN Vaulted(c) \cup {d}
                               ELSE Vaulted(c)
      <4>1. ASSUME NEW k \in Contents
            PROVE  Preserved(c, k)' <=> Preserved(c, k) \/ (c \in same /\ k = d)
        <5>1. \A t \in Times :
                backups'[BackupOf(c, t)] =
                  IF BackupOf(c, t) = slot THEN d ELSE backups[BackupOf(c, t)]
          BY <1>0, <2>1
        <5>2. \A t \in Times : BackupOf(c, t) = slot <=> c \in same /\ t = stamp
          BY DEF BackupOf
        <5>3. backups[slot] # k
          BY <2>1, DataAssumption
        <5>4. Preserved(c, k)' <=> \E t \in Times : backups'[BackupOf(c, t)] = k
          BY DEF Preserved, BackupOf
        <5>5. QED BY <1>0, <5>1, <5>2, <5>3, <5>4 DEF Preserved
      <4>2. QED BY <2>3, <4>1 DEF Vaulted
    <3>3. VaultMap' = [c \in Cards |-> IF c \in same
                                       THEN VaultMap[c] \cup {LiveMap[cur]}
                                       ELSE VaultMap[c]]
      BY <3>1, <3>2 DEF VaultMap
    <3>4. cur \in same /\ same \in SUBSET Cards
      BY <1>0
    <3>5. Vault!Preserve(cur)
      <4> HIDE DEF same, d, slot
      <4> QED BY <2>1, <2>3, <3>1, <3>3, <3>4
                 DEF Vault!Preserve, LiveMap, VaultMap
    <3>6. QED BY <1>0, <3>5 DEF Vault!Next
  <2>4. QED BY <2>2, <2>3
<1>5. CASE RebuildOpen
  <2>1. [data |-> Torn, signed |-> FALSE, mtime |-> now] \in File
    BY <1>0 DEF File, Data
  <2>2. disk[cur].data \in Contents => Preserved(cur, disk[cur].data)
    BY <1>5 DEF RebuildOpen, BackupInv, BackedUp
  <2>3. QED BY <1>0, <1>5, <2>1, <2>2, CardStep DEF RebuildOpen, Resting
<1>6. CASE RebuildDone
  <2>1. [data |-> got, signed |-> FALSE, mtime |-> now] \in File
    BY <1>0 DEF File, Data, TypeInv, TypeOK
  <2>2. disk[cur].data \notin Contents
    BY <1>6, DataAssumption DEF RebuildDone, BackupInv, CutWhileWriting
  <2>3. QED BY <1>0, <1>6, <2>1, <2>2, CardStep DEF RebuildDone, Resting
<1>7. CASE RebuildFails
  <2>1. disk[cur].data \notin Contents
    BY <1>7, DataAssumption DEF RebuildFails, BackupInv, CutWhileWriting
  <2>2. QED
    BY <1>0, <1>7, <2>1, BlanksTyped, CardStep
       DEF RebuildFails, Abandon, NextItem, Resting
<1>8. CASE Sign
  <2>1. \A c \in Cards : disk'[c].data = disk[c].data
    BY <1>0, <1>8 DEF Sign, File
  <2>2. QED BY <1>8, <2>1, IdleStep DEF Sign
<1>9. ASSUME NEW c \in Cards, Play(c) PROVE [Vault!Next]_(Vault!vars)
  <2>1. PICK k \in Contents :
          disk' = [disk EXCEPT ![c] =
                     [data |-> k, signed |-> TRUE, mtime |-> now + 1]]
    BY <1>9 DEF Play
  <2>2. [data |-> k, signed |-> TRUE, mtime |-> now + 1] \in File
    BY <1>0, <1>9, BoundsAssumption DEF Play, File, Data, Times
  <2>3. QED
    BY <1>9, <2>1, <2>2, CardStep DEF Play, Unattended, Resting
<1>10. ASSUME NEW c \in Cards, Delete(c) PROVE [Vault!Next]_(Vault!vars)
  BY <1>10, BlanksTyped, CardStep DEF Delete, Unattended, Resting
<1>11. CASE Launch \/ Quit \/ RescanAtMenu \/ StartRunRefused \/ Crash
              \/ ListRemote \/ ListCutShort \/ ListFails \/ UploadStep \/ EndStep \/ Tick
  BY <1>1, <1>11
     DEF Launch, Quit, RescanAtMenu, StartRunRefused, Crash, ListRemote,
         ListCutShort, ListFails,
         UploadStep, Pack, PackFails, PackTakenForConflict,
         ServerAccepts, ReplyLost, ServerRefuses,
         SendFails, FinishUpload, FinishUploadUnrecorded, FinishRefused,
         FinishUnsent, EndStep, EndItems, SaveOpen, SaveRefused, SaveDone,
         SaveFails, Rescan, Tick
<1>12. CASE BackupRefused \/ Fetch \/ FetchFails \/ RebuildRefused \/ SignFails
              \/ FinishDownload \/ FinishDownloadUnrecorded
  BY <1>1, <1>12
     DEF BackupRefused, Fetch, FetchFails, RebuildRefused, SignFails,
         FinishDownload, FinishDownloadUnrecorded
<1>13. ASSUME NEW cards \in Selections, StartRun(cards)
       PROVE  [Vault!Next]_(Vault!vars)
  BY <1>1, <1>13 DEF StartRun
<1>14. CASE Decide
  BY <1>1, <1>14
     DEF Decide, SkipUnchanged, SkipCurrent, SkipQuiet, SkipConflict,
         UploadNew, UploadConflict, DownloadConflict, SkipWith, BeginUpload
<1>15. ASSUME NEW c \in Cards, OtherUpload(c) \/ ServerDelete(c)
       PROVE  [Vault!Next]_(Vault!vars)
  BY <1>1, <1>15 DEF OtherUpload, ServerDelete
<1>16. CASE UNCHANGED vars
  BY <1>1, <1>16 DEF vars
<1>17. QED
  BY <1>2, <1>3, <1>4, <1>5, <1>6, <1>7, <1>8, <1>9, <1>10, <1>11, <1>12,
     <1>13, <1>14, <1>15, <1>16
     DEF Next, EngineStep, AppStep, WorldStep, DownloadStep

(***************************************************************************)
(* Every behaviour of the engine is one of SaveVault: the program replaces *)
(* a card's content only after a backup of that very content is complete,  *)
(* and no backup once made is lost.                                        *)
(***************************************************************************)
THEOREM EngineImplementsVault ==
  ASSUME ~Endless, NamesDistinct
  PROVE  Spec => VaultSpec
<1>1. TypeInv /\ BackupInv /\ [Next]_vars => [Vault!Next]_(Vault!vars)
  BY VaultNext
<1>2. QED
  BY <1>1, VaultInit, TypeInvariance, BackupInvariance, PTL
     DEF Spec, VaultSpec, Vault!Spec

(***************************************************************************)
(* Without a confirmation callback, or in a dry run, no step of a pass     *)
(* changes a card or a backup.                                             *)
(***************************************************************************)
NoDownload ==
  pc \notin {"backup", "copying", "fetch", "template", "writing", "sign",
             "finish"}

LEMMA NoDownloadNext ==
  ASSUME DryRun \/ Resolver = {}, NoDownload, [Next]_vars
  PROVE  NoDownload' /\ (pc \notin Resting => UNCHANGED <<disk, backups>>)
<1> USE DEF NoDownload, local, passive, run, outside
<1>1. ASSUME NEW c \in Cards, DownloadConflict(c)
      PROVE  NoDownload' /\ UNCHANGED <<disk, backups>>
  <2>1. DryRun
    BY <1>1 DEF DownloadConflict, Disputed, Decisions
  <2>2. QED BY <1>1, <2>1 DEF DownloadConflict, AfterDownloadPlanned
<1>2. CASE Launch \/ Quit \/ RescanAtMenu \/ StartRunRefused \/ Crash
              \/ ListRemote \/ ListCutShort \/ ListFails \/ UploadStep \/ EndStep \/ Tick
  BY <1>2
     DEF Launch, Quit, RescanAtMenu, StartRunRefused, Crash, ListRemote,
         ListCutShort, ListFails, NextItem,
         UploadStep, Pack, PackFails, PackTakenForConflict,
         ServerAccepts, ReplyLost, ServerRefuses,
         SendFails, FinishUpload, FinishUploadUnrecorded, FinishRefused,
         FinishUnsent, Abandon, EndStep, EndItems, SaveOpen, SaveRefused,
         SaveDone, SaveFails, Rescan, Tick
<1>3. CASE DownloadStep
  BY <1>3
     DEF DownloadStep, BackupOpen, BackupRefused, BackupDone, BackupFails,
         Fetch, FetchFails, RebuildOpen, RebuildRefused, RebuildDone,
         RebuildFails, Sign, SignFails, FinishDownload,
         FinishDownloadUnrecorded
<1>4. ASSUME NEW cards \in Selections, StartRun(cards)
      PROVE  NoDownload' /\ UNCHANGED <<disk, backups>>
  BY <1>4 DEF StartRun
<1>5. ASSUME NEW c \in Cards,
             SkipUnchanged(c) \/ SkipCurrent(c) \/ SkipQuiet(c)
               \/ SkipConflict(c) \/ UploadNew(c) \/ UploadConflict(c)
      PROVE  NoDownload' /\ UNCHANGED <<disk, backups>>
  BY <1>5
     DEF SkipUnchanged, SkipCurrent, SkipQuiet, SkipConflict, UploadNew,
         UploadConflict, SkipWith, BeginUpload
<1>6. ASSUME NEW c \in Cards,
             Play(c) \/ Delete(c) \/ OtherUpload(c) \/ ServerDelete(c)
      PROVE  NoDownload' /\ (pc \notin Resting => UNCHANGED <<disk, backups>>)
  BY <1>6 DEF Play, Delete, OtherUpload, ServerDelete, Unattended, Resting
<1>7. CASE UNCHANGED vars
  BY <1>7 DEF vars
<1>8. QED
  BY <1>1, <1>2, <1>3, <1>4, <1>5, <1>6, <1>7
     DEF Next, EngineStep, AppStep, WorldStep, Decide

\* The application, which sets no callback, never touches a card.
THEOREM CardsStayAsTheyAre ==
  ASSUME DryRun \/ Resolver = {}
  PROVE  Spec => CardsAreOnlyRead
<1>1. Init => NoDownload
  BY DEF Init, NoDownload
<1>2. NoDownload /\ [Next]_vars
        => NoDownload' /\ (pc \notin Resting => UNCHANGED <<disk, backups>>)
  BY NoDownloadNext
<1>3. QED BY <1>1, <1>2, PTL DEF Spec, CardsAreOnlyRead

-----------------------------------------------------------------------------
(***************************************************************************)
(* No conversion file is left behind: there is one only while its card is  *)
(* being transferred.                                                      *)
(***************************************************************************)
TempIsInUse ==
  temps # {} =>
    pc \in {"send", "accepted", "refused", "unsent", "template", "writing",
            "sign", "finish"}

LEMMA TempNext == TempIsInUse /\ [Next]_vars => TempIsInUse'
<1> SUFFICES ASSUME TempIsInUse, [Next]_vars PROVE TempIsInUse'
  OBVIOUS
<1> USE DEF TempIsInUse, local, passive, run, outside
<1>1. CASE UploadStep
  BY <1>1
     DEF UploadStep, Pack, PackFails, PackTakenForConflict,
         ServerAccepts, ReplyLost, ServerRefuses,
         SendFails, FinishUpload, FinishUploadUnrecorded, FinishRefused,
         FinishUnsent, Abandon, NextItem, DropTemp
<1>2. CASE DownloadStep
  BY <1>2
     DEF DownloadStep, BackupOpen, BackupRefused, BackupDone, BackupFails,
         Fetch, FetchFails, RebuildOpen, RebuildRefused, RebuildDone,
         RebuildFails, Sign, SignFails, FinishDownload,
         FinishDownloadUnrecorded, Abandon, NextItem, DropTemp
<1>3. CASE ListRemote \/ ListCutShort \/ ListFails \/ EndStep
  BY <1>3
     DEF ListRemote, ListCutShort, ListFails, NextItem, EndStep, EndItems,
         SaveOpen, SaveRefused, SaveDone, SaveFails, Rescan
<1>4. CASE Launch \/ Quit \/ Crash \/ StartRunRefused \/ RescanAtMenu
  BY <1>4
     DEF Launch, Quit, Crash, StartRunRefused, RescanAtMenu, DropTemp
<1>5. ASSUME NEW cards \in Selections, StartRun(cards) PROVE TempIsInUse'
  BY <1>5 DEF StartRun
<1>6. CASE Decide
  BY <1>6
     DEF Decide, SkipUnchanged, SkipCurrent, SkipQuiet, SkipConflict,
         UploadNew, UploadConflict, DownloadConflict, SkipWith, BeginUpload,
         Take
<1>7. CASE WorldStep \/ UNCHANGED vars
  BY <1>7 DEF WorldStep, Tick, Play, Delete, OtherUpload, ServerDelete, vars
<1>8. QED
  BY <1>1, <1>2, <1>3, <1>4, <1>5, <1>6, <1>7 DEF Next, EngineStep, AppStep

\* Between two cards, and after a pass, there is no conversion file.
THEOREM NoTempIsLeft == Spec => []NoTempLeft
<1>1. Init => TempIsInUse
  BY DEF Init, TempIsInUse
<1>2. TempIsInUse => NoTempLeft
  BY DEF TempIsInUse, NoTempLeft
<1>3. QED BY <1>1, <1>2, TempNext, PTL DEF Spec

-----------------------------------------------------------------------------
(***************************************************************************)
(* The report adds up at every step, when the transfer under way is        *)
(* counted as one that is still to be accounted for.                       *)
(***************************************************************************)
Transfers == {"backup", "copying", "fetch", "template", "writing", "sign",
              "finish", "pack", "send", "accepted", "refused", "unsent"}

Planned(r) == r["actions"] + r["refused409"] + r["mistaken409"] =
                r["skipped"] + r["up"] + r["down"]

Settled(r, pending) ==
  r["up"] + r["down"] <=
    r["uploaded"] + r["downloaded"] + r["refused409"] + r["errors"] + pending

CountsFit ==
  /\ report \in [Counters -> Nat]
  /\ Planned(report)
  /\ ~DryRun => Settled(report, IF pc \in Transfers THEN 1 ELSE 0)

Bumped(r, S) == [k \in Counters |-> IF k \in S THEN r[k] + 1 ELSE r[k]]

\* What counting does to the sums.
LEMMA BumpedSums ==
  ASSUME NEW r \in [Counters -> Nat], NEW X \in SUBSET {"conflicts"},
         Planned(r)
  PROVE  /\ Planned(Bumped(r, {"actions", "skipped"} \cup X))
         /\ Planned(Bumped(r, {"actions", "up"} \cup X))
         /\ Planned(Bumped(r, {"actions", "down"} \cup X))
         /\ Planned(Bumped(r, {"skipped", "refused409"} \cup X))
         /\ Planned(Bumped(r, {"errors", "skipped", "mistaken409"} \cup X))
         /\ Planned(Bumped(r, {"uploaded"}))
         /\ Planned(Bumped(r, {"uploaded", "errors"}))
         /\ Planned(Bumped(r, {"downloaded"}))
         /\ Planned(Bumped(r, {"downloaded", "errors"}))
         /\ Planned(Bumped(r, {"errors"}))
         /\ Settled(r, 0) =>
              /\ Settled(Bumped(r, {"actions", "skipped"} \cup X), 0)
              /\ Settled(Bumped(r, {"actions", "up"} \cup X), 1)
              /\ Settled(Bumped(r, {"actions", "down"} \cup X), 1)
         /\ Settled(r, 1) =>
              /\ Settled(Bumped(r, {"skipped", "refused409"} \cup X), 0)
              /\ Settled(Bumped(r, {"errors", "skipped", "mistaken409"}
                                     \cup X), 0)
              /\ Settled(Bumped(r, {"uploaded"}), 0)
              /\ Settled(Bumped(r, {"uploaded", "errors"}), 0)
              /\ Settled(Bumped(r, {"downloaded"}), 0)
              /\ Settled(Bumped(r, {"downloaded", "errors"}), 0)
              /\ Settled(Bumped(r, {"errors"}), 0)
BY DEF Bumped, Planned, Settled, Counters

LEMMA CountsNext == CountsFit /\ [Next]_vars => CountsFit'
<1> SUFFICES ASSUME CountsFit, [Next]_vars PROVE CountsFit'
  OBVIOUS
<1> USE DEF Transfers
<1>0. report \in [Counters -> Nat] /\ Planned(report)
  BY DEF CountsFit
<1>a. \A S : Bump(S) => report' = Bumped(report, S)
  BY DEF Bump, Bumped
<1>b. \A S : Bumped(report, S) \in [Counters -> Nat]
  BY <1>0 DEF Bumped
\* A step that counts nothing and begins no transfer.
<1>c. ASSUME report' = report, pc \in Transfers <=> pc' \in Transfers
      PROVE  CountsFit'
  BY <1>c DEF CountsFit
<1>d. ASSUME report' = EmptyReport, pc' \notin Transfers PROVE CountsFit'
  BY <1>d DEF CountsFit, EmptyReport, Planned, Settled, Counters
\* A transfer ends, with what is counted then.
<1>e. ASSUME NEW X \in SUBSET {"conflicts"}, pc \in Transfers, pc' = "items",
             \/ Bump({"skipped", "refused409"} \cup X)
             \/ Bump({"errors", "skipped", "mistaken409"} \cup X)
             \/ Bump({"uploaded"}) \/ Bump({"uploaded", "errors"})
             \/ Bump({"downloaded"}) \/ Bump({"downloaded", "errors"})
             \/ Bump({"errors"})
      PROVE  CountsFit'
  <2>1. ~DryRun => Settled(report, 1)
    BY <1>e DEF CountsFit
  <2>2. PICK S \in {{"skipped", "refused409"} \cup X,
                    {"errors", "skipped", "mistaken409"} \cup X,
                    {"uploaded"}, {"uploaded", "errors"}, {"downloaded"},
                    {"downloaded", "errors"}, {"errors"}} : Bump(S)
    BY <1>e
  <2>3. Planned(Bumped(report, S))
          /\ (Settled(report, 1) => Settled(Bumped(report, S), 0))
    BY <1>0, <2>2, BumpedSums
  <2>4. report' = Bumped(report, S)
    BY <1>a, <2>2
  <2>5. QED BY <1>b, <1>e, <2>1, <2>3, <2>4 DEF CountsFit
<1>1. ASSUME NEW c \in Cards,
             SkipUnchanged(c) \/ SkipCurrent(c) \/ SkipQuiet(c)
               \/ SkipConflict(c) \/ UploadNew(c) \/ UploadConflict(c)
               \/ DownloadConflict(c)
      PROVE  CountsFit'
  <2>1. pc = "items" /\ (~DryRun => Settled(report, 0))
    BY <1>1
       DEF SkipUnchanged, SkipCurrent, SkipQuiet, SkipConflict, UploadNew,
           UploadConflict, DownloadConflict, SkipWith, BeginUpload, Take,
           CountsFit
  <2>2. {"actions", "down", "conflicts"} = {"actions", "down"} \cup {"conflicts"}
    OBVIOUS
  <2>3. ASSUME NEW X \in SUBSET {"conflicts"}, SkipWith(c, X)
        PROVE  CountsFit'
    <3>1. report' = Bumped(report, {"actions", "skipped"} \cup X) /\ pc' = pc
      BY <1>a, <2>3 DEF SkipWith
    <3>2. QED BY <1>0, <1>b, <2>1, <3>1, BumpedSums DEF CountsFit
  <2>4. ASSUME NEW X \in SUBSET {"conflicts"}, BeginUpload(c, X)
        PROVE  CountsFit'
    <3>1. report' = Bumped(report, {"actions", "up"} \cup X)
      BY <1>a, <2>4 DEF BeginUpload
    <3>2. DryRun \/ pc' = "pack"
      BY <2>4 DEF BeginUpload
    <3>3. QED BY <1>0, <1>b, <2>1, <3>1, <3>2, BumpedSums DEF CountsFit
  <2>5. CASE DownloadConflict(c)
    <3>1. report' = Bumped(report, {"actions", "down"} \cup {"conflicts"})
      BY <1>a, <2>2, <2>5 DEF DownloadConflict
    <3>2. DryRun \/ pc' \in {"backup", "fetch"}
      BY <2>5 DEF DownloadConflict, AfterDownloadPlanned
    <3>3. QED BY <1>0, <1>b, <2>1, <3>1, <3>2, BumpedSums DEF CountsFit
  <2>6. {} \in SUBSET {"conflicts"} /\ {"conflicts"} \in SUBSET {"conflicts"}
    OBVIOUS
  <2>7. QED
    BY <1>1, <2>3, <2>4, <2>5, <2>6
       DEF SkipUnchanged, SkipCurrent, SkipQuiet, SkipConflict, UploadNew,
           UploadConflict
<1>2. CASE PackFails \/ PackTakenForConflict \/ FinishUpload
             \/ FinishUploadUnrecorded \/ FinishRefused \/ FinishUnsent
  <2>1. {} \in SUBSET {"conflicts"} /\ ConflictCounts \in SUBSET {"conflicts"}
    BY DEF ConflictCounts
  <2>2. QED
    BY <1>2, <1>e, <2>1
       DEF PackFails, PackTakenForConflict, FinishUpload,
           FinishUploadUnrecorded, FinishRefused, FinishUnsent, Abandon,
           NextItem
<1>3. CASE BackupRefused \/ BackupFails \/ FetchFails \/ RebuildRefused
             \/ RebuildFails \/ SignFails \/ FinishDownload
             \/ FinishDownloadUnrecorded
  BY <1>3, <1>e
     DEF BackupRefused, BackupFails, FetchFails, RebuildRefused, RebuildFails,
         SignFails, FinishDownload, FinishDownloadUnrecorded, Abandon, NextItem
<1>4. CASE Pack \/ ServerAccepts \/ ReplyLost \/ ServerRefuses \/ SendFails
             \/ BackupOpen \/ BackupDone \/ Fetch \/ RebuildOpen
             \/ RebuildDone \/ Sign
  BY <1>4, <1>c
     DEF Pack, ServerAccepts, ReplyLost, ServerRefuses, SendFails, BackupOpen,
         BackupDone, Fetch, RebuildOpen, RebuildDone, Sign
<1>5. CASE ListRemote \/ ListCutShort \/ ListFails \/ EndItems \/ SaveOpen
             \/ SaveRefused \/ SaveDone \/ SaveFails
  BY <1>5, <1>c
     DEF ListRemote, ListCutShort, ListFails, NextItem, EndItems, SaveOpen,
         SaveRefused, SaveDone, SaveFails
<1>6. CASE Rescan \/ Crash
  BY <1>6, <1>d DEF Rescan, Crash, Forget
<1>7. CASE Launch \/ Quit \/ StartRunRefused \/ RescanAtMenu
  BY <1>7, <1>c DEF Launch, Quit, StartRunRefused, RescanAtMenu, run
<1>8. ASSUME NEW cards \in Selections, StartRun(cards) PROVE CountsFit'
  BY <1>8, <1>d DEF StartRun
<1>9. CASE WorldStep \/ UNCHANGED vars
  BY <1>9, <1>c
     DEF WorldStep, Tick, Play, Delete, OtherUpload, ServerDelete, outside,
         run, vars
<1>10. QED
  BY <1>1, <1>2, <1>3, <1>4, <1>5, <1>6, <1>7, <1>8, <1>9
     DEF Next, EngineStep, AppStep, Decide, UploadStep, DownloadStep, EndStep

\* Whatever fails, every card taken is counted as planned or skipped, as both
\* only when its upload was refused or its failure taken for a refusal, and
\* every transfer planned is executed, refused or counted as an error.
THEOREM ReportAlwaysAddsUp == Spec => []ReportAddsUp
<1>1. Init => CountsFit
  BY BlanksTyped
     DEF Init, CountsFit, EmptyReport, Planned, Settled, Counters
<1>2. CountsFit => ReportAddsUp
  BY DEF CountsFit, ReportAddsUp, Planned, Settled, Transfers, Counters
<1>3. QED BY <1>1, <1>2, CountsNext, PTL DEF Spec

-----------------------------------------------------------------------------
(***************************************************************************)
(* Damage is reported.  A card differs from what the scan saw only by the  *)
(* pass's own hand when nobody touches the cards while the application is  *)
(* open, and then the current card is being written or an error counted.   *)
(***************************************************************************)
Changed(c) == inventory[c] # NoItem /\ disk[c].mtime # inventory[c].timestamp

DamageInv ==
  /\ pc = "idle" => \A c \in Cards : ~Changed(c)
  /\ pc \notin {"off", "idle", "rescan"} =>
       \A c \in Cards :
         Changed(c) /\ ~disk[c].signed =>
           report["errors"] > 0 \/ (c = cur /\ pc \in {"writing", "sign"})

\* What a scan has just said of a card is so.
LEMMA ScanIsTrue ==
  ASSUME inventory' = Scan, disk' = disk
  PROVE  \A c \in Cards : ~Changed(c)'
BY DEF Scan, Changed, NoItem

LEMMA DamageNext ==
  ASSUME ~AwayWhileOpen
  PROVE  TypeInv /\ DamageInv /\ [Next]_vars => DamageInv'
<1> SUFFICES ASSUME TypeInv, DamageInv, [Next]_vars PROVE DamageInv'
  OBVIOUS
<1> USE DEF DamageInv
<1>0. report \in [Counters -> Nat] /\ disk \in [Cards -> File] /\ cur \in Cards
  BY DEF TypeInv, TypeOK
<1>a. ASSUME NEW S, Bump(S)
      PROVE  /\ report["errors"] > 0 => report'["errors"] > 0
             /\ "errors" \in S => report'["errors"] > 0
  BY <1>0, <1>a DEF Bump, Counters
\* A step that leaves the cards and the inventory alone.
<1>b. ASSUME disk' = disk, inventory' = inventory, pc \notin {"off", "idle"},
             pc' \notin {"off", "idle"},
             pc = "rescan" => pc' = "rescan",
             pc \notin {"writing", "sign"},
             report' = report \/ \E S : Bump(S)
      PROVE  DamageInv'
  BY <1>a, <1>b DEF Changed
<1>1. CASE ListRemote \/ ListCutShort \/ ListFails
  BY <1>1, <1>b
     DEF ListRemote, ListCutShort, ListFails, NextItem, local
<1>2. CASE Decide
  BY <1>2, <1>b
     DEF Decide, SkipUnchanged, SkipCurrent, SkipQuiet, SkipConflict,
         UploadNew, UploadConflict, DownloadConflict, SkipWith, BeginUpload,
         Take, AfterDownloadPlanned, local
<1>3. CASE UploadStep
  BY <1>3, <1>b
     DEF UploadStep, Pack, PackFails, PackTakenForConflict,
         ServerAccepts, ReplyLost, ServerRefuses,
         SendFails, FinishUpload, FinishUploadUnrecorded, FinishRefused,
         FinishUnsent, Abandon, NextItem, local
<1>4. CASE BackupOpen \/ BackupRefused \/ BackupDone \/ BackupFails \/ Fetch
             \/ FetchFails \/ RebuildRefused \/ FinishDownload
             \/ FinishDownloadUnrecorded
  BY <1>4, <1>b
     DEF BackupOpen, BackupRefused, BackupDone, BackupFails, Fetch, FetchFails,
         RebuildRefused, FinishDownload, FinishDownloadUnrecorded, Abandon,
         NextItem, local
<1>5. CASE RebuildOpen \/ RebuildDone
  BY <1>0, <1>5 DEF RebuildOpen, RebuildDone, Changed
<1>6. CASE RebuildFails \/ SignFails
  <2>1. report'["errors"] > 0 /\ pc' = "items"
    BY <1>6, <1>a DEF RebuildFails, SignFails, Abandon, NextItem
  <2>2. QED BY <2>1
<1>7. CASE Sign
  <2>1. disk' = [disk EXCEPT ![cur] =
                   [disk[cur] EXCEPT !.signed = TRUE, !.mtime = now]]
    BY <1>7 DEF Sign
  <2>2. disk'[cur].signed /\ \A c \in Cards : c # cur => disk'[c] = disk[c]
    BY <1>0, <2>1 DEF File
  <2>3. QED BY <1>7, <2>2 DEF Sign, Changed
<1>8. CASE EndItems \/ SaveOpen \/ SaveRefused \/ SaveDone \/ SaveFails
  BY <1>8, <1>b
     DEF EndItems, SaveOpen, SaveRefused, SaveDone, SaveFails, local
<1>9. CASE Rescan \/ RescanAtMenu \/ Launch
  BY <1>9, ScanIsTrue DEF Rescan, RescanAtMenu, Launch, local, run
<1>10. CASE Quit
  BY <1>10 DEF Quit
<1>11. CASE Crash
  BY <1>11 DEF Crash
<1>12. CASE StartRunRefused
  BY <1>12 DEF StartRunRefused
<1>13. ASSUME NEW cards \in Selections, StartRun(cards) PROVE DamageInv'
  BY <1>13 DEF StartRun, Changed, local
<1>14. ASSUME NEW c \in Cards, Play(c) \/ Delete(c) PROVE DamageInv'
  BY <1>14 DEF Play, Delete, Unattended, outside, run
<1>15. CASE Tick \/ (\E c \in Cards : OtherUpload(c) \/ ServerDelete(c))
              \/ UNCHANGED vars
  BY <1>15 DEF Tick, OtherUpload, ServerDelete, outside, run, vars, Changed
<1>16. QED
  BY <1>1, <1>2, <1>3, <1>4, <1>5, <1>6, <1>7, <1>8, <1>9, <1>10, <1>11,
     <1>12, <1>13, <1>14, <1>15
     DEF Next, EngineStep, AppStep, WorldStep, DownloadStep, EndStep

\* A pass that leaves a card missing, cut or unsigned has counted an error.
THEOREM DamageIsAlwaysReported ==
  ASSUME ~AwayWhileOpen
  PROVE  Spec => []DamageIsReported
<1>1. Init => DamageInv
  BY DEF Init, DamageInv
<1>2. DamageInv => DamageIsReported
  BY DEF DamageInv, DamageIsReported, Changed
<1>3. TypeInv /\ DamageInv /\ [Next]_vars => DamageInv'
  BY DamageNext
<1>4. QED BY <1>1, <1>2, <1>3, TypeInvariance, PTL DEF Spec

-----------------------------------------------------------------------------
(***************************************************************************)
(* "Unchanged" is sound.  A record that can match a scan is one of an      *)
(* upload, and vouches for the content a card had at a date.  It stays     *)
(* true because every write by the player gives the card a later date than *)
(* any record, every whole content a pass writes is one the server handed  *)
(* out, and a card cut by a pass is dated later than any record that calls *)
(* it cut.  A scan need not be true of the card by the time it is used,    *)
(* but then the card is dated later, or gone.                              *)
(***************************************************************************)
AsScanned(c) ==
  /\ inventory[c].size = SizeOf(disk[c].data)
  /\ inventory[c].timestamp = disk[c].mtime

Outdated(c) ==
  disk[c].data = Absent \/ inventory[c].timestamp < disk[c].mtime

Vouches(c, e) ==
  e # NoItem /\ e.size # "srm" =>
    /\ e.timestamp <= now
    /\ e.size # "vmp" => e.timestamp < now
    /\ e.size = SizeOf(disk[c].data) /\ e.timestamp = disk[c].mtime
         => <<c, disk[c].data>> \in known

RecordsVouch ==
  \A c \in Cards : Vouches(c, entries[c]) /\ Vouches(c, stateFile.entries[c])

NoFutureDate ==
  \A c \in Cards : disk[c].mtime <= now /\ inventory[c].timestamp <= now

\* What is known of the cards still to be treated and of the current one.
ScanHolds ==
  /\ pc = "idle" =>
       \A c \in Cards :
          inventory[c] # NoItem => AsScanned(c) \/ Outdated(c)
  /\ pc \notin {"off", "idle", "rescan"} =>
       \A c \in todo : AsScanned(c) \/ Outdated(c)
  /\ pc \in Transfers => cur \notin todo
  /\ pc \in {"pack", "send", "accepted", "refused", "unsent"} =>
       AsScanned(cur) \/ Outdated(cur)

PayloadIsKnown ==
  /\ pc \in {"send", "accepted"} => disk[cur].data = got
  /\ pc \in {"accepted", "template", "writing"} => <<cur, got>> \in known
  /\ pc = "sign" => <<cur, disk[cur].data>> \in known

RecordInv == RecordsVouch /\ NoFutureDate /\ ScanHolds /\ PayloadIsKnown

\* A step that leaves cards and records alone keeps what they vouch for.
LEMMA SameRecords ==
  ASSUME TypeInv, TypeInv', RecordInv, disk' = disk, entries' = entries,
         stateFile' = stateFile, inventory' = inventory,
         known \subseteq known', now <= now'
  PROVE  RecordsVouch' /\ NoFutureDate'
<1>1. now \in Int /\ now' \in Int
  BY BoundsAssumption DEF TypeInv, TypeOK, Times
<1>2. \A c \in Cards : /\ disk[c].mtime \in Int /\ entries[c].timestamp \in Int
                      /\ stateFile.entries[c].timestamp \in Int
                      /\ inventory[c].timestamp \in Int
  BY BoundsAssumption DEF TypeInv, TypeOK, File, Item, Times
<1>3. QED BY <1>1, <1>2 DEF RecordInv, RecordsVouch, NoFutureDate, Vouches

\* What a scan has just said of the cards holds of them.
LEMMA ScanAgrees ==
  ASSUME inventory' = Scan, disk' = disk
  PROVE  \A c \in Cards : inventory'[c] # NoItem => AsScanned(c)'
BY DEF Scan, AsScanned

\* The records a cut save leaves are blank or were there.
LEMMA CutSaveVouches ==
  ASSUME RecordInv, CutSave, disk' = disk, known' = known, now' = now
  PROVE  \A c \in Cards : Vouches(c, stateFile.entries[c])'
<1>1. ASSUME NEW c \in Cards
      PROVE  stateFile'.entries[c] \in {NoItem, entries[c]}
  BY DEF CutSave, NoEntries
<1>2. QED BY <1>1 DEF RecordInv, RecordsVouch, Vouches, NoItem

LEMMA RecordInit == Init => RecordInv
<1> SUFFICES ASSUME Init PROVE RecordInv
  OBVIOUS
<1>1. \A c \in Cards : entries[c] = NoItem /\ stateFile.entries[c] = NoItem
  BY DEF Init, NoEntries
<1>2. \A c \in Cards : disk[c].mtime = 1 /\ inventory[c].timestamp = 0
  BY DEF Init, NoEntries, NoItem
<1>3. QED
  BY <1>1, <1>2
     DEF Init, RecordInv, RecordsVouch, NoFutureDate, ScanHolds,
         PayloadIsKnown, Vouches, Transfers

LEMMA RecordNext == TypeInv /\ RecordInv /\ [Next]_vars => RecordInv'
<1> SUFFICES ASSUME TypeInv, RecordInv, [Next]_vars PROVE RecordInv'
  OBVIOUS
<1>0. /\ TypeInv' /\ RecordsVouch /\ NoFutureDate /\ ScanHolds /\ PayloadIsKnown
      /\ cur \in Cards /\ disk \in [Cards -> File] /\ todo \subseteq Cards
      /\ entries \in [Cards -> Item] /\ now \in Int
  BY TypeNext, BoundsAssumption DEF RecordInv, TypeInv, TypeOK, Times
<1> DEFINE Still == /\ UNCHANGED <<disk, entries, stateFile, inventory, now>>
                    /\ known \subseteq known'
<1>a. ASSUME Still PROVE RecordsVouch' /\ NoFutureDate'
  BY <1>0, <1>a, SameRecords
<1>b. ASSUME Still, ScanHolds', PayloadIsKnown' PROVE RecordInv'
  BY <1>a, <1>b DEF RecordInv
<1>1. CASE ListRemote \/ ListCutShort \/ ListFails \/ EndItems
  <2>1. Still
    BY <1>1 DEF ListRemote, ListCutShort, ListFails, EndItems, local, passive
  <2>2. ScanHolds' /\ PayloadIsKnown'
    BY <1>0, <1>1
       DEF ListRemote, ListCutShort, ListFails, EndItems, local, NextItem,
           ScanHolds, PayloadIsKnown, AsScanned, Outdated, Transfers
  <2>3. QED BY <1>b, <2>1, <2>2
<1>2. CASE Decide
  <2>1. Still
    BY <1>2
       DEF Decide, SkipUnchanged, SkipCurrent, SkipQuiet, SkipConflict,
           UploadNew, UploadConflict, DownloadConflict, SkipWith, BeginUpload,
           local, passive
  <2>2. PICK c \in todo : /\ todo' = todo \ {c} /\ cur' = c
                          /\ pc' \in {"items", "pack", "backup", "fetch"}
                          /\ pc = "items"
    BY <1>2
       DEF Decide, SkipUnchanged, SkipCurrent, SkipQuiet, SkipConflict,
           UploadNew, UploadConflict, DownloadConflict, SkipWith, BeginUpload,
           AfterDownloadPlanned, Take
  <2>3. ScanHolds' /\ PayloadIsKnown'
    BY <1>0, <2>1, <2>2
       DEF ScanHolds, PayloadIsKnown, AsScanned, Outdated, Transfers
  <2>4. QED BY <1>b, <2>1, <2>3
<1>3. CASE Pack \/ PackFails \/ PackTakenForConflict \/ ServerAccepts
             \/ ReplyLost \/ ServerRefuses
             \/ SendFails \/ FinishUploadUnrecorded \/ FinishRefused
             \/ FinishUnsent
  <2>1. Still /\ UNCHANGED <<todo, cur>>
    BY <1>3
       DEF Pack, PackFails, PackTakenForConflict, ServerAccepts,
           ReplyLost, ServerRefuses, SendFails,
           FinishUploadUnrecorded, FinishRefused, FinishUnsent, local, passive
  <2>2. ScanHolds'
    BY <1>0, <1>3, <2>1
       DEF Pack, PackFails, PackTakenForConflict, ServerAccepts,
           ReplyLost, ServerRefuses, SendFails,
           FinishUploadUnrecorded, FinishRefused, FinishUnsent, Abandon,
           NextItem, ScanHolds, AsScanned, Outdated, Transfers
  <2>3. PayloadIsKnown'
    BY <1>0, <1>3, <2>1
       DEF Pack, PackFails, PackTakenForConflict, ServerAccepts,
           ReplyLost, ServerRefuses, SendFails,
           FinishUploadUnrecorded, FinishRefused, FinishUnsent, Abandon,
           NextItem, PayloadIsKnown
  <2>4. QED BY <1>b, <2>1, <2>2, <2>3
<1>4. CASE FinishUpload
  <2>1. disk[cur].data \in Contents /\ <<cur, disk[cur].data>> \in known
    BY <1>0, <1>4 DEF FinishUpload, PayloadIsKnown, TypeInv, PayloadIsWhole
  <2>2. AsScanned(cur) \/ inventory[cur].timestamp < disk[cur].mtime
    BY <1>0, <1>4, <2>1, DataAssumption DEF FinishUpload, ScanHolds, Outdated
  <2>3. Vouches(cur, inventory[cur])
    <3>1. SizeOf(disk[cur].data) = "vmp" /\ disk[cur].mtime \in Int
      BY <1>0, <2>1, BoundsAssumption DEF SizeOf, File, Times
    <3>2. /\ inventory[cur].timestamp \in Int /\ disk[cur].mtime <= now
          /\ inventory[cur].timestamp <= now
      BY <1>0, BoundsAssumption DEF NoFutureDate, TypeInv, TypeOK, Item, Times
    <3>3. QED BY <1>0, <2>1, <2>2, <3>1, <3>2 DEF Vouches, AsScanned
  <2>4. RecordsVouch'
    BY <1>0, <1>4, <2>3
       DEF FinishUpload, UploadRecord, passive, RecordsVouch, Vouches
  <2>5. QED
    BY <1>0, <1>4, <2>4
       DEF FinishUpload, passive, NextItem, RecordInv, NoFutureDate, ScanHolds,
           PayloadIsKnown, AsScanned, Outdated, Transfers
<1>5. CASE BackupOpen \/ BackupRefused \/ BackupDone \/ BackupFails \/ Fetch
             \/ FetchFails \/ RebuildRefused \/ SignFails
             \/ FinishDownloadUnrecorded
  <2>1. Still /\ UNCHANGED <<todo, cur>>
    BY <1>5
       DEF BackupOpen, BackupRefused, BackupDone, BackupFails, Fetch,
           FetchFails, RebuildRefused, SignFails, FinishDownloadUnrecorded,
           local, passive
  <2>2. ScanHolds'
    BY <1>0, <1>5, <2>1
       DEF BackupOpen, BackupRefused, BackupDone, BackupFails, Fetch,
           FetchFails, RebuildRefused, SignFails, FinishDownloadUnrecorded,
           Abandon, NextItem, ScanHolds, AsScanned, Outdated, Transfers
  <2>3. PayloadIsKnown'
    BY <1>5, <2>1
       DEF BackupOpen, BackupRefused, BackupDone, BackupFails, Fetch,
           FetchFails, RebuildRefused, SignFails, FinishDownloadUnrecorded,
           Abandon, NextItem, PayloadIsKnown
  <2>4. QED BY <1>b, <2>1, <2>2, <2>3
\* The pass writes the current card.
<1>6. ASSUME /\ pc \in {"template", "writing", "sign"}
             /\ pc' \in {"writing", "sign", "finish", "items"}
             /\ UNCHANGED <<entries, stateFile, inventory, now, known, todo,
                            cur>>,
             NEW f \in File, disk' = [disk EXCEPT ![cur] = f],
             f.mtime <= now,
             \/ f.data \in Contents /\ <<cur, f.data>> \in known
             \/ f.data = Torn /\ f.mtime = now
             \/ f.data = Absent /\ f.mtime = 0
      PROVE  RecordsVouch' /\ NoFutureDate' /\ ScanHolds'
  <2>1. disk'[cur] = f /\ \A c \in Cards : c # cur => disk'[c] = disk[c]
    BY <1>0, <1>6
  <2>2. NoFutureDate'
    BY <1>0, <1>6, <2>1 DEF NoFutureDate
  <2>3. RecordsVouch'
    <3>1. ASSUME NEW e \in Item, Vouches(cur, e) PROVE Vouches(cur, e)'
      <4>1. e.timestamp \in Int /\ e \in [size : Sizes, timestamp : Times]
        BY BoundsAssumption DEF Item, Times
      <4>2. SizeOf(f.data) = "none" /\ f.mtime = 0
              => ~(e.size = "none" /\ e.timestamp = 0) \/ e = NoItem
        BY <4>1 DEF NoItem
      <4>3. /\ f.data = Torn => SizeOf(f.data) = "odd"
            /\ f.data = Absent => SizeOf(f.data) = "none"
        BY DataAssumption DEF SizeOf
      <4>4. e # NoItem /\ e.size # "srm" /\ e.size = SizeOf(f.data)
              /\ e.timestamp = f.mtime => <<cur, f.data>> \in known
        BY <1>0, <1>6, <3>1, <4>1, <4>2, <4>3 DEF Vouches
      <4>5. QED BY <1>0, <1>6, <2>1, <3>1, <4>4 DEF Vouches
    <3>2. ASSUME NEW c \in Cards, c # cur, NEW e, Vouches(c, e)
          PROVE  Vouches(c, e)'
      BY <1>0, <1>6, <2>1, <3>2 DEF Vouches
    <3>3. entries[cur] \in Item /\ stateFile.entries[cur] \in Item
      BY <1>0 DEF TypeInv, TypeOK
    <3>4. entries' = entries /\ stateFile' = stateFile
      BY <1>6
    <3>5. \A c \in Cards : Vouches(c, entries[c])'
      <4>1. ASSUME NEW c \in Cards PROVE Vouches(c, entries[c])'
        <5>1. Vouches(c, entries[c])
          BY <1>0 DEF RecordsVouch
        <5>2. CASE c = cur
          BY <1>6, <3>1, <3>3, <3>4, <5>1, <5>2 DEF Vouches
        <5>3. CASE c # cur
          BY <3>2, <3>4, <5>1, <5>3
        <5>4. QED BY <5>2, <5>3
      <4>2. QED BY <4>1
    <3>6. \A c \in Cards : Vouches(c, stateFile.entries[c])'
      <4>1. ASSUME NEW c \in Cards PROVE Vouches(c, stateFile.entries[c])'
        <5>1. Vouches(c, stateFile.entries[c])
          BY <1>0 DEF RecordsVouch
        <5>2. CASE c = cur
          BY <1>6, <3>1, <3>3, <3>4, <5>1, <5>2 DEF Vouches
        <5>3. CASE c # cur
          BY <3>2, <3>4, <5>1, <5>3
        <5>4. QED BY <5>2, <5>3
      <4>2. QED BY <4>1
    <3>7. QED BY <3>5, <3>6 DEF RecordsVouch
  <2>4. ScanHolds'
    BY <1>0, <1>6, <2>1 DEF ScanHolds, AsScanned, Outdated, Transfers
  <2>5. QED BY <2>2, <2>3, <2>4
<1>7. CASE RebuildOpen
  <2> DEFINE f == [data |-> Torn, signed |-> FALSE, mtime |-> now]
  <2>1. f \in File /\ f.mtime <= now /\ f.data = Torn /\ f.mtime = now
    BY <1>0 DEF File, Data, TypeInv, TypeOK
  <2>2. RecordsVouch' /\ NoFutureDate' /\ ScanHolds'
    BY <1>6, <1>7, <2>1 DEF RebuildOpen, passive
  <2>3. PayloadIsKnown'
    BY <1>0, <1>7 DEF RebuildOpen, PayloadIsKnown
  <2>4. QED BY <2>2, <2>3 DEF RecordInv
<1>8. CASE RebuildDone
  <2> DEFINE f == [data |-> got, signed |-> FALSE, mtime |-> now]
  <2>1. /\ f \in File /\ f.mtime <= now
        /\ f.data \in Contents /\ <<cur, f.data>> \in known
    BY <1>0, <1>8
       DEF RebuildDone, File, Data, TypeInv, TypeOK, PayloadIsKnown
  <2>2. RecordsVouch' /\ NoFutureDate' /\ ScanHolds'
    BY <1>6, <1>8, <2>1 DEF RebuildDone, passive
  <2>3. PayloadIsKnown'
    BY <1>0, <1>8, <2>1 DEF RebuildDone, PayloadIsKnown
  <2>4. QED BY <2>2, <2>3 DEF RecordInv
<1>9. CASE RebuildFails
  <2>1. /\ NoFile \in File /\ NoFile.mtime <= now
        /\ NoFile.data = Absent /\ NoFile.mtime = 0
    BY <1>0, BlanksTyped DEF NoFile, TypeInv, TypeOK, Times
  <2>2. RecordsVouch' /\ NoFutureDate' /\ ScanHolds'
    BY <1>6, <1>9, <2>1 DEF RebuildFails, Abandon, NextItem
  <2>3. PayloadIsKnown'
    BY <1>9 DEF RebuildFails, Abandon, NextItem, PayloadIsKnown
  <2>4. QED BY <2>2, <2>3 DEF RecordInv
<1>10. CASE Sign
  <2> DEFINE f == [disk[cur] EXCEPT !.signed = TRUE, !.mtime = now]
  <2>1. /\ f \in File /\ f.mtime <= now
        /\ f.data \in Contents /\ <<cur, f.data>> \in known
    BY <1>0, <1>10 DEF Sign, File, TypeInv, TypeOK, PayloadIsKnown
  <2>2. disk' = [disk EXCEPT ![cur] = f]
    BY <1>10 DEF Sign
  <2>3. RecordsVouch' /\ NoFutureDate' /\ ScanHolds'
    BY <1>6, <1>10, <2>1, <2>2 DEF Sign, passive
  <2>4. PayloadIsKnown'
    BY <1>10 DEF Sign, PayloadIsKnown
  <2>5. QED BY <2>3, <2>4 DEF RecordInv
<1>11. CASE FinishDownload
  <2>1. RecordsVouch'
    BY <1>0, <1>11
       DEF FinishDownload, DownloadRecord, passive, RecordsVouch, Vouches
  <2>2. QED
    BY <1>0, <1>11, <2>1
       DEF FinishDownload, passive, NextItem, RecordInv, NoFutureDate,
           ScanHolds, PayloadIsKnown, AsScanned, Outdated, Transfers
<1>12. CASE SaveOpen \/ SaveRefused \/ SaveDone \/ SaveFails
  <2>1. RecordsVouch'
    <3>1. \A c \in Cards : Vouches(c, entries[c])'
      BY <1>0, <1>12
         DEF SaveOpen, SaveRefused, SaveDone, SaveFails, local, passive,
             RecordsVouch, Vouches
    <3>2. CASE SaveFails
      BY <3>1, <3>2, CutSaveVouches DEF SaveFails, local, RecordsVouch
    <3>3. CASE SaveOpen \/ SaveRefused \/ SaveDone
      <4>1. \A c \in Cards :
              stateFile'.entries[c] \in {NoItem, entries[c], stateFile.entries[c]}
        BY <3>3 DEF SaveOpen, SaveRefused, SaveDone, NoEntries
      <4>2. disk' = disk /\ now' = now /\ known' = known
        BY <3>3 DEF SaveOpen, SaveRefused, SaveDone, local, passive
      <4>3. QED BY <1>0, <3>1, <4>1, <4>2 DEF RecordsVouch, Vouches
    <3>4. QED BY <1>12, <3>2, <3>3
  <2>2. QED
    BY <1>0, <1>12, <2>1
       DEF SaveOpen, SaveRefused, SaveDone, SaveFails, local, passive,
           RecordInv, NoFutureDate, ScanHolds, PayloadIsKnown, AsScanned, Outdated,
           Transfers
<1>13. CASE Rescan \/ RescanAtMenu \/ Launch \/ Quit
  <2>1. /\ disk' = disk /\ now' = now /\ stateFile' = stateFile
        /\ known' = known /\ entries' \in {entries, NoEntries}
        /\ pc' \in {"idle", "off"}
    BY <1>13 DEF Rescan, RescanAtMenu, Launch, Quit, Forget, local, passive, run
  <2>2. RecordsVouch'
    BY <1>0, <2>1 DEF RecordsVouch, Vouches, NoEntries, NoItem
  <2>3. pc' = "idle" => inventory' = Scan
    BY <1>13 DEF Rescan, RescanAtMenu, Launch, Quit
  <2>4. ScanHolds' /\ PayloadIsKnown'
    BY <2>1, <2>3, ScanAgrees DEF ScanHolds, PayloadIsKnown, Transfers
  <2>5. inventory' \in {inventory, Scan}
    BY <1>13 DEF Rescan, RescanAtMenu, Launch, Quit
  <2>6. NoFutureDate'
    BY <1>0, <2>1, <2>5 DEF NoFutureDate, Scan, NoItem, TypeInv, TypeOK, Times
  <2>7. QED BY <2>2, <2>4, <2>6 DEF RecordInv
<1>14. CASE Crash
  <2>1. RecordsVouch'
    <3>1. \A c \in Cards : Vouches(c, stateFile.entries[c])'
      BY <1>0, <1>14, CutSaveVouches DEF Crash, RecordsVouch, Vouches
    <3>2. QED BY <1>14, <3>1 DEF Crash, Forget, RecordsVouch, Vouches, NoEntries, NoItem
  <2>2. \A c \in Cards : inventory'[c].timestamp = 0 /\ 0 <= now
    BY <1>0, <1>14 DEF Crash, NoEntries, NoItem, TypeInv, TypeOK, Times
  <2>3. QED
    BY <1>0, <1>14, <2>1, <2>2
       DEF Crash, RecordInv, NoFutureDate, ScanHolds, PayloadIsKnown, Transfers
\* The clock goes on.
<1>15. CASE StartRunRefused \/ (\E cards \in Selections : StartRun(cards)) \/ Tick
  <2>1. now <= now' /\ now' \in Int
    BY <1>0, <1>15, BoundsAssumption
       DEF StartRunRefused, StartRun, Tick, Later, TypeInv, TypeOK, Times
  <2>2. CASE StartRunRefused \/ Tick
    <3>1. UNCHANGED <<disk, entries, stateFile, inventory, known, todo, cur, got>>
      BY <2>2 DEF StartRunRefused, Tick, local, outside, run
    <3>2. RecordsVouch' /\ NoFutureDate'
      BY <1>0, <2>1, <3>1, SameRecords
    <3>3. ScanHolds' /\ PayloadIsKnown'
      BY <1>0, <2>2, <3>1
         DEF StartRunRefused, Tick, outside, run, ScanHolds, PayloadIsKnown,
             AsScanned, Outdated, Transfers
    <3>4. QED BY <3>2, <3>3 DEF RecordInv
  <2>3. ASSUME NEW cards \in Selections, StartRun(cards) PROVE RecordInv'
    <3>1. UNCHANGED <<disk, stateFile, inventory, known>> /\ entries' = stateFile.entries
      BY <2>3 DEF StartRun, local
    <3>2. RecordsVouch' /\ NoFutureDate'
      <4>1. \A c \in Cards : disk[c].mtime \in Int
                            /\ stateFile.entries[c].timestamp \in Int
                            /\ inventory[c].timestamp \in Int
        BY BoundsAssumption DEF TypeInv, TypeOK, File, Item, Times
      <4>2. QED
        BY <1>0, <2>1, <3>1, <4>1 DEF RecordsVouch, NoFutureDate, Vouches
    <3>3. ScanHolds' /\ PayloadIsKnown'
      BY <1>0, <2>3, <3>1, NamingAssumption
         DEF StartRun, ScanHolds, PayloadIsKnown, AsScanned, Outdated, Transfers
    <3>4. QED BY <3>2, <3>3 DEF RecordInv
  <2>4. QED BY <1>15, <2>2, <2>3
\* The player writes or deletes a card while the application is closed
\* or at its menu.
<1>16. ASSUME NEW c \in Cards, Play(c) \/ Delete(c) PROVE RecordInv'
  <2>1. /\ UNCHANGED <<stateFile, entries, inventory, pc, known>>
        /\ pc \in {"off", "idle"}
    BY <1>16 DEF Play, Delete, Unattended, outside, run
  <2>2. CASE Play(c)
    <3>1. PICK k \in Contents :
            disk' = [disk EXCEPT ![c] =
                       [data |-> k, signed |-> TRUE, mtime |-> now + 1]]
      BY <2>2 DEF Play
    <3>2. now' = now + 1 /\ disk'[c].mtime = now + 1
      BY <1>0, <2>2, <3>1 DEF Play
    <3>3. \A d \in Cards : d # c => disk'[d] = disk[d]
      BY <1>0, <3>1
    <3>4. \A d \in Cards : /\ disk[d].mtime \in Int
                          /\ entries[d].timestamp \in Int
                          /\ stateFile.entries[d].timestamp \in Int
                          /\ inventory[d].timestamp \in Int
      BY BoundsAssumption DEF TypeInv, TypeOK, File, Item, Times
    <3>5. RecordsVouch'
      <4>1. ASSUME NEW e, e \in {entries[c], stateFile.entries[c]}, Vouches(c, e)
            PROVE  Vouches(c, e)'
        BY <1>0, <2>1, <3>2, <3>4, <4>1 DEF Vouches
      <4>2. ASSUME NEW d \in Cards, d # c,
                   NEW e, e \in {entries[d], stateFile.entries[d]}, Vouches(d, e)
            PROVE  Vouches(d, e)'
        BY <1>0, <2>1, <3>2, <3>3, <3>4, <4>2 DEF Vouches
      <4>3. QED BY <1>0, <2>1, <4>1, <4>2 DEF RecordsVouch
    <3>6. NoFutureDate'
      BY <1>0, <2>1, <3>2, <3>3, <3>4 DEF NoFutureDate
    <3>7. Outdated(c)'
      BY <1>0, <2>1, <3>2, <3>4 DEF Outdated, NoFutureDate
    <3>8. ScanHolds'
      BY <1>0, <2>1, <3>3, <3>7 DEF ScanHolds, AsScanned, Outdated, Transfers
    <3>9. QED BY <2>1, <3>5, <3>6, <3>8 DEF RecordInv, PayloadIsKnown
  <2>3. CASE Delete(c)
    <3>1. disk'[c] = NoFile /\ now' = now
            /\ \A d \in Cards : d # c => disk'[d] = disk[d]
      BY <1>0, <2>3 DEF Delete
    <3>2. /\ NoFile.mtime = 0 /\ NoFile.data = Absent /\ 0 <= now
          /\ SizeOf(Absent) = "none"
      BY DataAssumption DEF NoFile, SizeOf, TypeInv, TypeOK, Times
    <3>3. NoFutureDate'
      BY <1>0, <2>1, <3>1, <3>2 DEF NoFutureDate
    <3>4. \A e \in Item : e.size = "none" /\ e.timestamp = 0 => e = NoItem
      BY DEF Item, NoItem
    <3>5. RecordsVouch'
      <4>1. ASSUME NEW e \in Item, Vouches(c, e) PROVE Vouches(c, e)'
        BY <2>1, <3>1, <3>2, <3>4, <4>1 DEF Vouches
      <4>2. ASSUME NEW d \in Cards, d # c, NEW e, Vouches(d, e)
            PROVE  Vouches(d, e)'
        BY <2>1, <3>1, <4>2 DEF Vouches
      <4>3. /\ entries \in [Cards -> Item]
            /\ stateFile.entries \in [Cards -> Item]
        BY DEF TypeInv, TypeOK
      <4>4. \A d \in Cards :
              Vouches(d, entries[d])' /\ Vouches(d, stateFile.entries[d])'
        <5>1. ASSUME NEW d \in Cards
              PROVE  Vouches(d, entries[d])' /\ Vouches(d, stateFile.entries[d])'
          <6>1. Vouches(d, entries[d]) /\ Vouches(d, stateFile.entries[d])
            BY <1>0 DEF RecordsVouch
          <6>2. entries' = entries /\ stateFile' = stateFile
            BY <2>1
          <6>3. CASE d = c
            BY <4>1, <4>3, <6>1, <6>2, <6>3
          <6>4. CASE d # c
            BY <4>2, <6>1, <6>2, <6>4
          <6>5. QED BY <6>3, <6>4
        <5>2. QED BY <5>1
      <4>5. QED BY <4>4 DEF RecordsVouch
    <3>6. ScanHolds'
      BY <1>0, <2>1, <3>1, <3>2 DEF ScanHolds, AsScanned, Outdated, Transfers
    <3>7. QED BY <2>1, <3>3, <3>5, <3>6 DEF RecordInv, PayloadIsKnown
  <2>4. QED BY <1>16, <2>2, <2>3
<1>17. CASE (\E c \in Cards : OtherUpload(c) \/ ServerDelete(c)) \/ UNCHANGED vars
  <2>1. Still /\ UNCHANGED <<todo, cur, pc, got, known>>
    BY <1>17 DEF OtherUpload, ServerDelete, outside, run, vars
  <2>2. ScanHolds' /\ PayloadIsKnown'
    BY <1>0, <2>1 DEF ScanHolds, PayloadIsKnown, AsScanned, Outdated
  <2>3. QED BY <1>b, <2>1, <2>2
<1>18. QED
  BY <1>1, <1>2, <1>3, <1>4, <1>5, <1>7, <1>8, <1>9, <1>10, <1>11, <1>12,
     <1>13, <1>14, <1>15, <1>16, <1>17
     DEF Next, EngineStep, AppStep, WorldStep, UploadStep, DownloadStep, EndStep

(***************************************************************************)
(* A card that has not changed since the scan is skipped as unchanged only *)
(* if the server has had what it holds, over any number of passes, crashes,*)
(* cut state files, lost replies and cards rewritten under the open menu.  *)
(***************************************************************************)
THEOREM UnchangedIsSound == Spec => []SkipUnchangedIsSound
<1>1. TypeInv /\ RecordInv => SkipUnchangedIsSound
  <2> SUFFICES ASSUME TypeInv, RecordInv, NEW c \in todo, pc = "items",
                      SameAsRecorded(c), StillAsScanned(c)
               PROVE  <<c, disk[c].data>> \in known
    BY DEF SkipUnchangedIsSound
  <2>1. c \in Cards /\ Vouches(c, entries[c])
    BY DEF RecordInv, RecordsVouch, TypeInv, TypeOK
  <2>2. entries[c] # NoItem /\ inventory[c] = entries[c]
    BY <2>1 DEF SameAsRecorded, TypeInv, TypeOK, Item
  <2>3. /\ entries[c].size = SizeOf(disk[c].data)
        /\ entries[c].timestamp = disk[c].mtime
    BY <2>1, <2>2 DEF StillAsScanned, Scan
  <2>4. entries[c].size # "srm"
    BY <2>3 DEF SizeOf
  <2>5. QED BY <2>1, <2>2, <2>3, <2>4 DEF Vouches
<1>2. QED BY <1>1, RecordInit, RecordNext, TypeInvariance, PTL DEF Spec

-----------------------------------------------------------------------------
(***************************************************************************)
(* Termination.  StepsLeft bounds the steps a pass still takes: at most    *)
(* ten for each card it has not taken, and what remains of the card at     *)
(* hand and of the end of the pass.                                        *)
(***************************************************************************)
Rank(step) ==
  CASE step \in Resting -> 0
    [] step = "rescan" -> 1
    [] step = "saving" -> 2
    [] step = "save" -> 3
    [] step = "items" -> 4
    [] step \in {"accepted", "refused", "unsent", "finish"} -> 5
    [] step \in {"send", "sign"} -> 6
    [] step \in {"pack", "writing"} -> 7
    [] step = "template" -> 8
    [] step = "fetch" -> 9
    [] step = "copying" -> 10
    [] step = "backup" -> 11
    [] step = "list" -> 12

StepsLeft == 10 * Cardinality(todo) + Rank(pc)

\* Only a pass has cards to take.
TodoIsOfThePass == pc \in Resting => todo = {}

\* Every step of the engine brings the pass closer to its end, and nothing
\* else that happens during it, here or on the server, sets it back.
PassAdvances ==
  [][/\ EngineStep => StepsLeft' < StepsLeft
     /\ pc \notin Resting => StepsLeft' <= StepsLeft]_vars

\* A pass takes at most 10 steps per card and 12 more, and the application
\* rests exactly when none is left.
PassIsBounded ==
  /\ StepsLeft \in 0..(10 * Cardinality(Cards) + 12)
  /\ StepsLeft = 0 <=> pc \in Resting

\* Below the cards, the count is of natural numbers.
LEMMA TodoCounted ==
  ASSUME TypeOK
  PROVE  /\ IsFiniteSet(todo)
         /\ Cardinality(todo) \in Nat
         /\ Cardinality(Cards) \in Nat
         /\ Cardinality(todo) <= Cardinality(Cards)
<1>1. todo \in SUBSET Cards
  BY DEF TypeOK
<1>2. QED BY <1>1, CardsAssumption, FS_Subset, FS_CardinalityType

\* The rank of a step the application can be at.
LEMMA Ranked ==
  ASSUME NEW step \in Resting \cup Steps
  PROVE  Rank(step) \in 0..12 /\ (Rank(step) = 0 <=> step \in Resting)
<1>1. CASE step \in Resting
  <2>1. Rank(step) = 0
    BY <1>1 DEF Rank, Resting
  <2>2. QED BY <1>1, <2>1
<1>2. CASE step \in Steps
  <2>1. Rank(step) \in 1..12
    BY <1>2 DEF Rank, Steps, Resting
  <2>2. step \notin Resting
    BY <1>2 DEF Steps, Resting
  <2>3. QED BY <2>1, <2>2
<1>3. QED BY <1>1, <1>2

\* Taking a card pays for all that can be done with it.
LEMMA TakingCounts ==
  ASSUME TypeOK, NEW c \in Cards, Take(c),
         pc' \in {"items", "pack", "fetch", "backup"}
  PROVE  StepsLeft' < StepsLeft
<1>1. pc = "items" /\ c \in todo /\ todo' = todo \ {c}
  BY DEF Take
<1>2. Cardinality(todo') = Cardinality(todo) - 1
  BY <1>1, TodoCounted, FS_RemoveElement
<1>3. Rank(pc) = 4
  BY <1>1 DEF Rank, Resting
<1>4. Rank(pc') \in 0..11
  BY DEF Rank, Resting
<1>5. QED BY <1>2, <1>3, <1>4, TodoCounted DEF StepsLeft

\* A step that takes no card only has to go down in rank.
LEMMA RankCounts ==
  ASSUME TypeOK, TypeOK', UNCHANGED todo, Rank(pc') < Rank(pc)
  PROVE  StepsLeft' < StepsLeft
BY TodoCounted, Ranked, SMTT(20) DEF StepsLeft, TypeOK

LEMMA EngineStepCounts ==
  ASSUME TypeOK, TypeOK', EngineStep
  PROVE  StepsLeft' < StepsLeft
<1>1. CASE Decide
  <2>1. PICK c \in Cards :
           \/ SkipUnchanged(c) \/ SkipCurrent(c) \/ SkipQuiet(c)
           \/ SkipConflict(c) \/ UploadNew(c) \/ UploadConflict(c)
           \/ DownloadConflict(c)
    BY <1>1 DEF Decide
  <2>2. Take(c) /\ pc' \in {"items", "pack", "fetch", "backup"}
    BY <2>1
       DEF SkipUnchanged, SkipCurrent, SkipQuiet, SkipConflict, UploadNew,
           UploadConflict, DownloadConflict, SkipWith, BeginUpload, Take,
           AfterDownloadPlanned
  <2>3. QED BY <2>2, TakingCounts
<1>2. CASE UploadStep
  <2>1. /\ UNCHANGED todo
        /\ \/ pc = "pack" /\ pc' \in {"send", "items"}
           \/ pc = "send" /\ pc' \in {"accepted", "refused", "unsent"}
           \/ pc \in {"accepted", "refused", "unsent"} /\ pc' = "items"
    BY <1>2
       DEF UploadStep, Pack, PackFails, PackTakenForConflict,
           ServerAccepts, ReplyLost,
           ServerRefuses, SendFails, FinishUpload, FinishUploadUnrecorded,
           FinishRefused, FinishUnsent, Abandon, NextItem
  <2>2. Rank(pc') < Rank(pc)
    BY <2>1 DEF Rank, Resting
  <2>3. QED BY <2>1, <2>2, RankCounts
<1>3. CASE DownloadStep
  <2>1. /\ UNCHANGED todo
        /\ \/ pc = "backup" /\ pc' \in {"copying", "items"}
           \/ pc = "copying" /\ pc' \in {"fetch", "items"}
           \/ pc = "fetch" /\ pc' \in {"template", "items"}
           \/ pc = "template" /\ pc' \in {"writing", "items"}
           \/ pc = "writing" /\ pc' \in {"sign", "items"}
           \/ pc = "sign" /\ pc' \in {"finish", "items"}
           \/ pc = "finish" /\ pc' = "items"
    BY <1>3
       DEF DownloadStep, BackupOpen, BackupRefused, BackupDone, BackupFails,
           Fetch, FetchFails, RebuildOpen, RebuildRefused, RebuildDone,
           RebuildFails, Sign, SignFails, FinishDownload,
           FinishDownloadUnrecorded, Abandon, NextItem
  <2>2. Rank(pc') < Rank(pc)
    BY <2>1 DEF Rank, Resting
  <2>3. QED BY <2>1, <2>2, RankCounts
<1>4. CASE ListRemote \/ ListCutShort \/ EndItems \/ SaveOpen \/ SaveRefused
             \/ SaveDone \/ SaveFails
  <2>1. /\ UNCHANGED todo
        /\ \/ pc = "list" /\ pc' = "items"
           \/ pc = "items" /\ pc' \in {"rescan", "save"}
           \/ pc = "save" /\ pc' \in {"saving", "rescan"}
           \/ pc = "saving" /\ pc' = "rescan"
    BY <1>4
       DEF ListRemote, ListCutShort, EndItems, SaveOpen, SaveRefused,
           SaveDone, SaveFails, NextItem
  <2>2. Rank(pc') < Rank(pc)
    BY <2>1 DEF Rank, Resting
  <2>3. QED BY <2>1, <2>2, RankCounts
<1>5. CASE ListFails \/ Rescan
  <2>1. /\ todo' = {}
        /\ \/ pc = "list" /\ pc' = "rescan"
           \/ pc = "rescan" /\ pc' = "idle"
    BY <1>5 DEF ListFails, Rescan, Forget
  <2>2. Rank(pc') < Rank(pc) /\ Rank(pc') \in Int /\ Rank(pc) \in Int
    BY <2>1 DEF Rank, Resting
  <2>3. Cardinality(todo') = 0
    BY <2>1, FS_EmptySet
  <2>4. QED BY <2>2, <2>3, TodoCounted DEF StepsLeft
<1>6. QED BY <1>1, <1>2, <1>3, <1>4, <1>5 DEF EngineStep, EndStep

\* What else happens during a pass leaves its work alone or ends it.
LEMMA OthersDoNotAdd ==
  ASSUME TypeOK, TypeOK', pc \notin Resting,
         AppStep \/ WorldStep \/ UNCHANGED vars
  PROVE  StepsLeft' <= StepsLeft
<1>1. CASE AppStep
  <2>1. Crash
    BY <1>1 DEF AppStep, Launch, Quit, StartRunRefused, RescanAtMenu, StartRun,
                Resting
  <2>2. todo' = {} /\ pc' = "off"
    BY <2>1 DEF Crash, Forget
  <2>3. Cardinality(todo') = 0 /\ Rank(pc') = 0
    BY <2>2, FS_EmptySet DEF Rank, Resting
  <2>4. QED BY <2>3, TodoCounted, Ranked, SMTT(20) DEF StepsLeft, TypeOK
<1>2. CASE WorldStep \/ UNCHANGED vars
  <2>1. UNCHANGED <<todo, pc>>
    BY <1>2 DEF WorldStep, Tick, Play, Delete, OtherUpload, ServerDelete,
                outside, run, vars
  <2>2. QED BY <2>1, TodoCounted, Ranked DEF StepsLeft, TypeOK
<1>3. QED BY <1>1, <1>2

LEMMA TodoNext == TodoIsOfThePass /\ [Next]_vars => TodoIsOfThePass'
<1> SUFFICES ASSUME TodoIsOfThePass, [Next]_vars PROVE TodoIsOfThePass'
  OBVIOUS
<1> USE DEF TodoIsOfThePass, Resting
<1>1. CASE Decide
  BY <1>1
     DEF Decide, SkipUnchanged, SkipCurrent, SkipQuiet, SkipConflict,
         UploadNew, UploadConflict, DownloadConflict, SkipWith, BeginUpload,
         Take, AfterDownloadPlanned
<1>2. CASE UploadStep
  BY <1>2
     DEF UploadStep, Pack, PackFails, PackTakenForConflict,
         ServerAccepts, ReplyLost, ServerRefuses,
         SendFails, FinishUpload, FinishUploadUnrecorded, FinishRefused,
         FinishUnsent, Abandon, NextItem
<1>3. CASE DownloadStep
  BY <1>3
     DEF DownloadStep, BackupOpen, BackupRefused, BackupDone, BackupFails,
         Fetch, FetchFails, RebuildOpen, RebuildRefused, RebuildDone,
         RebuildFails, Sign, SignFails, FinishDownload,
         FinishDownloadUnrecorded, Abandon, NextItem
<1>4. CASE ListRemote \/ ListCutShort \/ ListFails \/ EndStep
  BY <1>4
     DEF ListRemote, ListCutShort, ListFails, NextItem, EndStep, EndItems,
         SaveOpen, SaveRefused, SaveDone, SaveFails, Rescan, Forget
<1>5. CASE AppStep
  BY <1>5
     DEF AppStep, Launch, Quit, Crash, StartRunRefused, RescanAtMenu, StartRun,
         Forget, run
<1>6. CASE WorldStep \/ UNCHANGED vars
  BY <1>6 DEF WorldStep, Tick, Play, Delete, OtherUpload, ServerDelete,
              outside, run, vars
<1>7. QED
  BY <1>1, <1>2, <1>3, <1>4, <1>5, <1>6 DEF Next, EngineStep

(***************************************************************************)
(* The safety half of PassEnds, for any number of cards: a pass runs down  *)
(* a count that only it changes and that nothing restarts.                 *)
(***************************************************************************)
THEOREM PassAlwaysAdvances == Spec => PassAdvances
<1>1. ASSUME TypeInv, TypeInv', [Next]_vars
      PROVE  /\ EngineStep => StepsLeft' < StepsLeft
             /\ pc \notin Resting => StepsLeft' <= StepsLeft
  <2>1. TypeOK /\ TypeOK'
    BY <1>1 DEF TypeInv
  <2>2. EngineStep => StepsLeft' < StepsLeft
    BY <2>1, EngineStepCounts
  <2>3. StepsLeft \in Int
    BY <2>1, TodoCounted, Ranked DEF StepsLeft, TypeOK
  <2>4. StepsLeft' \in Int
    <3>1. todo' \in SUBSET Cards /\ pc' \in Resting \cup Steps
      BY <2>1 DEF TypeOK
    <3>2. Cardinality(todo') \in Nat
      BY <3>1, CardsAssumption, FS_Subset, FS_CardinalityType
    <3>3. Rank(pc') \in Int
      BY <3>1, Ranked
    <3>4. QED BY <3>2, <3>3 DEF StepsLeft
  <2>5. QED BY <1>1, <2>1, <2>2, <2>3, <2>4, OthersDoNotAdd DEF Next
<1>2. QED BY <1>1, TypeInvariance, PTL DEF Spec, PassAdvances

\* The count starts at most at 10 steps per card and 12 more.
THEOREM PassIsAlwaysBounded == Spec => []PassIsBounded
<1>1. Init => TodoIsOfThePass
  BY DEF Init, TodoIsOfThePass
<1>2. TypeInv /\ TodoIsOfThePass => PassIsBounded
  <2> SUFFICES ASSUME TypeOK, TodoIsOfThePass PROVE PassIsBounded
    BY DEF TypeInv
  <2>1. /\ Rank(pc) \in 0..12
        /\ Rank(pc) = 0 <=> pc \in Resting
    BY Ranked DEF TypeOK
  <2>2. pc \in Resting => Cardinality(todo) = 0
    BY FS_EmptySet DEF TodoIsOfThePass
  <2>3. QED BY <2>1, <2>2, TodoCounted DEF PassIsBounded, StepsLeft
<1>3. QED BY <1>1, <1>2, TodoNext, TypeInvariance, PTL DEF Spec

-----------------------------------------------------------------------------
(***************************************************************************)
(* The engine uses the state file as a ledger of transfers with one record *)
(* for each card: the ledger that the array and its file implement (module *)
(* StateStore).                                                            *)
(***************************************************************************)
InSession == pc \notin Resting \cup {"rescan"}

RecordsOf(es) == {<<c, es[c]>> : c \in {d \in Cards : es[d] # NoItem}}

Kept == IF InSession THEN RecordsOf(entries) ELSE {}
Filed == RecordsOf(stateFile.entries)
Session ==
  IF pc = "saving" THEN "filing" ELSE IF InSession THEN "open" ELSE "closed"

Ledger == INSTANCE TransferLedger
            WITH Keys <- Cards,
                 Records <- Item \ {NoItem},
                 Vague <- {},
                 SameFile <- [c \in Cards |-> {c}],
                 Capacity <- Cardinality(Cards),
                 session <- Session,
                 kept <- Kept,
                 filed <- Filed,
                 readable <- stateFile.ok

LedgerSpec == Ledger!Spec

\* Only cards the scan found are treated, and an unreadable file has nothing.
ScannedOnly ==
  /\ InSession => \A c \in todo : inventory[c] # NoItem
  /\ pc \in Transfers => inventory[cur] # NoItem
  /\ ~stateFile.ok => stateFile.entries = NoEntries

LEMMA ScannedNext ==
  ASSUME TypeOK, ScannedOnly, [Next]_vars
  PROVE  ScannedOnly'
<1> USE DEF ScannedOnly, InSession, Resting, Transfers, local, passive, run,
            outside
<1>1. CASE Launch \/ Quit \/ RescanAtMenu \/ StartRunRefused
  BY <1>1 DEF Launch, Quit, RescanAtMenu, StartRunRefused
<1>2. ASSUME NEW cards \in Selections, StartRun(cards) PROVE ScannedOnly'
  BY <1>2 DEF StartRun
<1>3. CASE ListRemote \/ ListCutShort \/ ListFails
  BY <1>3 DEF ListRemote, ListCutShort, ListFails, NextItem
<1>4. CASE Decide
  <2>1. PICK c \in Cards :
           \/ SkipUnchanged(c) \/ SkipCurrent(c) \/ SkipQuiet(c)
           \/ SkipConflict(c) \/ UploadNew(c) \/ UploadConflict(c)
           \/ DownloadConflict(c)
    BY <1>4 DEF Decide
  <2>2. /\ Take(c)
        /\ UNCHANGED <<inventory, stateFile>>
    BY <2>1
       DEF SkipUnchanged, SkipCurrent, SkipQuiet, SkipConflict, UploadNew,
           UploadConflict, DownloadConflict, SkipWith, BeginUpload
  <2>3. QED BY <2>2 DEF Take
<1>5. CASE UploadStep
  <2>1. UNCHANGED <<inventory, stateFile, todo, cur>> /\ pc \in Transfers
    BY <1>5
       DEF UploadStep, Pack, PackFails, PackTakenForConflict,
           ServerAccepts, ReplyLost,
           ServerRefuses, SendFails, FinishUpload, FinishUploadUnrecorded,
           FinishRefused, FinishUnsent
  <2>2. QED BY <2>1
<1>6. CASE DownloadStep
  <2>1. UNCHANGED <<inventory, stateFile, todo, cur>> /\ pc \in Transfers
    BY <1>6
       DEF DownloadStep, BackupOpen, BackupRefused, BackupDone, BackupFails,
           Fetch, FetchFails, RebuildOpen, RebuildRefused, RebuildDone,
           RebuildFails, Sign, SignFails, FinishDownload,
           FinishDownloadUnrecorded
  <2>2. QED BY <2>1
<1>7. ASSUME CutSave PROVE ~stateFile'.ok => stateFile'.entries = NoEntries
  BY <1>7 DEF CutSave
<1>8. CASE EndStep
  BY <1>7, <1>8
     DEF EndStep, EndItems, SaveOpen, SaveRefused, SaveDone, SaveFails, Rescan
<1>9. CASE Crash
  BY <1>7, <1>9 DEF Crash
<1>10. CASE WorldStep \/ UNCHANGED vars
  BY <1>10 DEF WorldStep, Tick, Play, Delete, OtherUpload, ServerDelete, vars
<1>11. QED
  BY <1>1, <1>2, <1>3, <1>4, <1>5, <1>6, <1>8, <1>9, <1>10
     DEF Next, EngineStep, AppStep

LEMMA NoRecords == RecordsOf(NoEntries) = {}
BY DEF RecordsOf, NoEntries

\* A cut save keeps some of the records or none.
LEMMA CutSaveKeepsSome ==
  ASSUME CutSave
  PROVE  \/ stateFile'.ok = TRUE /\ Filed' \in SUBSET RecordsOf(entries)
         \/ stateFile'.ok = FALSE /\ Filed' = {}
<1>1. ASSUME NEW kept \in SUBSET Cards,
             stateFile' = [ok |-> TRUE,
                           entries |-> [c \in Cards |-> IF c \in kept
                                                       THEN entries[c]
                                                       ELSE NoItem]]
      PROVE  stateFile'.ok = TRUE /\ Filed' \in SUBSET RecordsOf(entries)
  BY <1>1 DEF Filed, RecordsOf
<1>2. CASE stateFile' = [ok |-> FALSE, entries |-> NoEntries]
  BY <1>2, NoRecords DEF Filed
<1>3. QED BY <1>1, <1>2 DEF CutSave

\* A card without a record leaves room for one.
LEMMA RoomForOne ==
  ASSUME NEW c \in Cards, entries[c] = NoItem
  PROVE  Cardinality(RecordsOf(entries)) < Cardinality(Cards)
<1> DEFINE D == {d \in Cards : entries[d] # NoItem}
           f == [d \in D |-> <<d, entries[d]>>]
<1>1. IsFiniteSet(D) /\ Cardinality(D) < Cardinality(Cards)
  <2>1. D \in SUBSET Cards /\ D # Cards
    OBVIOUS
  <2> HIDE DEF D
  <2>2. IsFiniteSet(D) /\ Cardinality(D) <= Cardinality(Cards)
        /\ Cardinality(D) # Cardinality(Cards)
    BY <2>1, CardsAssumption, FS_Subset
  <2>3. Cardinality(D) \in Nat /\ Cardinality(Cards) \in Nat
    BY <2>2, CardsAssumption, FS_CardinalityType
  <2>4. QED BY <2>2, <2>3
<1>2. f \in Bijection(D, RecordsOf(entries))
  <2>1. /\ f \in [D -> RecordsOf(entries)]
        /\ \A d, e \in D : f[d] = f[e] => d = e
        /\ \A p \in RecordsOf(entries) : \E d \in D : f[d] = p
    BY DEF RecordsOf
  <2> HIDE DEF f, D
  <2>2. QED BY <2>1 DEF Bijection, Injection, IsInjective, Surjection
<1>3. ExistsBijection(D, RecordsOf(entries))
  BY <1>2 DEF ExistsBijection
<1>4. QED BY <1>1, <1>3, FS_Bijection

\* Recording the transfer of the current card is a step of the ledger.
LEMMA RecordStep ==
  ASSUME TypeOK, TypeOK', NEW r \in Item \ {NoItem},
         entries' = [entries EXCEPT ![cur] = r],
         InSession, InSession', pc # "saving", pc' # "saving",
         UNCHANGED stateFile
  PROVE  Ledger!Next
<1>1. cur \in Cards /\ entries \in [Cards -> Item]
  BY DEF TypeOK
<1>2. Kept = RecordsOf(entries) /\ Kept' = RecordsOf(entries')
  BY DEF Kept
<1>3. Session = "open" /\ Session' = "open" /\ Filed' = Filed
  BY DEF Session, Filed
<1>4. Ledger!Displaced(cur) = {p \in Kept : p[1] = cur}
  BY DEF Ledger!Displaced, Ledger!Of
<1>5. CASE entries[cur] # NoItem
  <2> DEFINE p == <<cur, entries[cur]>>
  <2>1. p \in Ledger!Displaced(cur)
    BY <1>1, <1>2, <1>4, <1>5 DEF RecordsOf
  <2>2. Kept' = (Kept \ {p}) \cup {<<cur, r>>}
    BY <1>1, <1>2 DEF RecordsOf
  <2>3. Ledger!Record(cur, r)
    BY <1>3, <2>1, <2>2 DEF Ledger!Record
  <2>4. QED BY <1>1, <2>3 DEF Ledger!Next
<1>6. CASE entries[cur] = NoItem
  <2>1. Ledger!Displaced(cur) = {}
    BY <1>2, <1>4, <1>6 DEF RecordsOf
  <2>2. Kept' = Kept \cup {<<cur, r>>}
    BY <1>1, <1>2, <1>6 DEF RecordsOf
  <2>3. Ledger!Cardinality(Kept) = Cardinality(Kept)
    BY DEF Ledger!Cardinality, Cardinality
  <2>4. Cardinality(Kept) < Cardinality(Cards)
    BY <1>1, <1>2, <1>6, RoomForOne
  <2>5. Ledger!Record(cur, r)
    BY <1>3, <2>1, <2>2, <2>3, <2>4 DEF Ledger!Record
  <2>6. QED BY <1>1, <2>5 DEF Ledger!Next
<1>7. QED BY <1>5, <1>6

LEMMA EngineLedgerInit == Init => Ledger!Init
<1> SUFFICES ASSUME Init PROVE Ledger!Init
  OBVIOUS
<1>1. Session = "closed" /\ Kept = {} /\ Filed = {} /\ stateFile.ok = TRUE
  BY NoRecords DEF Init, Session, Kept, Filed, InSession, Resting
<1>2. QED BY <1>1 DEF Ledger!Init

LEMMA EngineLedgerNext ==
  ASSUME TypeInv, TypeInv', ScannedOnly, [Next]_vars
  PROVE  [Ledger!Next]_(Ledger!vars)
<1> USE DEF local, passive, run, outside
<1>0. TypeOK /\ TypeOK'
  BY DEF TypeInv
<1>1. ASSUME UNCHANGED <<InSession, pc = "saving", stateFile>>,
             entries' = entries \/ ~InSession
      PROVE  UNCHANGED Ledger!vars
  BY <1>1 DEF Ledger!vars, Kept, Filed, Session
<1>2. ASSUME InSession, pc # "saving", ~InSession', pc' # "saving",
             UNCHANGED stateFile
      PROVE  Ledger!Next
  <2>1. Ledger!Drop
    BY <1>2 DEF Ledger!Drop, Kept, Filed, Session
  <2>2. QED BY <2>1 DEF Ledger!Next
<1>3. ASSUME pc = "saving", ~InSession', pc' # "saving", CutSave
      PROVE  Ledger!Next
  <2>1. /\ Session = "filing" /\ Session' = "closed"
        /\ Kept = RecordsOf(entries) /\ Kept' = {}
    BY <1>3 DEF Session, Kept, InSession, Resting
  <2>2. Ledger!CutFiling
    BY <1>3, <2>1, CutSaveKeepsSome DEF Ledger!CutFiling
  <2>3. QED BY <2>2 DEF Ledger!Next
<1>4. CASE Launch \/ Quit \/ RescanAtMenu \/ StartRunRefused \/ WorldStep
             \/ Rescan \/ UNCHANGED vars
  BY <1>1, <1>4
     DEF Launch, Quit, RescanAtMenu, StartRunRefused, WorldStep, Tick, Play,
         Delete, OtherUpload, ServerDelete, Rescan, vars, InSession, Resting
<1>5. ASSUME NEW cards \in Selections, StartRun(cards)
      PROVE  Ledger!Next
  <2>1. /\ Session = "closed" /\ Session' = "open"
        /\ Kept' = Filed /\ Filed' = Filed
        /\ stateFile.ok = TRUE /\ stateFile' = stateFile
    BY <1>0, <1>5
       DEF StartRun, Session, Kept, Filed, InSession, Resting, TypeOK
  <2>2. Ledger!Open
    BY <2>1 DEF Ledger!Open
  <2>3. QED BY <2>2 DEF Ledger!Next
<1>6. CASE ListRemote \/ ListCutShort
  BY <1>1, <1>6 DEF ListRemote, ListCutShort, NextItem, InSession, Resting
<1>7. CASE ListFails \/ SaveRefused
  BY <1>2, <1>7 DEF ListFails, SaveRefused, InSession, Resting
<1>8. CASE Decide
  <2>1. PICK c \in Cards :
           \/ SkipUnchanged(c) \/ SkipCurrent(c) \/ SkipQuiet(c)
           \/ SkipConflict(c) \/ UploadNew(c) \/ UploadConflict(c)
           \/ DownloadConflict(c)
    BY <1>8 DEF Decide
  <2>2. /\ pc = "items" /\ pc' \in {"items", "pack", "fetch", "backup"}
        /\ UNCHANGED <<stateFile, entries>>
    BY <2>1
       DEF SkipUnchanged, SkipCurrent, SkipQuiet, SkipConflict, UploadNew,
           UploadConflict, DownloadConflict, SkipWith, BeginUpload, Take,
           AfterDownloadPlanned
  <2>3. QED BY <1>1, <2>2 DEF InSession, Resting
<1>9. CASE UploadStep /\ ~FinishUpload
  <2>1. /\ UNCHANGED <<stateFile, entries>> /\ pc \in Transfers
        /\ pc' \in Transfers \cup {"items"}
    BY <1>9
       DEF UploadStep, Pack, PackFails, PackTakenForConflict,
           ServerAccepts, ReplyLost,
           ServerRefuses, SendFails, FinishUploadUnrecorded, FinishRefused,
           FinishUnsent, Abandon, NextItem, Transfers
  <2>2. QED BY <1>1, <2>1 DEF InSession, Resting, Transfers
<1>10. CASE DownloadStep /\ ~FinishDownload
  <2>1. /\ UNCHANGED <<stateFile, entries>> /\ pc \in Transfers
        /\ pc' \in Transfers \cup {"items"}
    BY <1>10
       DEF DownloadStep, BackupOpen, BackupRefused, BackupDone, BackupFails,
           Fetch, FetchFails, RebuildOpen, RebuildRefused, RebuildDone,
           RebuildFails, Sign, SignFails, FinishDownloadUnrecorded, Abandon,
           NextItem, Transfers
  <2>2. QED BY <1>1, <2>1 DEF InSession, Resting, Transfers
<1>11. CASE FinishUpload
  <2>1. inventory[cur] \in Item \ {NoItem}
    BY <1>0, <1>11 DEF FinishUpload, ScannedOnly, Transfers, TypeOK
  <2>2. QED
    BY <1>0, <1>11, <2>1, RecordStep
       DEF FinishUpload, UploadRecord, NextItem, InSession, Resting
<1>12. CASE FinishDownload
  <2>1. DownloadRecord \in Item \ {NoItem}
    BY <1>0 DEF DownloadRecord, TypeOK, Remote, Item, Sizes, NoItem
  <2>2. QED
    BY <1>0, <1>12, <2>1, RecordStep
       DEF FinishDownload, NextItem, InSession, Resting
<1>13. CASE EndItems
  BY <1>1, <1>2, <1>13 DEF EndItems, InSession, Resting
<1>14. CASE SaveOpen
  <2>1. /\ Session = "open" /\ Session' = "filing"
        /\ Kept' = Kept /\ Filed' = {} /\ stateFile'.ok = TRUE
    BY <1>14, NoRecords
       DEF SaveOpen, Session, Kept, Filed, InSession, Resting
  <2>2. Ledger!BeginFiling
    BY <2>1 DEF Ledger!BeginFiling
  <2>3. QED BY <2>2 DEF Ledger!Next
<1>15. CASE SaveDone
  <2>1. /\ Session = "filing" /\ Session' = "closed"
        /\ Kept' = {} /\ Filed' = Kept /\ stateFile'.ok = TRUE
    BY <1>15 DEF SaveDone, Session, Kept, Filed, InSession, Resting
  <2>2. Ledger!EndFiling
    BY <2>1 DEF Ledger!EndFiling
  <2>3. QED BY <2>2 DEF Ledger!Next
<1>16. CASE SaveFails
  BY <1>3, <1>16 DEF SaveFails, InSession, Resting
<1>17. CASE Crash
  <2>1. pc' = "off" /\ ~InSession' /\ pc' # "saving"
    BY <1>17 DEF Crash, InSession, Resting
  <2>2. CASE pc = "saving"
    BY <1>3, <1>17, <2>1, <2>2 DEF Crash
  <2>3. CASE pc # "saving" /\ InSession
    BY <1>2, <1>17, <2>1, <2>3 DEF Crash
  <2>4. CASE ~InSession
    BY <1>1, <1>17, <2>1, <2>4 DEF Crash, InSession, Resting
  <2>5. QED BY <2>2, <2>3, <2>4
<1>18. QED
  BY <1>4, <1>5, <1>6, <1>7, <1>8, <1>9, <1>10, <1>11, <1>12, <1>13, <1>14,
     <1>15, <1>16, <1>17
     DEF Next, EngineStep, AppStep, UploadStep, DownloadStep, EndStep

(***************************************************************************)
(* The engine asks no more of the state file than a ledger gives: over any *)
(* number of passes, failures and crashes, a card's record comes from a    *)
(* transfer that was finished, and is lost only by a save that was cut.    *)
(***************************************************************************)
THEOREM EngineUsesALedger == Spec => LedgerSpec
<1>1. Init => ScannedOnly
  BY DEF Init, ScannedOnly, InSession, Resting, Transfers
<1>2. TypeInv /\ ScannedOnly /\ [Next]_vars => ScannedOnly'
  BY ScannedNext DEF TypeInv
<1>3. TypeInv /\ TypeInv' /\ ScannedOnly /\ [Next]_vars
        => [Ledger!Next]_(Ledger!vars)
  BY EngineLedgerNext
<1>4. QED
  BY <1>1, <1>2, <1>3, EngineLedgerInit, TypeInvariance, PTL
     DEF Spec, LedgerSpec, Ledger!Spec

=============================================================================
