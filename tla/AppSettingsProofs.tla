------------------------- MODULE AppSettingsProofs -------------------------
(***************************************************************************)
(* Proofs about AppSettings, for any values: however many failures, a      *)
(* transfer needs the user's consent; without failures settings survive    *)
(* restarts, and the device registers once.                                *)
(***************************************************************************)
EXTENDS AppSettings, TLAPS

\* A file that turns dry_run off was made so by the user.
FileIsChosen == file.lines["dry_run"] = "false" => consent

\* The inductive invariant: what the next start will read is chosen too.
IInv == TypeOK /\ FileIsChosen /\ TransfersAreChosen

\* dry_run is the last line of the file: no part of a file carries it whole.
LEMMA CutsAreSafe ==
  ASSUME NEW c, IsConfig(c), NEW f \in Cuts(c)
  PROVE  /\ f \in [lines : [Fields -> Values \cup {"true", "false", "cut", Missing}],
                   bad : BOOLEAN]
         /\ \A k \in TextFields : f.lines[k] \in Values \cup {Missing}
         /\ f.lines["dry_run"] \in {"cut", Missing}
<1> DEFINE V == Values \cup {"true", "false", "cut", Missing}
<1>1. PICK n \in 0..5 :
        \/ \E b \in BOOLEAN : f = [lines |-> FirstLines(c, n), bad |-> b]
        \/ \E v \in CutValues(Order[n + 1], c[Order[n + 1]]) :
             f = [lines |-> [FirstLines(c, n) EXCEPT ![Order[n + 1]] = v],
                  bad |-> FALSE]
  <2>1. Len(Order) = 6
    BY DEF Order
  <2>2. PICK n \in 0..5 : f \in CutsAfter(c, n)
    BY <2>1 DEF Cuts
  <2> QED BY <2>2 DEF CutsAfter
<1>2. /\ FirstLines(c, n) \in [Fields -> V]
      /\ \A k \in TextFields : FirstLines(c, n)[k] \in Values \cup {Missing}
      /\ FirstLines(c, n)["dry_run"] = Missing
  <2> DEFINE g == FirstLines(c, n)
  <2>1. \A i \in 1..n : Order[i] # "dry_run"
    BY DEF Order
  <2>2. g = [k \in Fields |->
               IF \E i \in 1..n : Order[i] = k THEN c[k] ELSE Missing]
    BY DEF FirstLines
  <2>3. \A k \in Fields : g[k] \in {c[k], Missing}
    BY <2>2
  <2>4. g["dry_run"] = Missing
    BY <2>1, <2>2 DEF Fields
  <2>5. g \in [Fields -> V]
    BY <2>2, <2>3 DEF IsConfig
  <2>6. \A k \in TextFields : g[k] \in Values \cup {Missing}
    BY <2>3 DEF IsConfig, Fields
  <2> QED BY <2>4, <2>5, <2>6
<1>3. CASE \E b \in BOOLEAN : f = [lines |-> FirstLines(c, n), bad |-> b]
  BY <1>2, <1>3
<1>4. CASE \E v \in CutValues(Order[n + 1], c[Order[n + 1]]) :
             f = [lines |-> [FirstLines(c, n) EXCEPT ![Order[n + 1]] = v],
                  bad |-> FALSE]
  <2>1. PICK v \in CutValues(Order[n + 1], c[Order[n + 1]]) :
             f = [lines |-> [FirstLines(c, n) EXCEPT ![Order[n + 1]] = v],
                  bad |-> FALSE]
    BY <1>4
  <2>2. Order[n + 1] \in Fields
    BY DEF Order, Fields, TextFields, Edited
  <2>3. CASE Order[n + 1] = "dry_run"
    <3>1. v = "cut"
      BY <2>3 DEF CutValues
    <3> QED BY <1>2, <2>1, <2>2, <2>3, <3>1 DEF Fields, TextFields, Edited
  <2>4. CASE Order[n + 1] \in TextFields
    <3>1. v \in Values
      BY <2>4, ValuesAssumption DEF CutValues, IsConfig, TextFields, Edited
    <3>2. Order[n + 1] # "dry_run"
      BY <2>4 DEF TextFields, Edited
    <3> QED BY <1>2, <2>1, <2>2, <2>4, <3>1, <3>2 DEF Fields
  <2> QED BY <2>2, <2>3, <2>4 DEF Fields
<1> QED BY <1>1, <1>3, <1>4

\* The defaults are a configuration without transfers.
LEMMA DefaultsAreSafe == IsConfig(Defaults) /\ Defaults["dry_run"] = "true"
BY ValuesAssumption DEF IsConfig, Defaults, Fields, TextFields, Edited

\* A load yields a configuration, with transfers only if the file says so.
LEMMA LoadedIsSafe ==
  ASSUME TypeOK
  PROVE  /\ IsConfig(Loaded(file))
         /\ Loaded(file)["dry_run"] = "false" => file.lines["dry_run"] = "false"
<1>1. CASE file.bad
  BY <1>1, DefaultsAreSafe DEF Loaded
<1>2. CASE ~file.bad
  <2> DEFINE c == Loaded(file)
  <2>1. c = [k \in Fields |->
               IF file.lines[k] = Missing THEN Defaults[k]
               ELSE IF k = "dry_run" THEN ParsedBool(file.lines[k])
               ELSE AsLoaded[file.lines[k]]]
    BY <1>2 DEF Loaded
  <2>2. \A k \in TextFields : c[k] \in Values
    BY <2>1, DefaultsAreSafe, ValuesAssumption
       DEF TypeOK, IsConfig, Fields, TextFields, Edited
  <2>3. /\ c["dry_run"] \in {"true", "false"}
        /\ c["dry_run"] = "false" => file.lines["dry_run"] = "false"
    BY <2>1, DefaultsAreSafe DEF ParsedBool, Fields
  <2>4. c \in [Fields -> Values \cup {"true", "false"}]
    <3> HIDE DEF c
    <3>1. \A k \in Fields : c[k] \in Values \cup {"true", "false"}
      BY <2>2, <2>3 DEF Fields
    <3>2. c = [k \in Fields |-> c[k]]
      BY <2>1
    <3> QED BY <3>1, <3>2
  <2> QED BY <2>2, <2>3, <2>4 DEF IsConfig
<1> QED BY <1>1, <1>2

\* Replacing the value of a text field leaves the other fields.
LEMMA EditedIsConfig ==
  ASSUME NEW c, IsConfig(c), NEW f \in TextFields, NEW v \in Values
  PROVE  /\ IsConfig([c EXCEPT ![f] = v])
         /\ [c EXCEPT ![f] = v]["dry_run"] = c["dry_run"]
BY DEF IsConfig, Fields, TextFields, Edited

LEMMA InitIInv == Init => IInv
<1> SUFFICES ASSUME Init PROVE IInv
  OBVIOUS
<1>1. /\ Empty \in [lines : [Fields -> Values \cup {"true", "false", "cut", Missing}],
                    bad : BOOLEAN]
      /\ \A k \in Fields : Empty.lines[k] = Missing
  BY DEF Empty
<1>2. Missing # "false"
  BY ValuesAssumption
<1>3. TypeOK
  <2>1. edits \in 0..MaxEdits /\ faults \in 0..FaultBudget
        /\ requests \in 0..MaxRequests
    BY BoundsAssumption DEF Init
  <2>2. consent \in BOOLEAN
    BY Zenon DEF Init
  <2>3. /\ file \in [lines : [Fields -> Values \cup {"true", "false", "cut", Missing}],
                     bad : BOOLEAN]
        /\ \A k \in TextFields : file.lines[k] \in Values \cup {Missing}
        /\ file.lines["dry_run"] \in {"true", "false", "cut", Missing}
    BY <1>1 DEF Init, Fields
  <2> QED BY <2>1, <2>2, <2>3, DefaultsAreSafe DEF Init, TypeOK
<1> QED BY <1>1, <1>2, <1>3 DEF Init, IInv, FileIsChosen, TransfersAreChosen, Fields

LEMMA NextIInv == IInv /\ [Next]_vars => IInv'
<1> SUFFICES ASSUME IInv, [Next]_vars PROVE IInv'
  OBVIOUS
<1> USE DEF IInv
<1>0. Missing # "false" /\ "cut" # "false"
  BY ValuesAssumption
<1>1. CASE Start
  BY <1>1, LoadedIsSafe DEF Start, TypeOK, FileIsChosen, TransfersAreChosen
<1>2. CASE Quit
  BY <1>2 DEF Quit, TypeOK, FileIsChosen, TransfersAreChosen
<1>3. CASE Edit
  <2>0. PICK f \in Edited : \E v \in Typed[f] :
          mem' = [mem EXCEPT ![f] = IF f = "password" THEN v ELSE AsLoaded[v]]
    BY <1>3 DEF Edit
  <2>1. PICK v \in Typed[f] :
          mem' = [mem EXCEPT ![f] = IF f = "password" THEN v ELSE AsLoaded[v]]
    BY <2>0
  <2> DEFINE w == IF f = "password" THEN v ELSE AsLoaded[v]
  <2>2. f \in TextFields /\ w \in Values
    BY ValuesAssumption DEF TextFields
  <2>3. IsConfig(mem') /\ mem'["dry_run"] = mem["dry_run"]
    <3>1. mem' = [mem EXCEPT ![f] = w]
      BY <2>1
    <3> HIDE DEF w
    <3> QED BY <2>2, <3>1, EditedIsConfig DEF TypeOK
  <2>4. edits' \in 0..MaxEdits
    BY <1>3, BoundsAssumption DEF Edit, TypeOK
  <2> QED BY <1>3, <2>3, <2>4 DEF Edit, TypeOK, FileIsChosen, TransfersAreChosen
<1>4. CASE Register
  <2>1. "device_id" \in TextFields /\ DeviceOf[mem["url"]] \in Values
    BY <1>4, ValuesAssumption DEF Register, TextFields
  <2>2. IsConfig(mem') /\ mem'["dry_run"] = mem["dry_run"]
    BY <1>4, <2>1, EditedIsConfig DEF Register, TypeOK
  <2>3. requests' \in 0..MaxRequests
    BY <1>4, BoundsAssumption DEF Register, TypeOK
  <2> QED BY <1>4, <2>2, <2>3
          DEF Register, TypeOK, FileIsChosen, TransfersAreChosen
<1>5. CASE SaveOpens
  <2>1. /\ file' \in [lines : [Fields -> Values \cup {"true", "false", "cut", Missing}],
                      bad : BOOLEAN]
        /\ \A k \in Fields : file'.lines[k] = Missing
    BY <1>5 DEF SaveOpens, Empty
  <2> QED BY <1>0, <1>5, <2>1
          DEF SaveOpens, TypeOK, FileIsChosen, TransfersAreChosen, Fields
<1>6. CASE SaveEnds
  <2>1. /\ file' \in [lines : [Fields -> Values \cup {"true", "false", "cut", Missing}],
                      bad : BOOLEAN]
        /\ file'.lines = mem
    BY <1>6 DEF SaveEnds, Whole, TypeOK, IsConfig
  <2> QED BY <1>6, <2>1
          DEF SaveEnds, TypeOK, IsConfig, FileIsChosen, TransfersAreChosen
<1>7. CASE SaveCannotOpen
  <2>1. faults' \in 0..FaultBudget
    BY <1>7, BoundsAssumption DEF SaveCannotOpen, Fault, TypeOK
  <2> QED BY <1>7, <2>1
          DEF SaveCannotOpen, TypeOK, FileIsChosen, TransfersAreChosen
<1>8. CASE SaveFails
  <2>1. faults' \in 0..FaultBudget
    BY <1>8, BoundsAssumption DEF SaveFails, Fault, TypeOK
  <2>2. file' \in Cuts(mem)
    BY <1>8 DEF SaveFails
  <2> QED BY <1>0, <1>8, <2>1, <2>2, CutsAreSafe
          DEF SaveFails, TypeOK, FileIsChosen, TransfersAreChosen
<1>9. CASE Crash
  <2>1. faults' \in 0..FaultBudget
    BY <1>9, BoundsAssumption DEF Crash, Fault, TypeOK
  <2>2. CASE file' \in Cuts(mem)
    BY <1>0, <1>9, <2>1, <2>2, CutsAreSafe
       DEF Crash, TypeOK, FileIsChosen, TransfersAreChosen
  <2>3. CASE UNCHANGED file
    BY <1>9, <2>1, <2>3 DEF Crash, TypeOK, FileIsChosen, TransfersAreChosen
  <2> QED BY <1>9, <2>2, <2>3 DEF Crash
<1>10. CASE SetDryRun
  <2>1. PICK b \in {"true", "false"} :
          /\ file' = [file EXCEPT !.lines["dry_run"] = b]
          /\ kept' = [kept EXCEPT !["dry_run"] = b]
          /\ consent' = (b = "false")
    BY <1>10 DEF SetDryRun
  <2>2. IsConfig(kept')
    BY <2>1 DEF TypeOK, IsConfig, Fields, TextFields, Edited
  <2>3. /\ file' \in [lines : [Fields -> Values \cup {"true", "false", "cut", Missing}],
                      bad : BOOLEAN]
        /\ \A k \in TextFields : file'.lines[k] = file.lines[k]
        /\ file'.lines["dry_run"] = b
    BY <2>1 DEF TypeOK, Fields, TextFields, Edited
  <2>4. consent' \in BOOLEAN
    BY <2>1
  <2>5. edits' \in 0..MaxEdits
    BY <1>10, BoundsAssumption DEF SetDryRun, TypeOK
  <2>6. TypeOK'
    BY <1>10, <2>2, <2>3, <2>4, <2>5 DEF SetDryRun, TypeOK
  <2>7. FileIsChosen'
    BY <2>1, <2>3 DEF FileIsChosen
  <2>8. TransfersAreChosen'
    BY <1>10 DEF SetDryRun, TransfersAreChosen
  <2> QED BY <2>6, <2>7, <2>8
<1>11. CASE UNCHANGED vars
  BY <1>11 DEF vars, TypeOK, FileIsChosen, TransfersAreChosen
<1> QED BY <1>1, <1>2, <1>3, <1>4, <1>5, <1>6, <1>7, <1>8, <1>9, <1>10, <1>11
        DEF Next

(***************************************************************************)
(* The settings keep their types.                                          *)
(***************************************************************************)
THEOREM TypeCorrect == Spec => []TypeOK
<1>1. IInv => TypeOK
  BY DEF IInv
<1> QED BY <1>1, InitIInv, NextIInv, PTL DEF Spec

(***************************************************************************)
(* Transfers are executed only if the user turned dry_run off.             *)
(***************************************************************************)
THEOREM TransfersNeedConsent == Spec => []TransfersAreChosen
<1>1. IInv => TransfersAreChosen
  BY DEF IInv
<1> QED BY <1>1, InitIInv, NextIInv, PTL DEF Spec

-----------------------------------------------------------------------------
(***************************************************************************)
(* Without failures, the file holds what was kept, where a missing line    *)
(* stands for a default; it is empty only while it is being written.       *)
(***************************************************************************)
Restores(v, k) == v = kept[k] \/ (v = Missing /\ kept[k] = Defaults[k])

FileKeeps ==
  /\ ~file.bad
  /\ pc # "writing" => \A k \in Fields : Restores(file.lines[k], k)

MenuKeeps ==
  pc = "menu" =>
    /\ mem["dry_run"] = kept["dry_run"]
    /\ \A f \in TextFields : mem[f] \in {kept[f], AsLoaded[kept[f]]}

Faultless == faults = 0 => FileKeeps /\ MenuKeeps

\* A start restores what was kept.
LEMMA LoadedIsKept ==
  ASSUME TypeOK, FileKeeps, pc = "closed"
  PROVE  /\ Loaded(file)["dry_run"] = kept["dry_run"]
         /\ \A f \in TextFields : Loaded(file)[f] = AsLoaded[kept[f]]
<1>1. \A k \in Fields :
        Loaded(file)[k] = IF file.lines[k] = Missing THEN Defaults[k]
                          ELSE IF k = "dry_run" THEN ParsedBool(file.lines[k])
                          ELSE AsLoaded[file.lines[k]]
  BY DEF Loaded, FileKeeps
<1>2. Loaded(file)["dry_run"] = kept["dry_run"]
  <2>1. kept["dry_run"] \in {"true", "false"} /\ Restores(file.lines["dry_run"], "dry_run")
    BY DEF TypeOK, IsConfig, FileKeeps, Fields
  <2>2. kept["dry_run"] # Missing
    BY <2>1, ValuesAssumption
  <2>3. QED BY <1>1, <2>1, <2>2 DEF Restores, ParsedBool, Fields
<1>3. ASSUME NEW f \in TextFields PROVE Loaded(file)[f] = AsLoaded[kept[f]]
  <2>1. /\ f \in Fields /\ f # "dry_run" /\ kept[f] \in Values
        /\ Restores(file.lines[f], f)
    BY DEF TypeOK, IsConfig, FileKeeps, Fields, TextFields, Edited
  <2>2. kept[f] # Missing
    BY <2>1, ValuesAssumption
  <2>3. Defaults[f] = NoText
    BY <2>1 DEF Defaults
  <2>4. QED BY <1>1, <2>1, <2>2, <2>3, ValuesAssumption DEF Restores
<1>4. QED BY <1>2, <1>3

LEMMA FaultlessNext == TypeOK /\ Faultless /\ [Next]_vars => Faultless'
<1> SUFFICES ASSUME TypeOK, Faultless, [Next]_vars, faults' = 0
             PROVE  FileKeeps' /\ MenuKeeps'
  BY DEF Faultless
<1>0. faults \in Nat
  BY BoundsAssumption DEF TypeOK
<1>1. faults = 0 /\ FileKeeps /\ MenuKeeps /\ ~Fault
  <2>1. ~Fault
    BY <1>0 DEF Fault
  <2>2. faults = 0
    BY <2>1
       DEF Next, Start, Quit, Edit, Register, SaveOpens, SaveEnds,
           SaveCannotOpen, SaveFails, Crash, SetDryRun, vars
  <2>3. QED BY <2>1, <2>2 DEF Faultless
<1>2. CASE Start
  BY <1>1, <1>2, LoadedIsKept DEF Start, FileKeeps, MenuKeeps, Restores
<1>3. CASE Quit \/ Edit \/ Register
  BY <1>1, <1>3 DEF Quit, Edit, Register, FileKeeps, MenuKeeps, Restores
<1>4. CASE SaveOpens
  BY <1>1, <1>4 DEF SaveOpens, Empty, FileKeeps, MenuKeeps
<1>5. CASE SaveEnds
  BY <1>1, <1>5 DEF SaveEnds, Whole, FileKeeps, MenuKeeps, Restores
<1>6. CASE SaveCannotOpen \/ SaveFails \/ Crash
  BY <1>1, <1>6 DEF SaveCannotOpen, SaveFails, Crash
<1>7. CASE SetDryRun
  <2>1. PICK b \in {"true", "false"} :
          /\ file' = [file EXCEPT !.lines["dry_run"] = b]
          /\ kept' = [kept EXCEPT !["dry_run"] = b]
    BY <1>7 DEF SetDryRun
  <2>2. /\ file'.bad = file.bad
        /\ file'.lines = [file.lines EXCEPT !["dry_run"] = b]
    BY <2>1 DEF TypeOK
  <2>3. pc' = "closed" /\ ~file'.bad
    BY <1>1, <1>7, <2>2 DEF SetDryRun, FileKeeps
  <2>4. ASSUME NEW k \in Fields
        PROVE  \/ file'.lines[k] = kept'[k]
               \/ file'.lines[k] = Missing /\ kept'[k] = Defaults[k]
    <3>1. Restores(file.lines[k], k)
      BY <1>1, <1>7 DEF SetDryRun, FileKeeps
    <3>2. kept'[k] = IF k = "dry_run" THEN b ELSE kept[k]
      BY <2>1 DEF TypeOK, IsConfig
    <3>3. file'.lines[k] = IF k = "dry_run" THEN b ELSE file.lines[k]
      BY <2>2 DEF TypeOK
    <3>4. QED BY <3>1, <3>2, <3>3 DEF Restores
  <2>5. QED BY <2>3, <2>4 DEF FileKeeps, MenuKeeps, Restores
<1>8. CASE UNCHANGED vars
  BY <1>1, <1>8 DEF vars, FileKeeps, MenuKeeps, Restores
<1>9. QED BY <1>2, <1>3, <1>4, <1>5, <1>6, <1>7, <1>8 DEF Next

(***************************************************************************)
(* Without failures, the menu has the settings of the last save, up to     *)
(* what the loader strips, after any number of starts.                     *)
(***************************************************************************)
THEOREM SettingsAlwaysSurvive == Spec => []SettingsSurviveRestart
<1>1. Init => Faultless
  BY DEF Init, Faultless, FileKeeps, MenuKeeps, Restores, Empty
<1>2. Faultless => SettingsSurviveRestart
  BY DEF Faultless, MenuKeeps, SettingsSurviveRestart
<1>3. QED BY <1>1, <1>2, TypeCorrect, FaultlessNext, PTL DEF Spec

-----------------------------------------------------------------------------
(***************************************************************************)
(* The device registers once, if no server's id is lost when the loader    *)
(* strips blanks and quotes: the id then survives every start.             *)
(***************************************************************************)
IdsLast == \A u \in Servers : AsLoaded[DeviceOf[u]] # NoText

Lasts(c) == AsLoaded[c["device_id"]] # NoText

IdIsKept ==
  faults = 0 =>
    /\ requests <= 1
    /\ requests = 1 /\ pc # "closed" => Lasts(mem)
    /\ requests = 1 /\ pc \in {"closed", "menu"} => Lasts(kept)

LEMMA IdIsKeptNext ==
  ASSUME IdsLast
  PROVE  TypeOK /\ Faultless /\ IdIsKept /\ [Next]_vars => IdIsKept'
<1> SUFFICES ASSUME TypeOK, Faultless, IdIsKept, [Next]_vars, faults' = 0
             PROVE  /\ requests' <= 1
                    /\ requests' = 1 /\ pc' # "closed" => Lasts(mem')
                    /\ requests' = 1 /\ pc' \in {"closed", "menu"} => Lasts(kept')
  BY DEF IdIsKept, Lasts
<1>0. faults \in Nat /\ requests \in Nat
  BY BoundsAssumption DEF TypeOK
<1>1. faults = 0 /\ ~Fault
  <2>1. ~Fault
    BY <1>0 DEF Fault
  <2>2. faults = 0
    BY <2>1
       DEF Next, Start, Quit, Edit, Register, SaveOpens, SaveEnds,
           SaveCannotOpen, SaveFails, Crash, SetDryRun, vars
  <2>3. QED BY <2>1, <2>2
<1>2. /\ requests <= 1
      /\ requests = 1 /\ pc # "closed" => Lasts(mem)
      /\ requests = 1 /\ pc \in {"closed", "menu"} => Lasts(kept)
  BY <1>1 DEF IdIsKept
<1>3. CASE Start
  <2>1. mem'["device_id"] = AsLoaded[kept["device_id"]]
    BY <1>1, <1>3, LoadedIsKept DEF Start, Faultless, TextFields
  <2>2. kept["device_id"] \in Values
    BY DEF TypeOK, IsConfig, TextFields
  <2>3. AsLoaded[mem'["device_id"]] = AsLoaded[kept["device_id"]]
    BY <2>1, <2>2, ValuesAssumption
  <2>4. QED BY <1>2, <1>3, <2>3 DEF Start, Lasts
<1>4. CASE Quit
  BY <1>2, <1>4 DEF Quit
<1>5. CASE Edit
  <2>1. mem'["device_id"] = mem["device_id"]
    BY <1>5 DEF Edit, Edited, TypeOK, IsConfig
  <2>2. QED BY <1>2, <1>5, <2>1 DEF Edit, Lasts
<1>6. CASE Register
  <2>1. mem["device_id"] = NoText
    BY <1>6 DEF Register, NeedsDevice, HasText
  <2>2. ~Lasts(mem)
    BY <2>1, ValuesAssumption DEF Lasts
  <2>3. requests = 0
    BY <1>0, <1>2, <1>6, <2>2 DEF Register
  <2>4. mem'["device_id"] = DeviceOf[mem["url"]]
    BY <1>6 DEF Register, TypeOK, IsConfig, Fields, TextFields
  <2>5. QED BY <1>6, <2>3, <2>4 DEF Register, IdsLast, Lasts
<1>7. CASE SaveOpens \/ SaveEnds
  BY <1>2, <1>7 DEF SaveOpens, SaveEnds
<1>8. CASE SaveCannotOpen \/ SaveFails \/ Crash
  BY <1>1, <1>8 DEF SaveCannotOpen, SaveFails, Crash
<1>9. CASE SetDryRun
  <2>1. kept'["device_id"] = kept["device_id"]
    BY <1>9 DEF SetDryRun, TypeOK, IsConfig
  <2>2. QED BY <1>2, <1>9, <2>1 DEF SetDryRun, Lasts
<1>10. CASE UNCHANGED vars
  BY <1>2, <1>10 DEF vars
<1>11. QED
  BY <1>3, <1>4, <1>5, <1>6, <1>7, <1>8, <1>9, <1>10 DEF Next

(***************************************************************************)
(* Without failures, one registration is enough for ever.                  *)
(***************************************************************************)
THEOREM OneRegistration == ASSUME IdsLast PROVE Spec => []RegistersOnce
<1>1. Init => IdIsKept
  BY DEF Init, IdIsKept
<1>2. Init => Faultless
  BY DEF Init, Faultless, FileKeeps, MenuKeeps, Restores, Empty
<1>3. IdIsKept => RegistersOnce
  BY DEF IdIsKept, RegistersOnce
<1>4. TypeOK /\ Faultless /\ IdIsKept /\ [Next]_vars => IdIsKept'
  BY IdIsKeptNext
<1>5. QED BY <1>1, <1>2, <1>3, <1>4, TypeCorrect, FaultlessNext, PTL DEF Spec

=============================================================================
