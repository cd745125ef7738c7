---------------------------- MODULE SqlHealthTab ----------------------------
(***************************************************************************)
(* The Health tab of the sql-server plugin (pages/HealthTab.tsx with the   *)
(* panels of components/Health): the operator scans a database, selects    *)
(* recommended fixes and tables of the report and applies them.            *)
(*                                                                         *)
(* Preact runs effects after it has painted: between a render that shows   *)
(* another report and the effect that resets the selection, a click is     *)
(* handled with the new report and the old selection.  `settled` is what   *)
(* the effects have seen; a further render runs them first.                *)
(***************************************************************************)
EXTENDS Naturals, Sequences, FiniteSets, Queries

CONSTANTS Databases,  \* databases of the server
          Reports,    \* what a scan may recommend: sequences of fix kinds
          Tables,     \* tables of a report
          MaxScans    \* bound on the scans

HealthAssumption ==
  /\ Reports \subseteq UNION {[1 .. n -> {"REBUILD", "DROP"}] : n \in 1 .. 2}
  /\ MaxScans \in Nat

VARIABLES
  onHealth,        \* the App shows this tab
  database,        \* the picked database; stands for all parameters of a scan
  scans,           \* scans[d]: the query of database d
  settled,         \* what the effects have seen: a report and a database
  selectedFixes,   \* indexes into the report's fixes
  selectedTables,
  ticked,          \* (history) selected fixes the operator ticked one by one
  applying,        \* the POSTs that are pending: applyFixes, bulk
  request,         \* (history) the latest POST
  scanned          \* number of scans

vars == <<onHealth, database, scans, settled, selectedFixes, selectedTables,
          ticked, applying, request, scanned>>

Views == [database : Databases, fixes : Reports]
Seen == [view : Views \union {Nothing}, database : Databases]

TypeOK ==
  /\ onHealth \in BOOLEAN
  /\ database \in Databases
  /\ scans \in [Databases -> [data : Views \union {Nothing}, flight : Views \union {Nothing}]]
  /\ settled \in Seen
  /\ selectedFixes \in SUBSET (1 .. 2)
  /\ selectedTables \in SUBSET Tables
  /\ ticked \in SUBSET selectedFixes
  /\ applying \in SUBSET {"fixes", "bulk"}
  /\ request \in {Nothing} \union
       [view : Views, database : Databases, fixes : SUBSET (1 .. 2), tables : SUBSET Tables,
        chosen : SUBSET (1 .. 2), chosenTables : SUBSET Tables, settled : BOOLEAN]
  /\ scanned \in 0 .. MaxScans

Init ==
  /\ onHealth \in BOOLEAN
  /\ database \in Databases
  /\ scans = [d \in Databases |-> NewQuery]
  /\ settled = [view |-> Nothing, database |-> database]
  /\ selectedFixes = {}
  /\ selectedTables = {}
  /\ ticked = {}
  /\ applying = {}
  /\ request = Nothing
  /\ scanned = 0

view == scans[database].data
Committed == [view |-> view, database |-> database]

(* Mutant: everything is preselected. *)
DefaultSelectedFixes_All(v) == IF v = Nothing THEN {} ELSE DOMAIN v.fixes

DefaultSelectedFixes(v) ==
  IF v = Nothing THEN {} ELSE {i \in DOMAIN v.fixes : v.fixes[i] # "DROP"}

(* Mutant: the selection survives a new report.                            *)
RunEffects_KeepsSelection ==
  /\ settled' = Committed
  /\ UNCHANGED <<selectedFixes, selectedTables, ticked>>

(* The effects of the last render: the mutations get its closures, and the *)
(* selection is reset if it showed another report.                         *)
RunEffects ==
  /\ settled' = Committed
  /\ IF settled.view = view THEN UNCHANGED <<selectedFixes, selectedTables, ticked>>
     ELSE /\ selectedFixes' = DefaultSelectedFixes(view)
          /\ selectedTables' = {}
          /\ ticked' = {}

Effects ==
  /\ settled # Committed
  /\ RunEffects
  /\ UNCHANGED <<onHealth, database, scans, applying, request, scanned>>

PickDatabase(d) ==
  /\ d # database
  /\ database' = d
  /\ RunEffects
  /\ UNCHANGED <<onHealth, scans, applying, request, scanned>>

(* HealthScanPanel: Scan is disabled while the shown query fetches.        *)
Scan(r) ==
  /\ ~Fetching(scans[database]) /\ scanned < MaxScans
  /\ scans' = [scans EXCEPT ![database] = Refetch(@, [database |-> database, fixes |-> r])]
  /\ scanned' = scanned + 1
  /\ RunEffects
  /\ UNCHANGED <<onHealth, database, applying, request>>

ScanEnds(d) ==
  /\ Fetching(scans[d])
  /\ scans' \in {[scans EXCEPT ![d] = Answered(@)], [scans EXCEPT ![d] = Failed(@)]}
  /\ IF d = database THEN RunEffects
     ELSE UNCHANGED <<settled, selectedFixes, selectedTables, ticked>>
  /\ UNCHANGED <<onHealth, database, applying, request, scanned>>

-----------------------------------------------------------------------------
(* Selecting.  A click before the effects have run is undone by them.      *)

Flip(S, x) == IF x \in S THEN S \ {x} ELSE S \union {x}

ToggleFix(i) ==
  /\ view # Nothing /\ settled = Committed
  /\ i \in DOMAIN view.fixes
  /\ selectedFixes' = Flip(selectedFixes, i)
  /\ ticked' = IF i \in selectedFixes THEN ticked \ {i} ELSE ticked \union {i}
  /\ UNCHANGED <<onHealth, database, scans, settled, selectedTables, applying, request, scanned>>

(* "select rebuild/reorg/stats" *)
ToggleAllFixes ==
  /\ view # Nothing /\ settled = Committed
  /\ selectedFixes' = IF Cardinality(selectedFixes) = Cardinality(DefaultSelectedFixes(view))
                      THEN {} ELSE DefaultSelectedFixes(view)
  /\ ticked' = {}
  /\ UNCHANGED <<onHealth, database, scans, settled, selectedTables, applying, request, scanned>>

ToggleTable(t) ==
  /\ view # Nothing /\ settled = Committed
  /\ selectedTables' = Flip(selectedTables, t)
  /\ UNCHANGED <<onHealth, database, scans, settled, selectedFixes, ticked, applying, request,
                 scanned>>

ToggleAllTables ==
  /\ view # Nothing /\ settled = Committed
  /\ selectedTables' = IF selectedTables = Tables THEN {} ELSE Tables
  /\ UNCHANGED <<onHealth, database, scans, settled, selectedFixes, ticked, applying, request,
                 scanned>>

-----------------------------------------------------------------------------
(* Applying.  mutationFn is the closure the effects have installed.        *)

SentDatabase == IF settled.view # Nothing THEN settled.view.database ELSE settled.database

Send(mutation, fixes, tables) ==
  /\ view # Nothing /\ mutation \notin applying
  /\ request' = [view |-> view, database |-> SentDatabase, fixes |-> fixes, tables |-> tables,
                 chosen |-> IF settled = Committed THEN ticked ELSE {},
                 chosenTables |-> IF settled = Committed THEN selectedTables ELSE {},
                 settled |-> settled = Committed]
  /\ applying' = applying \union {mutation}
  /\ RunEffects
  /\ UNCHANGED <<onHealth, database, scans, scanned>>

Apply ==
  /\ selectedFixes # {}
  /\ Send("fixes", selectedFixes \intersect DOMAIN view.fixes, {})

(* ManualMaintenancePanel *)
BulkRebuild == selectedTables # {} /\ Send("bulk", {}, selectedTables)

(* The POST returns; the job goes on, and the jobs are fetched again.      *)
Posted(mutation) ==
  /\ mutation \in applying
  /\ applying' = applying \ {mutation}
  /\ RunEffects
  /\ UNCHANGED <<onHealth, database, scans, request, scanned>>

Next ==
  /\ onHealth
  /\ \/ Effects
     \/ \E d \in Databases : PickDatabase(d) \/ ScanEnds(d)
     \/ \E r \in Reports : Scan(r)
     \/ \E i \in 1 .. 2 : ToggleFix(i)
     \/ ToggleAllFixes
     \/ \E t \in Tables : ToggleTable(t)
     \/ ToggleAllTables
     \/ Apply
     \/ BulkRebuild
     \/ \E mutation \in {"fixes", "bulk"} : Posted(mutation)

Spec == Init /\ [][Next]_vars

-----------------------------------------------------------------------------
Drops(r) == {i \in r.fixes : r.view.fixes[i] = "DROP"}

(* "Do not pre-select DROP INDEX recommendations; they are destructive and *)
(* must be an explicit operator choice" (HealthTab.tsx:82-83): unless it   *)
(* was clicked before the effects of the render had run, every drop that   *)
(* is sent was ticked by the operator in the report it belongs to, and the *)
(* fixes go to the database of that report, even though another one may    *)
(* have been shown, scanned or picked meanwhile (HealthTab.tsx:52-59,      *)
(* 77-95).                                                                 *)
AppliedAsChosen ==
  request # Nothing /\ request.settled =>
    /\ Drops(request) \subseteq request.chosen
    /\ request.tables \subseteq request.chosenTables
    /\ request.database = request.view.database
=============================================================================
