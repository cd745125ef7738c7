---------------------------- MODULE HealthTriage ----------------------------
(***************************************************************************)
(* What a health scan of the sql-server plugin recommends for a table      *)
(* (stitchHealth and flagIndexDropCandidates of sqldefrag/health.go,       *)
(* RecommendFixes of fix.go).  A scan returns a row per index, and several *)
(* for a partitioned index or in DETAILED mode.  Percentages and page      *)
(* counts are abstracted to the maintenance that they call for, the sizes  *)
(* of statistics samples are left out.                                     *)
(***************************************************************************)
EXTENDS FixOrder, Filter

CONSTANTS Scans,  \* the scans of the table that are looked at: rows, stale
          All     \* the target of a fix of the whole table

Wear == {"none", "reorganize", "rebuild"}

IsList(q) == q \in Seq({q[n] : n \in DOMAIN q})

(* The rows of an index differ in its wear only.                           *)
IsScan(s) ==
  /\ IsList(s.rows) /\ IsList(s.stale)
  /\ \A n \in DOMAIN s.rows :
       /\ s.rows[n].wear \in Wear /\ IsList(s.rows[n].key)
       /\ {s.rows[n].essential, s.rows[n].read} \subseteq BOOLEAN
       /\ s.rows[n].index # All
  /\ \A n \in DOMAIN s.stale : s.stale[n] # All
  /\ \A m, n \in DOMAIN s.rows : s.rows[m].index = s.rows[n].index =>
       /\ s.rows[m].key = s.rows[n].key
       /\ s.rows[m].essential = s.rows[n].essential /\ s.rows[m].read = s.rows[n].read

TriageAssumption == \A s \in Scans : IsScan(s)

VARIABLES
  onScan,  \* the scan is what is looked at
  scan,    \* the scan: the rows of the table's indexes, its stale statistics by name
  triaged, \* RecommendFixes has seen it ...
  fixes    \* ... and recommends these

vars == <<onScan, scan, triaged, fixes>>

StaleNames == {scan.stale[n] : n \in DOMAIN scan.stale}
Rows == {scan.rows[n] : n \in DOMAIN scan.rows}

TypeOK ==
  /\ onScan \in BOOLEAN
  /\ IsScan(scan) /\ triaged \in BOOLEAN
  /\ \A n \in DOMAIN fixes :
       /\ fixes[n].kind \in FixKinds /\ fixes[n].table = 1
       /\ fixes[n].index \in {r.index : r \in Rows} \union StaleNames \union {All}

Init ==
  /\ onScan \in BOOLEAN
  /\ scan \in Scans
  /\ triaged = FALSE
  /\ fixes = <<>>

-----------------------------------------------------------------------------
(* Which indexes are dropped. *)

(* Mutant: an index as long as this one makes it redundant.                *)
IsKeyPrefix_NotStrict(prefix, full) ==
  Len(prefix) <= Len(full) /\ \A n \in DOMAIN prefix : prefix[n] = full[n]

IsKeyPrefix(prefix, full) ==
  Len(prefix) < Len(full) /\ \A n \in DOMAIN prefix : prefix[n] = full[n]

(* Mutant: clustered, primary and unique indexes are dropped like others.  *)
Droppable_Any(row) == row.key # <<>>

(* Only an index that is not clustered, not a primary key and not unique.  *)
Droppable(row) == ~row.essential /\ row.key # <<>>

Redundant(row) == \E other \in Rows : IsKeyPrefix(row.key, other.key)

DropCandidate(row) == Droppable(row) /\ (Redundant(row) \/ ~row.read)

-----------------------------------------------------------------------------
(* What is recommended. *)

Fix(kind, index) == [kind |-> kind, table |-> 1, index |-> index]

Maintained == Filter(scan.rows, {r \in Rows : ~DropCandidate(r) /\ r.wear # "none"})
Rebuilt == Filter(Maintained, {r \in Rows : r.wear = "rebuild"})

Drops ==
  LET rows == Filter(scan.rows, {r \in Rows : DropCandidate(r)})
  IN [n \in DOMAIN rows |-> Fix("drop-index", rows[n].index)]

(* Two rows to rebuild collapse to ALTER INDEX ALL REBUILD.                *)
Collapsed == Len(Rebuilt) >= 2

IndexFixes ==
  IF Collapsed THEN <<Fix("rebuild-all", All)>> \o Drops
  ELSE [n \in DOMAIN Maintained |-> Fix(Maintained[n].wear, Maintained[n].index)] \o Drops

(* Mutant: two stale statistics are still updated one by one.              *)
StatsFixes_Threshold(stale) ==
  CASE stale = <<>> -> <<>>
    [] Len(stale) \in 1 .. 2 -> <<Fix("update-stats", stale[1])>>
    [] OTHER -> <<Fix("update-all-stats", All)>>

(* Two stale statistics collapse to UPDATE STATISTICS of the table.        *)
StatsFixes(stale) ==
  CASE stale = <<>> -> <<>>
    [] Len(stale) = 1 -> <<Fix("update-stats", stale[1])>>
    [] OTHER -> <<Fix("update-all-stats", All)>>

(* A rebuild refreshes the statistics of its index.  The statistics of a   *)
(* table that collapses are not looked at, those of its columns neither.   *)
Stale ==
  IF Collapsed THEN <<>>
  ELSE Filter(scan.stale, {s \in StaleNames : \A n \in DOMAIN Rebuilt : Rebuilt[n].index # s})

RecommendFixes ==
  /\ ~triaged
  /\ triaged' = TRUE
  /\ fixes' = OrderFixes(IndexFixes \o StatsFixes(Stale))
  /\ UNCHANGED <<onScan, scan>>

Next == onScan /\ RecommendFixes

Spec == Init /\ [][Next]_vars

-----------------------------------------------------------------------------
Recommended(kinds, index) ==
  \E n \in DOMAIN fixes : fixes[n].kind \in kinds /\ fixes[n].index \in {index, All}

Dropped(row) == Recommended({"drop-index"}, row.index)

IndexNames == {row.index : row \in Rows}

(* However the fixes of a table collapse, there is one need only that no   *)
(* fix is for: every index that needs maintenance and is not dropped gets  *)
(* at least that, and of every stale statistic that is an index's either   *)
(* the statistic is updated or the index rebuilt; that of a column is      *)
(* updated, unless all indexes are rebuilt at once, which leaves it stale  *)
(* (indexFixesFor, statsFixesFor, fix.go:97-99).                           *)
UnmetNeedIsOfAColumn ==
  triaged =>
    /\ \A row \in Rows : ~Dropped(row) =>
         /\ row.wear = "rebuild" => Recommended({"rebuild", "rebuild-all"}, row.index)
         /\ row.wear = "reorganize" =>
              Recommended({"reorganize", "rebuild", "rebuild-all"}, row.index)
    /\ \A s \in StaleNames :
         \/ Recommended({"update-stats", "update-all-stats"}, s)
         \/ s \in IndexNames /\ Recommended({"rebuild", "rebuild-all"}, s)
         \/ s \notin IndexNames /\ Recommended({"rebuild-all"}, All)

(* An index that enforces a key is never dropped; one that is used is      *)
(* dropped only if its key is a prefix of that of another index which      *)
(* stays, or which is itself unused: such a one the same batch drops too,  *)
(* and queries may lose both (flagIndexDropCandidates, health.go:316).     *)
UsedIndexHasSubstitute ==
  \A row \in Rows : Dropped(row) =>
    /\ ~row.essential
    /\ row.read => \E other \in Rows : /\ IsKeyPrefix(row.key, other.key)
                                       /\ ~Dropped(other) \/ ~other.read
=============================================================================
