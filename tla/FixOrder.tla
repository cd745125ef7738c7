------------------------------ MODULE FixOrder ------------------------------
(***************************************************************************)
(* The order in which a batch of health fixes is applied                   *)
(* (sql-server/internal/sqldefrag/fix.go, orderFixes): by schema and table *)
(* and, within a table, rebuilds and reorganizes first, statistics next,   *)
(* drops last; fixes that tie keep the caller's order.  A schema and table *)
(* are one number here, in the order of their names.                       *)
(***************************************************************************)
EXTENDS Naturals, Sequences, FiniteSets

FixKinds == {"rebuild", "rebuild-all", "reorganize", "update-stats",
             "update-all-stats", "drop-index"}

(* Mutant: drops rank with the statistics.                                 *)
KindRank_NoDropCase(kind) == IF kind \in {"rebuild", "rebuild-all", "reorganize"} THEN 0 ELSE 1

KindRank(kind) ==
  CASE kind \in {"rebuild", "rebuild-all", "reorganize"} -> 0
    [] kind = "drop-index" -> 2
    [] OTHER -> 1

(* The comparison handed to sort.SliceStable.                              *)
Less(f, g) ==
  \/ f.table < g.table
  \/ f.table = g.table /\ KindRank(f.kind) < KindRank(g.kind)

(* In a stable sort fix j of the batch goes before fix i.                  *)
GoesBefore(fixes, j, i) ==
  Less(fixes[j], fixes[i]) \/ (~Less(fixes[i], fixes[j]) /\ j < i)

OrderFixes(fixes) ==
  LET rank(i) == Cardinality({j \in DOMAIN fixes : GoesBefore(fixes, j, i)})
  IN [k \in DOMAIN fixes |-> fixes[CHOOSE i \in DOMAIN fixes : rank(i) = k - 1]]
=============================================================================
