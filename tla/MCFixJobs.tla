----------------------------- MODULE MCFixJobs -----------------------------
(* Instances of FixJobs for TLC: every batch drops an index i1 of a table    *)
(* and updates its statistics, in an order that has to be exchanged.         *)
EXTENDS FixJobs, TLC
CONSTANTS i1

Drop == [kind |-> "drop-index", table |-> 1, index |-> i1]
UpdateStats == [kind |-> "update-stats", table |-> 1, index |-> i1]
MCBatches == {<<Drop, UpdateStats>>}

Symmetry == Permutations(Calls)
=============================================================================
