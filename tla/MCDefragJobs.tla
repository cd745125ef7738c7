---------------------------- MODULE MCDefragJobs ----------------------------
(* Small instances of DefragJobs for TLC. *)
EXTENDS DefragJobs, TLC

(* Calls are interchangeable; used by the safety run only. *)
Symmetry == Permutations(Calls)
=============================================================================
