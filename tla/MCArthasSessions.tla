-------------------------- MODULE MCArthasSessions --------------------------
(* Small instances of ArthasSessions for TLC: create requests for the two  *)
(* containers of one pod.                                                  *)
EXTENDS ArthasSessions

CONSTANTS r1, c1

(* Containers are interchangeable: the first request is for the first one. *)
MCInit == Init /\ ContainerOf(target[r1]) = c1

MCSpec == MCInit /\ [][Next]_vars /\ Fairness
=============================================================================
