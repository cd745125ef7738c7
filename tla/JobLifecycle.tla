---------------------------- MODULE JobLifecycle ----------------------------
(***************************************************************************)
(* What a plugin promises about its detached jobs: a started job is        *)
(* listed as running until it is done, failed or stopped, that verdict is  *)
(* final, and only a job with a verdict is ever forgotten.                 *)
(***************************************************************************)
CONSTANT Jobs

VARIABLE status  \* what a client that lists the jobs is told

Verdicts == {"done", "failed", "stopped"}

Init == status = [j \in Jobs |-> "absent"]

(* One critical section of the registry may start a job, give verdicts and *)
(* forget old jobs at once; each single job moves forward only.            *)
Forward(old, new) ==
  \/ new = old
  \/ old = "absent" /\ new = "running"
  \/ old = "running" /\ new \in Verdicts
  \/ old \in Verdicts /\ new = "removed"

Next ==
  /\ status' \in [Jobs -> {"absent", "running", "removed"} \union Verdicts]
  /\ \A j \in Jobs : Forward(status[j], status'[j])

Spec == Init /\ [][Next]_status
=============================================================================
