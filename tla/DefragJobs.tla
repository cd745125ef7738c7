----------------------------- MODULE DefragJobs -----------------------------
(***************************************************************************)
(* The sql-server plugin's AdaptiveIndexDefrag jobs                        *)
(* (sql-server/internal/sqldefrag/jobs.go): defrag-run starts a detached   *)
(* job, defrag-stop stops all running ones, defrag-jobs lists them.        *)
(*                                                                         *)
(* A job is named by the call of defrag-run that starts it (the code uses  *)
(* the start time).  The registry's mutex makes each locked section one    *)
(* action; between them run the handlers (pc), the jobs' goroutines        *)
(* (worker) and the procedure on the SQL server (executing).               *)
(***************************************************************************)
EXTENDS Naturals, FiniteSets

CONSTANTS Calls,  \* calls of defrag-run
          Keep    \* pruneLocked's bound on the registry (25 in the code)

ASSUME KeepAssumption == Keep \in Nat

VARIABLES
  pc,         \* pc[c]: where the handler of call c is
  options,    \* options[c]: which of StopExisting, TerminateExisting is set
  jobs,       \* JobRegistry.jobs; status "absent" is a missing key
  ctxDone,    \* ctxDone[c]: the context of job c was cancelled
  worker,     \* worker[c]: where runDetached of job c is
  outcome,    \* outcome[c]: what Run returned
  finished,   \* finished[c]: when Run returned
  executing,  \* jobs whose procedure runs on the SQL server
  clock       \* ticks at every time.Now() that a property depends on

vars == <<pc, options, jobs, ctxDone, worker, outcome, finished, executing, clock>>

Options == {"stopExisting", "terminateExisting"}
Points == {"idle", "stop", "terminate", "insert", "done"}
WorkerPoints == {"none", "spawned", "running", "record", "done"}
AbsentJob == [status |-> "absent", at |-> 0, cancel |-> FALSE]

TypeOK ==
  /\ pc \in [Calls -> Points]
  /\ options \in [Calls -> SUBSET Options]
  /\ jobs \in [Calls -> [status : {"absent", "running", "done", "failed", "stopped"},
                         at : Nat, cancel : BOOLEAN]]
  /\ ctxDone \in [Calls -> BOOLEAN]
  /\ worker \in [Calls -> WorkerPoints]
  /\ outcome \in [Calls -> {"none", "ok", "err"}]
  /\ finished \in [Calls -> Nat]
  /\ executing \in SUBSET Calls
  /\ clock \in Nat

Init ==
  /\ pc = [c \in Calls |-> "idle"]
  /\ options = [c \in Calls |-> {}]
  /\ jobs = [c \in Calls |-> AbsentJob]
  /\ ctxDone = [c \in Calls |-> FALSE]
  /\ worker = [c \in Calls |-> "none"]
  /\ outcome = [c \in Calls |-> "none"]
  /\ finished = [c \in Calls |-> 0]
  /\ executing = {}
  /\ clock = 0

-----------------------------------------------------------------------------
(* The registry. *)

Present(J) == {j \in Calls : J[j].status # "absent"}
Running(J) == {j \in Calls : J[j].status = "running"}

(* Mutant: running jobs are pruned like others.                            *)
Prunable_TakesRunning(J, removed) ==
  LET over == Present(J)
      excess == Cardinality(Present(J)) - Keep
  IN /\ removed \subseteq over
     /\ IF Cardinality(Present(J)) <= Keep THEN removed = {}
        ELSE Cardinality(removed) = IF excess < Cardinality(over) THEN excess
                                    ELSE Cardinality(over)
     /\ \A j \in removed, k \in over \ removed : J[j].at <= J[k].at

(* Mutant: the jobs that ended last are pruned first.                      *)
Prunable_NewestFirst(J, removed) ==
  LET over == Present(J) \ Running(J)
      excess == Cardinality(Present(J)) - Keep
  IN /\ removed \subseteq over
     /\ IF Cardinality(Present(J)) <= Keep THEN removed = {}
        ELSE Cardinality(removed) = IF excess < Cardinality(over) THEN excess
                                    ELSE Cardinality(over)
     /\ \A j \in removed, k \in over \ removed : J[j].at >= J[k].at

(* A set of jobs that pruneLocked(Keep) may remove from J: the finished    *)
(* jobs that ended first, as many as are needed or as there are.  Jobs     *)
(* that ended at the same instant are taken in the map's random order.     *)
Prunable(J, removed) ==
  LET over == Present(J) \ Running(J)
      excess == Cardinality(Present(J)) - Keep
  IN /\ removed \subseteq over
     /\ IF Cardinality(Present(J)) <= Keep THEN removed = {}
        ELSE Cardinality(removed) = IF excess < Cardinality(over) THEN excess
                                    ELSE Cardinality(over)
     /\ \A j \in removed, k \in over \ removed : J[j].at <= J[k].at

(* Mutant: a status that no client knows.                                  *)
StopLocked_UnknownStatus(S) ==
  /\ jobs' = [j \in Calls |-> IF j \in S \intersect Running(jobs)
                              THEN [status |-> "cancelled", at |-> clock + 1, cancel |-> FALSE]
                              ELSE jobs[j]]
  /\ ctxDone' = [j \in Calls |-> ctxDone[j] \/ j \in S \intersect Running(jobs)]
  /\ clock' = clock + 1

(* Stop and StopRunning: mark the running jobs of S and cancel them.       *)
StopLocked(S) ==
  LET stopping == S \intersect Running(jobs)
  IN /\ jobs' = [j \in Calls |->
                   IF j \in stopping
                   THEN [status |-> "stopped", at |-> clock + 1, cancel |-> FALSE]
                   ELSE jobs[j]]
     /\ ctxDone' = [j \in Calls |-> ctxDone[j] \/ (j \in stopping /\ jobs[j].cancel)]
     /\ clock' = IF stopping = {} THEN clock ELSE clock + 1

-----------------------------------------------------------------------------
(* startWithDB, run by the handler of call c. *)

AfterStop(opts) == IF "terminateExisting" \in opts THEN "terminate" ELSE "insert"

(* normalizeRunOptions and BuildRunSQL, which may refuse the options.      *)
Prepare(c) ==
  /\ pc[c] = "idle"
  /\ \E opts \in SUBSET Options :
       /\ options' = [options EXCEPT ![c] = opts]
       /\ pc' = [pc EXCEPT ![c] = IF "stopExisting" \in opts THEN "stop" ELSE AfterStop(opts)]
  /\ UNCHANGED <<jobs, ctxDone, worker, outcome, finished, executing, clock>>

Refuse(c) ==
  /\ pc[c] = "idle"
  /\ pc' = [pc EXCEPT ![c] = "done"]
  /\ UNCHANGED <<options, jobs, ctxDone, worker, outcome, finished, executing, clock>>

StopExisting(c) ==
  /\ pc[c] = "stop"
  /\ StopLocked(Calls)
  /\ pc' = [pc EXCEPT ![c] = AfterStop(options[c])]
  /\ UNCHANGED <<options, worker, outcome, finished, executing>>

(* TerminateExistingRuns kills every session on the server that runs the   *)
(* procedure, this plugin's jobs included; an error may leave some alive   *)
(* and refuses the call.                                                   *)
TerminateExisting(c) ==
  /\ pc[c] = "terminate"
  /\ \/ executing' = {} /\ pc' = [pc EXCEPT ![c] = "insert"]
     \/ executing' \in SUBSET executing /\ pc' = [pc EXCEPT ![c] = "done"]
  /\ UNCHANGED <<options, jobs, ctxDone, worker, outcome, finished, clock>>

(* The job enters the registry, old jobs leave it, the goroutine starts.   *)
Insert(c) ==
  /\ pc[c] = "insert"
  /\ LET J == [jobs EXCEPT ![c] = [status |-> "running", at |-> 0, cancel |-> TRUE]]
     IN \E removed \in SUBSET Calls :
          /\ Prunable(J, removed)
          /\ jobs' = [j \in Calls |-> IF j \in removed THEN AbsentJob ELSE J[j]]
  /\ pc' = [pc EXCEPT ![c] = "done"]
  /\ worker' = [worker EXCEPT ![c] = "spawned"]
  /\ UNCHANGED <<options, ctxDone, outcome, finished, executing, clock>>

-----------------------------------------------------------------------------
(* runDetached, the goroutine of job c, and Run, which it calls. *)

RunReturns(c, out) ==
  /\ outcome' = [outcome EXCEPT ![c] = out]
  /\ finished' = [finished EXCEPT ![c] = clock + 1]
  /\ clock' = clock + 1
  /\ worker' = [worker EXCEPT ![c] = "record"]

(* Run starts the procedure unless the context is done or a query fails.   *)
RunStart(c) ==
  /\ worker[c] = "spawned"
  /\ \/ /\ ~ctxDone[c]
        /\ worker' = [worker EXCEPT ![c] = "running"]
        /\ executing' = executing \union {c}
        /\ UNCHANGED <<outcome, finished, clock>>
     \/ RunReturns(c, "err") /\ UNCHANGED executing
  /\ UNCHANGED <<pc, options, jobs, ctxDone>>

(* Mutant: a cancelled run waits for the server.                           *)
RunEnd_WaitsForServer(c) ==
  /\ worker[c] = "running"
  /\ \/ c \notin executing /\ RunReturns(c, "err")
     \/ c \in executing /\ ~ctxDone[c] /\ RunReturns(c, "ok")
  /\ executing' = executing \ {c}
  /\ UNCHANGED <<pc, options, jobs, ctxDone>>

(* Run returns.  A killed session or a cancelled context is an error, the  *)
(* latter at the latest in GetStatus, which uses the same context.         *)
RunEnd(c) ==
  /\ worker[c] = "running"
  /\ \/ RunReturns(c, "err")
     \/ c \in executing /\ ~ctxDone[c] /\ RunReturns(c, "ok")
  /\ executing' = executing \ {c}
  /\ UNCHANGED <<pc, options, jobs, ctxDone>>

(* Mutant: the verdict of Run overrides a stop.                            *)
Record_IgnoresStop(c) ==
  /\ worker[c] = "record"
  /\ jobs' = IF jobs[c].status = "absent" THEN jobs
             ELSE [jobs EXCEPT ![c] =
                     [status |-> IF outcome[c] = "err" THEN "failed" ELSE "done",
                      at |-> finished[c], cancel |-> FALSE]]
  /\ worker' = [worker EXCEPT ![c] = "done"]
  /\ outcome' = [outcome EXCEPT ![c] = "none"]
  /\ finished' = [finished EXCEPT ![c] = 0]
  /\ UNCHANGED <<pc, options, ctxDone, executing, clock>>

(* Mutant: a pruned job comes back.                                        *)
Record_Revives(c) ==
  /\ worker[c] = "record"
  /\ jobs' = [jobs EXCEPT ![c] =
                     [status |-> IF jobs[c].status = "stopped" THEN "stopped"
                                 ELSE IF outcome[c] = "err" THEN "failed" ELSE "done",
                      at |-> finished[c], cancel |-> FALSE]]
  /\ worker' = [worker EXCEPT ![c] = "done"]
  /\ outcome' = [outcome EXCEPT ![c] = "none"]
  /\ finished' = [finished EXCEPT ![c] = 0]
  /\ UNCHANGED <<pc, options, ctxDone, executing, clock>>

(* Mutant: an error leaves the job as it is.                               *)
Record_ErrorReturnsEarly(c) ==
  /\ worker[c] = "record"
  /\ jobs' = IF jobs[c].status = "absent" \/ outcome[c] = "err" THEN jobs
             ELSE [jobs EXCEPT ![c] =
                     [status |-> IF jobs[c].status = "stopped" THEN "stopped" ELSE "done",
                      at |-> finished[c], cancel |-> FALSE]]
  /\ worker' = [worker EXCEPT ![c] = "done"]
  /\ outcome' = [outcome EXCEPT ![c] = "none"]
  /\ finished' = [finished EXCEPT ![c] = 0]
  /\ UNCHANGED <<pc, options, ctxDone, executing, clock>>

(* The last locked section: a job stopped meanwhile stays stopped, though  *)
(* its finish time is the one of Run; a job pruned meanwhile is ignored.   *)
Record(c) ==
  /\ worker[c] = "record"
  /\ jobs' = IF jobs[c].status = "absent" THEN jobs
             ELSE [jobs EXCEPT ![c] =
                     [status |-> IF jobs[c].status = "stopped" THEN "stopped"
                                 ELSE IF outcome[c] = "err" THEN "failed" ELSE "done",
                      at |-> finished[c], cancel |-> FALSE]]
  /\ worker' = [worker EXCEPT ![c] = "done"]
  /\ outcome' = [outcome EXCEPT ![c] = "none"]
  /\ finished' = [finished EXCEPT ![c] = 0]
  /\ UNCHANGED <<pc, options, ctxDone, executing, clock>>

-----------------------------------------------------------------------------
(* The other operations. *)

(* JobRegistry.Stop *)
Stop(c) ==
  /\ jobs[c].status = "running"
  /\ StopLocked({c})
  /\ UNCHANGED <<pc, options, worker, outcome, finished, executing>>

(* defrag-stop: JobRegistry.StopRunning *)
StopRunning ==
  /\ Running(jobs) # {}
  /\ StopLocked(Calls)
  /\ UNCHANGED <<pc, options, worker, outcome, finished, executing>>

(* defrag-terminate: kills sessions without telling the registry.          *)
Terminate ==
  /\ executing # {}
  /\ executing' \in SUBSET executing
  /\ executing' # executing
  /\ UNCHANGED <<pc, options, jobs, ctxDone, worker, outcome, finished, clock>>

Handler(c) == Prepare(c) \/ Refuse(c) \/ StopExisting(c) \/ TerminateExisting(c) \/ Insert(c)
Worker(c) == RunStart(c) \/ RunEnd(c) \/ Record(c)

Next ==
  \/ \E c \in Calls : Handler(c) \/ Worker(c) \/ Stop(c)
  \/ StopRunning
  \/ Terminate

Spec == Init /\ [][Next]_vars

(* The scheduler runs every goroutine.  Run need not return by itself (an  *)
(* index rebuild has no time limit), but it does once its context is done  *)
(* or its session was killed.                                              *)
Cut(c) == ctxDone[c] \/ c \notin executing
Fairness ==
  \A c \in Calls :
    /\ WF_vars(RunStart(c))
    /\ WF_vars(Cut(c) /\ RunEnd(c))
    /\ WF_vars(Record(c))

FairSpec == Spec /\ Fairness

-----------------------------------------------------------------------------
(* No maintenance run escapes the operator: as long as the goroutine of a  *)
(* job may work on the server and its context is not cancelled, the job is *)
(* listed as running and can be cancelled.  pruneLocked must never drop a  *)
(* running job, and no verdict may come before Run returned                *)
(* (jobs.go:132-162, 238-267).                                             *)
RunCanBeStopped ==
  \A c \in Calls :
    worker[c] \in {"spawned", "running"} /\ ~ctxDone[c] =>
      jobs[c].status = "running" /\ jobs[c].cancel

(* A cancelled job is reported as stopped, whatever Run returned and       *)
(* whenever it returned it (jobs.go:148-154).                              *)
CancelledIsReportedStopped ==
  \A c \in Calls : ctxDone[c] => jobs[c].status \in {"stopped", "absent"}

(* The registry forgets a job only for the sake of Keep others that run or *)
(* that ended no earlier, so the newest results stay available             *)
(* (jobs.go:257-266).                                                      *)
ForgottenForNewerJobs ==
  [][\A c \in Calls :
       jobs[c].status # "absent" /\ jobs'[c].status = "absent" =>
         Keep <= Cardinality({k \in Present(jobs') :
                    jobs'[k].status = "running" \/ jobs[c].at <= jobs'[k].at})]_vars

(* What clients see of the registry follows the life cycle of a job: the   *)
(* verdict "stopped" in particular is final.                               *)
ListedStatus ==
  [c \in Calls |-> IF jobs[c].status # "absent" THEN jobs[c].status
                   ELSE IF worker[c] = "none" THEN "absent" ELSE "removed"]
Lifecycle == INSTANCE JobLifecycle WITH Jobs <- Calls, status <- ListedStatus
FollowsLifecycle == Lifecycle!Spec

(* Stopping works: the goroutine of a cancelled job comes to its end, and a *)
(* run whose session was killed does not stay listed as running             *)
(* (defrag-terminate does not touch the registry; Run's error does).        *)
CutJobEnds ==
  /\ \A c \in Calls :
       worker[c] \in {"spawned", "running"} /\ ctxDone[c] ~> worker[c] = "done"
  /\ \A c \in Calls :
       worker[c] = "running" /\ c \notin executing ~> jobs[c].status # "running"
=============================================================================
