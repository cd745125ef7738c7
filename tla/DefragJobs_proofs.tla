------------------------- MODULE DefragJobs_proofs -------------------------
(***************************************************************************)
(* Proofs about DefragJobs for every number of calls and every bound on    *)
(* the registry: a maintenance run can always be stopped, "stopped" is     *)
(* final, and the registry implements the abstract life cycle of a job.    *)
(***************************************************************************)
EXTENDS DefragJobs, FiniteSetTheorems, TLAPS

Active == {"spawned", "running", "record"}

(* A job exists only once its handler inserted it.                         *)
InsertedOnce ==
  \A c \in Calls :
    /\ pc[c] # "done" => worker[c] = "none"
    /\ worker[c] = "none" => jobs[c].status = "absent" /\ ~ctxDone[c]

(* A job listed as running is the live, cancellable job of a goroutine.    *)
RunningIsActive ==
  \A c \in Calls :
    jobs[c].status = "running" => worker[c] \in Active /\ jobs[c].cancel /\ ~ctxDone[c]

(* The goroutine of a job that nobody cancelled is listed as running.      *)
ActiveIsRunning ==
  \A c \in Calls :
    worker[c] \in Active /\ ~ctxDone[c] => jobs[c].status = "running"

IInv ==
  /\ TypeOK
  /\ InsertedOnce
  /\ RunningIsActive
  /\ ActiveIsRunning
  /\ CancelledIsReportedStopped

-----------------------------------------------------------------------------
(* Stop and StopRunning touch running jobs only, and cancel those.         *)
LEMMA StopLockedEffect ==
  ASSUME IInv, NEW S \in SUBSET Calls, StopLocked(S), NEW c \in Calls
  PROVE  \/ /\ jobs[c].status = "running"
            /\ jobs'[c].status = "stopped"
            /\ ctxDone'[c]
         \/ jobs'[c] = jobs[c] /\ ctxDone'[c] = ctxDone[c]
  BY DEF IInv, TypeOK, StopLocked, Running, RunningIsActive

LEMMA StopLockedIInv ==
  ASSUME IInv, NEW S \in SUBSET Calls, StopLocked(S),
         pc' \in [Calls -> Points], \A c \in Calls : pc'[c] = "done" <=> pc[c] = "done",
         UNCHANGED <<options, worker, outcome, finished, executing>>
  PROVE  IInv'
<1>1. TypeOK'
  BY DEF IInv, TypeOK, StopLocked
<1>2. \A c \in Calls :
        \/ /\ jobs[c].status = "running"
           /\ jobs'[c].status = "stopped"
           /\ ctxDone'[c]
        \/ jobs'[c] = jobs[c] /\ ctxDone'[c] = ctxDone[c]
  BY StopLockedEffect
<1>3. InsertedOnce' BY <1>2 DEF IInv, InsertedOnce, RunningIsActive, Active
<1>4. RunningIsActive' BY <1>2 DEF IInv, RunningIsActive
<1>5. ActiveIsRunning' BY <1>2 DEF IInv, ActiveIsRunning
<1>6. CancelledIsReportedStopped'
  BY <1>2 DEF IInv, CancelledIsReportedStopped
<1>7. QED BY <1>1, <1>3, <1>4, <1>5, <1>6 DEF IInv

(* Insert adds job c and removes finished jobs only.                       *)
LEMMA InsertEffect ==
  ASSUME IInv, NEW c \in Calls, Insert(c)
  PROVE  /\ jobs'[c] = [status |-> "running", at |-> 0, cancel |-> TRUE]
         /\ \A j \in Calls \ {c} :
              jobs'[j] = jobs[j] \/ (jobs'[j] = AbsentJob /\ jobs[j].status # "running")
<1> DEFINE J == [jobs EXCEPT ![c] = [status |-> "running", at |-> 0, cancel |-> TRUE]]
<1>1. PICK removed \in SUBSET Calls :
        /\ Prunable(J, removed)
        /\ jobs' = [j \in Calls |-> IF j \in removed THEN AbsentJob ELSE J[j]]
  BY DEF Insert
<1>2. \A j \in removed : J[j].status # "running"
  BY <1>1 DEF Prunable, Running
<1>3. J[c].status = "running" /\ \A j \in Calls \ {c} : J[j] = jobs[j]
  BY DEF IInv, TypeOK
<1>4. J[c] = [status |-> "running", at |-> 0, cancel |-> TRUE]
  BY DEF IInv, TypeOK
<1> HIDE DEF J
<1>5. QED BY <1>1, <1>2, <1>3, <1>4

LEMMA InitIInv == Init => IInv
  BY DEF Init, IInv, TypeOK, InsertedOnce, RunningIsActive, ActiveIsRunning,
         CancelledIsReportedStopped, AbsentJob, Points, WorkerPoints, Active

(* The steps of the handler of defrag-run.                                 *)
LEMMA HandlerIInv ==
  ASSUME IInv, NEW c \in Calls, Handler(c)
  PROVE  IInv'
<1>1. TypeOK BY DEF IInv
<1>2. CASE Prepare(c) \/ Refuse(c)
  <2>1. /\ pc[c] = "idle"
        /\ \E p \in {"stop", "terminate", "insert", "done"} : pc' = [pc EXCEPT ![c] = p]
        /\ options' \in [Calls -> SUBSET Options]
        /\ UNCHANGED <<jobs, ctxDone, worker, outcome, finished, executing, clock>>
    BY <1>1, <1>2 DEF Prepare, Refuse, AfterStop, TypeOK
  <2>2. TypeOK' BY <1>1, <2>1 DEF TypeOK, Points
  <2>3. InsertedOnce' BY <1>1, <2>1 DEF IInv, InsertedOnce, TypeOK
  <2>4. QED
    BY <2>1, <2>2, <2>3
       DEF IInv, RunningIsActive, ActiveIsRunning, CancelledIsReportedStopped
<1>3. CASE StopExisting(c)
  <2>1. /\ pc' \in [Calls -> Points]
        /\ \A k \in Calls : pc'[k] = "done" <=> pc[k] = "done"
    BY <1>1, <1>3 DEF StopExisting, AfterStop, TypeOK, Points
  <2>2. QED BY <1>3, <2>1, StopLockedIInv DEF StopExisting
<1>4. CASE TerminateExisting(c)
  <2>1. /\ pc[c] = "terminate"
        /\ \E p \in {"insert", "done"} : pc' = [pc EXCEPT ![c] = p]
        /\ executing' \in SUBSET Calls
        /\ UNCHANGED <<options, jobs, ctxDone, worker, outcome, finished, clock>>
    BY <1>1, <1>4 DEF TerminateExisting, TypeOK
  <2>2. TypeOK' BY <1>1, <2>1 DEF TypeOK, Points
  <2>3. InsertedOnce' BY <1>1, <2>1 DEF IInv, InsertedOnce, TypeOK
  <2>4. QED
    BY <2>1, <2>2, <2>3
       DEF IInv, RunningIsActive, ActiveIsRunning, CancelledIsReportedStopped
<1>5. CASE Insert(c)
  <2>1. /\ pc[c] = "insert"
        /\ pc' = [pc EXCEPT ![c] = "done"]
        /\ worker' = [worker EXCEPT ![c] = "spawned"]
        /\ UNCHANGED <<options, ctxDone, outcome, finished, executing, clock>>
    BY <1>5 DEF Insert
  <2>2. worker[c] = "none" /\ ~ctxDone[c]
    BY <2>1 DEF IInv, InsertedOnce
  <2>3. /\ jobs'[c] = [status |-> "running", at |-> 0, cancel |-> TRUE]
        /\ \A j \in Calls \ {c} :
             jobs'[j] = jobs[j] \/ (jobs'[j] = AbsentJob /\ jobs[j].status # "running")
    BY <1>5, InsertEffect
  <2>4. TypeOK'
    <3>1. jobs' \in [Calls -> [status : {"absent", "running", "done", "failed", "stopped"},
                               at : Nat, cancel : BOOLEAN]]
      <4>1. jobs' = [j \in Calls |-> jobs'[j]]
        BY <1>5 DEF Insert
      <4>2. ASSUME NEW j \in Calls
            PROVE  jobs'[j] \in [status : {"absent", "running", "done", "failed", "stopped"},
                                 at : Nat, cancel : BOOLEAN]
        <5>1. jobs[j] \in [status : {"absent", "running", "done", "failed", "stopped"},
                           at : Nat, cancel : BOOLEAN]
          BY <1>1 DEF TypeOK
        <5>2. jobs'[j] \in {jobs[j], AbsentJob,
                            [status |-> "running", at |-> 0, cancel |-> TRUE]}
          BY <2>3
        <5>3. CASE jobs'[j] = jobs[j] BY <5>1, <5>3
        <5>4. CASE jobs'[j] = AbsentJob BY <5>4 DEF AbsentJob
        <5>5. CASE jobs'[j] = [status |-> "running", at |-> 0, cancel |-> TRUE]
          BY <5>5
        <5>6. QED BY <5>2, <5>3, <5>4, <5>5
      <4>3. QED BY <4>1, <4>2
    <3>2. QED BY <1>1, <2>1, <3>1 DEF TypeOK, Points, WorkerPoints
  <2>5. InsertedOnce'
    BY <1>1, <2>1, <2>3 DEF IInv, InsertedOnce, TypeOK, AbsentJob
  <2>6. RunningIsActive'
    BY <1>1, <2>1, <2>2, <2>3 DEF IInv, RunningIsActive, Active, TypeOK, AbsentJob
  <2>7. ActiveIsRunning'
    BY <1>1, <2>1, <2>3 DEF IInv, ActiveIsRunning, TypeOK, AbsentJob
  <2>8. CancelledIsReportedStopped'
    BY <1>1, <2>1, <2>2, <2>3 DEF IInv, CancelledIsReportedStopped, TypeOK, AbsentJob
  <2>9. QED BY <2>4, <2>5, <2>6, <2>7, <2>8 DEF IInv
<1>6. QED BY <1>2, <1>3, <1>4, <1>5 DEF Handler

(* The steps of the job's goroutine.                                       *)
LEMMA WorkerIInv ==
  ASSUME IInv, NEW c \in Calls, Worker(c)
  PROVE  IInv'
<1>1. TypeOK BY DEF IInv
<1>2. CASE RunStart(c) \/ RunEnd(c)
  <2>1. /\ worker[c] \in {"spawned", "running"}
        /\ \E w \in {"running", "record"} : worker' = [worker EXCEPT ![c] = w]
        /\ UNCHANGED <<pc, options, jobs, ctxDone>>
    BY <1>2 DEF RunStart, RunEnd, RunReturns
  <2>2. TypeOK'
    <3>1. /\ outcome' \in [Calls -> {"none", "ok", "err"}]
          /\ finished' \in [Calls -> Nat]
          /\ executing' \in SUBSET Calls
          /\ clock' \in Nat
      <4>1. CASE RunReturns(c, "ok") \/ RunReturns(c, "err")
        <5>1. executing' \in SUBSET Calls
          BY <1>1, <1>2 DEF RunStart, RunEnd, TypeOK
        <5>2. outcome' \in [Calls -> {"none", "ok", "err"}]
          BY <1>1, <4>1 DEF RunReturns, TypeOK
        <5>3. clock' \in Nat /\ finished' \in [Calls -> Nat]
          BY <1>1, <4>1 DEF RunReturns, TypeOK
        <5>4. QED BY <5>1, <5>2, <5>3
      <4>2. CASE UNCHANGED <<outcome, finished, clock>> /\ executing' = executing \union {c}
        BY <1>1, <4>2 DEF TypeOK
      <4>3. CASE RunStart(c) BY <4>1, <4>2, <4>3 DEF RunStart
      <4>4. CASE RunEnd(c) BY <4>1, <4>4 DEF RunEnd
      <4>5. QED BY <1>2, <4>3, <4>4
    <3>2. worker' \in [Calls -> WorkerPoints]
      BY <1>1, <2>1 DEF TypeOK, WorkerPoints
    <3>3. UNCHANGED <<pc, options, jobs, ctxDone>> BY <2>1
    <3>4. QED BY <1>1, <3>1, <3>2, <3>3 DEF TypeOK
  <2>3. InsertedOnce' BY <1>1, <2>1 DEF IInv, InsertedOnce, TypeOK
  <2>4. RunningIsActive' BY <1>1, <2>1 DEF IInv, RunningIsActive, Active, TypeOK
  <2>5. ActiveIsRunning' BY <1>1, <2>1 DEF IInv, ActiveIsRunning, Active, TypeOK
  <2>6. CancelledIsReportedStopped' BY <2>1 DEF IInv, CancelledIsReportedStopped
  <2>7. QED BY <2>2, <2>3, <2>4, <2>5, <2>6 DEF IInv
<1>3. CASE Record(c)
  <2>1. /\ worker[c] = "record"
        /\ worker' = [worker EXCEPT ![c] = "done"]
        /\ UNCHANGED <<pc, options, ctxDone, executing, clock>>
        /\ outcome' = [outcome EXCEPT ![c] = "none"]
        /\ finished' = [finished EXCEPT ![c] = 0]
    BY <1>3 DEF Record
  <2>2. \A j \in Calls \ {c} : jobs'[j] = jobs[j]
    BY <1>1, <1>3 DEF Record, TypeOK
  <2>3. /\ jobs[c].status = "absent" => jobs'[c].status = "absent"
        /\ jobs[c].status = "stopped" => jobs'[c].status = "stopped"
        /\ jobs'[c].status # "running"
    BY <1>1, <1>3, <2>1 DEF Record, TypeOK, IInv, ActiveIsRunning, Active
  <2>4. TypeOK'
    <3>1. jobs' \in [Calls -> [status : {"absent", "running", "done", "failed", "stopped"},
                               at : Nat, cancel : BOOLEAN]]
      BY <1>1, <1>3 DEF Record, TypeOK
    <3>2. QED BY <1>1, <2>1, <3>1 DEF TypeOK, WorkerPoints
  <2>5. InsertedOnce' BY <1>1, <2>1, <2>2 DEF IInv, InsertedOnce, TypeOK
  <2>6. RunningIsActive' BY <1>1, <2>1, <2>2, <2>3 DEF IInv, RunningIsActive, TypeOK
  <2>7. ActiveIsRunning' BY <1>1, <2>1, <2>2 DEF IInv, ActiveIsRunning, Active, TypeOK
  <2>8. CancelledIsReportedStopped'
    BY <2>1, <2>2, <2>3 DEF IInv, CancelledIsReportedStopped
  <2>9. QED BY <2>4, <2>5, <2>6, <2>7, <2>8 DEF IInv
<1>4. QED BY <1>2, <1>3 DEF Worker

(* Every step preserves the inductive invariant.                           *)
LEMMA NextIInv == IInv /\ [Next]_vars => IInv'
<1> SUFFICES ASSUME IInv, [Next]_vars PROVE IInv'
  OBVIOUS
<1>1. CASE \E c \in Calls : Handler(c)
  BY <1>1, HandlerIInv
<1>2. CASE \E c \in Calls : Worker(c)
  BY <1>2, WorkerIInv
<1>3. CASE \E c \in Calls : Stop(c)
  BY <1>3, StopLockedIInv DEF Stop, IInv, TypeOK
<1>4. CASE StopRunning
  BY <1>4, StopLockedIInv DEF StopRunning, IInv, TypeOK
<1>5. CASE Terminate
  BY <1>5 DEF Terminate, IInv, TypeOK, InsertedOnce, RunningIsActive,
              ActiveIsRunning, CancelledIsReportedStopped
<1>6. CASE UNCHANGED vars
  BY <1>6 DEF vars, IInv, TypeOK, InsertedOnce, RunningIsActive,
              ActiveIsRunning, CancelledIsReportedStopped
<1>7. QED BY <1>1, <1>2, <1>3, <1>4, <1>5, <1>6 DEF Next

-----------------------------------------------------------------------------
(* The variables keep their types.                                         *)
THEOREM TypeCorrect == Spec => []TypeOK
<1>1. IInv => TypeOK BY DEF IInv
<1>2. QED BY InitIInv, NextIInv, <1>1, PTL DEF Spec

(* A run that may work on the server without its context being cancelled   *)
(* is listed as running, with a handle to cancel it.                       *)
THEOREM EveryRunCanBeStopped == Spec => []RunCanBeStopped
<1>1. IInv => RunCanBeStopped
  BY DEF IInv, RunCanBeStopped, RunningIsActive, ActiveIsRunning, Active
<1>2. QED BY InitIInv, NextIInv, <1>1, PTL DEF Spec

(* A cancelled job is never reported as done, failed or running.           *)
THEOREM CancelledStopped == Spec => []CancelledIsReportedStopped
<1>1. IInv => CancelledIsReportedStopped BY DEF IInv
<1>2. QED BY InitIInv, NextIInv, <1>1, PTL DEF Spec

(* Every step of the registry moves each job forward in its life cycle.    *)
LEMMA StepFollowsLifecycle == IInv /\ [Next]_vars => [Lifecycle!Next]_ListedStatus
<1> SUFFICES ASSUME IInv, [Next]_vars PROVE [Lifecycle!Next]_ListedStatus
  OBVIOUS
<1>1. TypeOK BY DEF IInv
<1> DEFINE Old(c) == ListedStatus[c]
           New(c) == ListedStatus'[c]
<1>2. ListedStatus' \in [Calls -> {"absent", "running", "removed"} \union Lifecycle!Verdicts]
  BY NextIInv DEF IInv, TypeOK, ListedStatus, Lifecycle!Verdicts
<1>3. SUFFICES ASSUME NEW c \in Calls
               PROVE  Lifecycle!Forward(ListedStatus[c], ListedStatus'[c])
  BY <1>2 DEF Lifecycle!Next
<1> USE DEF Lifecycle!Forward, Lifecycle!Verdicts
<1>4. CASE jobs'[c] = jobs[c] /\ (worker'[c] = "none" <=> worker[c] = "none")
  BY <1>4 DEF ListedStatus
<1>5. CASE \E k \in Calls : Prepare(k) \/ Refuse(k) \/ TerminateExisting(k)
                              \/ RunStart(k) \/ RunEnd(k)
  <2>1. jobs' = jobs
    BY <1>5 DEF Prepare, Refuse, TerminateExisting, RunStart, RunEnd
  <2>2. worker'[c] = "none" <=> worker[c] = "none"
    BY <1>1, <1>5 DEF Prepare, Refuse, TerminateExisting, RunStart, RunEnd,
                      RunReturns, TypeOK
  <2>3. QED BY <1>4, <2>1, <2>2
<1>6. CASE StopRunning \/ \E k \in Calls : StopExisting(k) \/ Stop(k)
  <2>1. PICK S \in SUBSET Calls : StopLocked(S) /\ UNCHANGED worker
    BY <1>6 DEF StopRunning, StopExisting, Stop
  <2>2. \/ jobs[c].status = "running" /\ jobs'[c].status = "stopped"
        \/ jobs'[c] = jobs[c]
    BY <2>1, StopLockedEffect
  <2>3. QED BY <1>4, <2>1, <2>2 DEF ListedStatus
<1>7. CASE \E k \in Calls : Insert(k)
  <2>1. PICK k \in Calls : Insert(k) BY <1>7
  <2>2. worker' = [worker EXCEPT ![k] = "spawned"] /\ pc[k] = "insert"
    BY <2>1 DEF Insert
  <2>3. /\ jobs'[k] = [status |-> "running", at |-> 0, cancel |-> TRUE]
        /\ \A j \in Calls \ {k} :
             jobs'[j] = jobs[j] \/ (jobs'[j] = AbsentJob /\ jobs[j].status # "running")
    BY <2>1, InsertEffect
  <2>4. CASE c = k
    <3>1. ListedStatus[c] = "absent"
      BY <2>2, <2>4 DEF IInv, InsertedOnce, ListedStatus
    <3>2. ListedStatus'[c] = "running"
      BY <2>3, <2>4 DEF ListedStatus
    <3>3. QED BY <3>1, <3>2
  <2>5. CASE c # k /\ jobs'[c] = jobs[c]
    BY <1>1, <1>4, <2>2, <2>5 DEF TypeOK
  <2>6. CASE c # k /\ jobs[c].status = "absent"
    BY <1>1, <2>2, <2>3, <2>6 DEF ListedStatus, TypeOK, AbsentJob
  <2>7. CASE c # k /\ jobs'[c] = AbsentJob /\ jobs[c].status \notin {"running", "absent"}
    <3>1. worker[c] # "none" BY <2>7 DEF IInv, InsertedOnce
    <3>2. ListedStatus'[c] = "removed"
      BY <1>1, <2>2, <2>7, <3>1 DEF ListedStatus, TypeOK, AbsentJob
    <3>3. ListedStatus[c] \in {"done", "failed", "stopped"}
      BY <1>1, <2>7 DEF ListedStatus, TypeOK
    <3>4. QED BY <3>2, <3>3
  <2>8. QED BY <2>3, <2>4, <2>5, <2>6, <2>7
<1>8. CASE \E k \in Calls : Record(k)
  <2>1. PICK k \in Calls : Record(k) BY <1>8
  <2>2. worker' = [worker EXCEPT ![k] = "done"] /\ worker[k] = "record"
    BY <2>1 DEF Record
  <2>3. CASE c # k
    BY <1>1, <1>4, <2>1, <2>2, <2>3 DEF Record, TypeOK
  <2>4. CASE c = k /\ jobs[c].status = "absent"
    BY <1>1, <1>4, <2>1, <2>2, <2>4 DEF Record, TypeOK
  <2>5. CASE c = k /\ jobs[c].status = "stopped"
    BY <1>1, <2>1, <2>2, <2>5 DEF Record, TypeOK, ListedStatus
  <2>6. CASE c = k /\ jobs[c].status \notin {"absent", "stopped"}
    <3>1. jobs[c].status = "running"
      BY <2>2, <2>6 DEF IInv, ActiveIsRunning, CancelledIsReportedStopped, Active
    <3>2. jobs'[c].status \in {"done", "failed"}
      BY <1>1, <2>1, <2>6 DEF Record, TypeOK
    <3>3. QED BY <3>1, <3>2 DEF ListedStatus
  <2>7. QED BY <2>3, <2>4, <2>5, <2>6
<1>9. CASE Terminate \/ UNCHANGED vars
  BY <1>4, <1>9 DEF Terminate, vars
<1>10. QED
  BY <1>5, <1>6, <1>7, <1>8, <1>9 DEF Next, Handler, Worker

(* The registry implements the abstract life cycle: verdicts are final and *)
(* only finished jobs are forgotten.                                       *)
THEOREM Refinement == Spec => FollowsLifecycle
<1>1. Init => Lifecycle!Init
  BY DEF Init, Lifecycle!Init, ListedStatus, AbsentJob
<1>2. QED
  BY InitIInv, NextIInv, StepFollowsLifecycle, <1>1, PTL
     DEF Spec, FollowsLifecycle, Lifecycle!Spec

-----------------------------------------------------------------------------
(* What the registry forgets. *)

(* At any time the registry holds finitely many jobs, however many calls   *)
(* there will be.                                                          *)
RegistryIsFinite == IsFiniteSet(Present(jobs))

LEMMA InsertAddsOne ==
  ASSUME TypeOK, NEW c \in Calls
  PROVE  Present([jobs EXCEPT ![c] = [status |-> "running", at |-> 0, cancel |-> TRUE]])
           = Present(jobs) \union {c}
  BY DEF TypeOK, Present

(* A step either inserts a job or lists no job that was not listed before, *)
(* and then it forgets none.                                               *)
LEMMA OnlyInsertPrunes ==
  ASSUME IInv, [Next]_vars
  PROVE  \/ \E c \in Calls : Insert(c)
         \/ Present(jobs') = Present(jobs)
<1>1. TypeOK BY DEF IInv
<1>2. CASE \E c \in Calls : Prepare(c) \/ Refuse(c) \/ TerminateExisting(c) \/ Worker(c)
  <2>1. CASE UNCHANGED jobs BY <2>1
  <2>2. CASE \E c \in Calls : Record(c)
    <3>1. PICK c \in Calls : Record(c) BY <2>2
    <3>2. \A j \in Calls : jobs'[j].status = "absent" <=> jobs[j].status = "absent"
      BY <1>1, <3>1 DEF Record, TypeOK
    <3>3. QED BY <3>2 DEF Present
  <2>3. QED
    BY <1>2, <2>1, <2>2 DEF Prepare, Refuse, TerminateExisting, Worker, RunStart, RunEnd
<1>3. CASE StopRunning \/ \E c \in Calls : StopExisting(c) \/ Stop(c)
  <2>1. PICK S \in SUBSET Calls : StopLocked(S)
    BY <1>3 DEF StopRunning, StopExisting, Stop
  <2>2. \A j \in Calls : jobs'[j].status = "absent" <=> jobs[j].status = "absent"
    BY <2>1, StopLockedEffect
  <2>3. QED BY <2>2 DEF Present
<1>4. CASE Terminate \/ UNCHANGED vars BY <1>4 DEF Terminate, vars
<1>5. QED BY <1>2, <1>3, <1>4 DEF Next, Handler

(* pruneLocked leaves at least Keep jobs when it removes any, and each of  *)
(* those it leaves runs or ended no earlier than any it removes.           *)
LEMMA PruneKeepsTheNewest ==
  ASSUME NEW J, NEW removed, Prunable(J, removed), IsFiniteSet(Present(J)),
         NEW c \in removed
  PROVE  /\ IsFiniteSet(Present(J) \ removed)
         /\ Keep <= Cardinality(Present(J) \ removed)
         /\ \A k \in Present(J) \ removed : k \in Running(J) \/ J[c].at <= J[k].at
<1> DEFINE P == Present(J)
           over == P \ Running(J)
           excess == Cardinality(P) - Keep
<1>1. /\ removed \subseteq over
      /\ \A j \in removed, k \in over \ removed : J[j].at <= J[k].at
      /\ IF Cardinality(P) <= Keep THEN removed = {}
         ELSE Cardinality(removed) = IF excess < Cardinality(over) THEN excess
                                     ELSE Cardinality(over)
  BY DEF Prunable
<1>2. IsFiniteSet(P) /\ IsFiniteSet(over) /\ Cardinality(P) \in Nat
  BY FS_Subset, FS_CardinalityType
<1> HIDE DEF P
<1>3. /\ IsFiniteSet(P \ removed)
      /\ Cardinality(P \ removed) = Cardinality(P) - Cardinality(P \cap removed)
  BY <1>2, FS_Difference
<1>4. P \cap removed = removed BY <1>1
<1>5. IsFiniteSet(removed) /\ Cardinality(removed) \in Nat /\ Cardinality(over) \in Nat
  <2>1. IsFiniteSet(removed) BY <1>1, <1>2, FS_Subset
  <2>2. QED BY <1>2, <2>1, FS_CardinalityType
<1>6. ~(Cardinality(P) <= Keep) /\ Cardinality(removed) <= excess
  BY <1>1, <1>2, <1>5, KeepAssumption
<1>7. Keep <= Cardinality(P \ removed)
  BY <1>2, <1>3, <1>4, <1>5, <1>6, KeepAssumption
<1>8. \A k \in P \ removed : k \in Running(J) \/ J[c].at <= J[k].at BY <1>1
<1>9. QED BY <1>3, <1>7, <1>8 DEF P

LEMMA NextRegistryIsFinite == IInv /\ RegistryIsFinite /\ [Next]_vars => RegistryIsFinite'
<1> SUFFICES ASSUME IInv, RegistryIsFinite, [Next]_vars PROVE RegistryIsFinite'
  OBVIOUS
<1>1. CASE \E c \in Calls : Insert(c)
  <2>1. PICK c \in Calls : Insert(c) BY <1>1
  <2>2. Present(jobs') \subseteq Present(jobs) \union {c}
    BY <2>1, InsertEffect DEF Present, AbsentJob
  <2>3. IsFiniteSet(Present(jobs) \union {c}) BY FS_AddElement DEF RegistryIsFinite
  <2>4. IsFiniteSet(Present(jobs')) BY <2>2, <2>3, FS_Subset
  <2>5. QED BY <2>4 DEF RegistryIsFinite, Present
<1>2. CASE Present(jobs') = Present(jobs) BY <1>2 DEF RegistryIsFinite, Present
<1>3. QED BY <1>1, <1>2, OnlyInsertPrunes

LEMMA StepForgetsOldJobs ==
  ASSUME IInv, RegistryIsFinite, [Next]_vars, NEW c \in Calls,
         jobs[c].status # "absent", jobs'[c].status = "absent"
  PROVE  Keep <= Cardinality({k \in Present(jobs') :
                    jobs'[k].status = "running" \/ jobs[c].at <= jobs'[k].at})
<1>1. TypeOK BY DEF IInv
<1>2. PICK i \in Calls : Insert(i)
  <2>1. Present(jobs') # Present(jobs) BY DEF Present
  <2>2. QED BY <2>1, OnlyInsertPrunes
<1> DEFINE J == [jobs EXCEPT ![i] = [status |-> "running", at |-> 0, cancel |-> TRUE]]
<1>3. PICK removed \in SUBSET Calls :
        /\ Prunable(J, removed)
        /\ jobs' = [j \in Calls |-> IF j \in removed THEN AbsentJob ELSE J[j]]
  BY <1>2 DEF Insert
<1>4. Present(J) = Present(jobs) \union {i} BY <1>1, InsertAddsOne
<1>5. /\ i # c /\ J[c] = jobs[c]
  BY <1>1, <1>2, InsertEffect
<1> HIDE DEF J
<1>6. IsFiniteSet(Present(J))
  <2>1. IsFiniteSet(Present(jobs) \union {i}) BY FS_AddElement DEF RegistryIsFinite
  <2>2. QED BY <1>4, <2>1
<1>7. c \in removed BY <1>3, <1>5
<1>8. Present(jobs') = Present(J) \ removed BY <1>3 DEF Present, AbsentJob
<1>9. \A k \in Present(J) \ removed : jobs'[k] = J[k] BY <1>3 DEF Present
<1>10. /\ Keep <= Cardinality(Present(J) \ removed)
       /\ \A k \in Present(J) \ removed : k \in Running(J) \/ J[c].at <= J[k].at
  BY <1>3, <1>6, <1>7, PruneKeepsTheNewest
<1>11. \A k \in Present(jobs') : jobs'[k].status = "running" \/ jobs[c].at <= jobs'[k].at
  BY <1>5, <1>8, <1>9, <1>10 DEF Running
<1>12. {k \in Present(jobs') : jobs'[k].status = "running" \/ jobs[c].at <= jobs'[k].at}
         = Present(J) \ removed
  BY <1>8, <1>11
<1>13. QED BY <1>10, <1>12

(* A result disappears from the registry only when Keep jobs that run or   *)
(* ended no earlier stay listed (pruneLocked, jobs.go:257-266).            *)
THEOREM OldResultsGoFirst == Spec => ForgottenForNewerJobs
<1> DEFINE Step ==
      \A c \in Calls :
        jobs[c].status # "absent" /\ jobs'[c].status = "absent" =>
          Keep <= Cardinality({k \in Present(jobs') :
                     jobs'[k].status = "running" \/ jobs[c].at <= jobs'[k].at})
<1>1. Init => RegistryIsFinite
  <2> SUFFICES ASSUME Init PROVE RegistryIsFinite
    OBVIOUS
  <2>1. Present(jobs) = {} BY DEF Init, Present, AbsentJob
  <2>2. QED BY <2>1, FS_EmptySet DEF RegistryIsFinite
<1>2. IInv /\ RegistryIsFinite /\ [Next]_vars => [Step]_vars
  BY StepForgetsOldJobs
<1>3. QED BY InitIInv, NextIInv, NextRegistryIsFinite, <1>1, <1>2, PTL
          DEF Spec, ForgottenForNewerJobs
=============================================================================
