----------------------- MODULE ArthasSessions_proofs -----------------------
(***************************************************************************)
(* Proofs about ArthasSessions for every number of requests, pods and      *)
(* containers: type correctness, one session per target, and the link      *)
(* between a pending job and the code that will finish it.                 *)
(***************************************************************************)
EXTENDS ArthasSessions, TLAPS

(* A pending job is exactly one whose handler or goroutine still runs.     *)
JobIsWorked ==
  \A j \in Requests : jobs[j].status = "pending" <=> pc[j] \in JobPoints

(* Start lets one job per target through.                                  *)
OneJobPerTarget ==
  \A j, k \in Requests :
    /\ jobs[j].status = "pending"
    /\ jobs[k].status = "pending"
    /\ target[j] = target[k]
    => j = k

(* While a goroutine attaches, its target has no session: the second       *)
(* lookup saw none, and nobody else can have registered one since.         *)
AttachingTargetIsFree ==
  \A r \in Requests : pc[r] \in AttachPoints =>
    \A s \in sessions : target[s] # target[r]

(* The inductive invariant.                                                *)
IInv ==
  /\ TypeOK
  /\ JobIsWorked
  /\ OneJobPerTarget
  /\ AttachingTargetIsFree
  /\ OneSessionPerTarget

-----------------------------------------------------------------------------
(* cleanupLocked drops finished jobs only.                                 *)
LEMMA CleanupKeepsPending ==
  ASSUME TypeOK, NEW expired \in SUBSET {j \in Requests : Finished(j)}
  PROVE  /\ CleanupLocked(expired) \in [Requests -> [status : JobStatuses,
                                          session : Requests \union {NoOne}]]
         /\ \A j \in Requests : CleanupLocked(expired)[j].status = "pending"
                                  <=> jobs[j].status = "pending"
  BY DEF TypeOK, CleanupLocked, Finished, AbsentJob, JobStatuses

(* Init establishes the inductive invariant.                               *)
LEMMA InitIInv == Init => IInv
  BY DEF Init, IInv, TypeOK, JobIsWorked, OneJobPerTarget,
         AttachingTargetIsFree, OneSessionPerTarget, AbsentJob, JobStatuses,
         Points, JobPoints, AttachPoints

(* Succeed and Fail end the job together with the code that worked on it.  *)
LEMMA FinishIInv ==
  ASSUME IInv, NEW r \in Requests, pc[r] \in JobPoints,
         NEW st \in {"running", "failed"}, NEW s \in Requests \union {NoOne},
         FinishJob(r, st, s), Goto(r, "done"),
         UNCHANGED <<target, found, sessions, forward, listener, closing,
                     deleted, restarts>>
  PROVE  IInv'
<1>1. jobs[r].status = "pending"
  BY DEF IInv, JobIsWorked
<1>2. /\ jobs' = [jobs EXCEPT ![r] = [status |-> st, session |-> s]]
      /\ pc' = [pc EXCEPT ![r] = "done"]
  BY <1>1 DEF FinishJob, Goto
<1>3. TypeOK'
  BY <1>2 DEF IInv, TypeOK, JobStatuses, Points
<1>4. JobIsWorked'
  BY <1>2 DEF IInv, TypeOK, JobIsWorked, JobPoints, AttachPoints
<1>5. OneJobPerTarget'
  BY <1>2 DEF IInv, TypeOK, OneJobPerTarget
<1>6. AttachingTargetIsFree' /\ OneSessionPerTarget'
  BY <1>2 DEF IInv, TypeOK, AttachPoints, AttachingTargetIsFree, OneSessionPerTarget
<1>7. QED BY <1>3, <1>4, <1>5, <1>6 DEF IInv

(* The steps of the request handler.                                       *)
LEMMA HandlerIInv ==
  ASSUME IInv, NEW r \in Requests, Handler(r)
  PROVE  IInv'
<1> USE DEF IInv, TypeOK, Points, JobPoints, AttachPoints
<1>1. CASE Lookup(r)
  BY <1>1 DEF Lookup, Goto, JobIsWorked, OneJobPerTarget,
              AttachingTargetIsFree, OneSessionPerTarget
<1>2. CASE StartJob(r)
  <2> PICK expired \in SUBSET {j \in Requests : Finished(j)} :
        IF PendingFor(target[r]) = {}
        THEN /\ jobs' = [CleanupLocked(expired) EXCEPT
                           ![r] = [status |-> "pending", session |-> NoOne]]
             /\ Goto(r, "recheck")
        ELSE /\ jobs' = CleanupLocked(expired)
             /\ Goto(r, "done")
    BY <1>2 DEF StartJob
  <2> DEFINE J == CleanupLocked(expired)
  <2>1. /\ J \in [Requests -> [status : JobStatuses, session : Requests \union {NoOne}]]
        /\ \A j \in Requests : J[j].status = "pending" <=> jobs[j].status = "pending"
    BY CleanupKeepsPending
  <2>2. pc[r] = "start" /\ UNCHANGED <<target, found, sessions, forward,
                                       listener, closing, deleted, restarts>>
    BY <1>2 DEF StartJob
  <2> HIDE DEF J
  <2>3. CASE PendingFor(target[r]) = {}
    <3>1. /\ jobs' = [J EXCEPT ![r] = [status |-> "pending", session |-> NoOne]]
          /\ pc' = [pc EXCEPT ![r] = "recheck"]
      BY <2>3 DEF J, Goto
    <3>2. \A j \in Requests : jobs[j].status = "pending" => target[j] # target[r]
      BY <2>3 DEF PendingFor
    <3>3. TypeOK' BY <2>1, <2>2, <3>1 DEF JobStatuses
    <3>4. JobIsWorked' BY <2>1, <2>2, <3>1 DEF JobIsWorked
    <3>5. OneJobPerTarget' BY <2>1, <2>2, <3>1, <3>2 DEF OneJobPerTarget
    <3>6. AttachingTargetIsFree' /\ OneSessionPerTarget'
      BY <2>2, <3>1 DEF AttachingTargetIsFree, OneSessionPerTarget
    <3>7. QED BY <3>3, <3>4, <3>5, <3>6
  <2>4. CASE PendingFor(target[r]) # {}
    <3>1. jobs' = J /\ pc' = [pc EXCEPT ![r] = "done"]
      BY <2>4 DEF J, Goto
    <3>2. QED
      BY <2>1, <2>2, <3>1 DEF JobIsWorked, OneJobPerTarget,
                              AttachingTargetIsFree, OneSessionPerTarget
  <2>5. QED BY <2>3, <2>4
<1>3. CASE Recheck(r)
  <2>1. pc[r] = "recheck" /\ UNCHANGED <<target, jobs, sessions, forward,
                               listener, closing, deleted, restarts>>
    BY <1>3 DEF Recheck
  <2>2. \E p \in {"adopt", "attach"} : pc' = [pc EXCEPT ![r] = p]
    BY <1>3 DEF Recheck, Goto
  <2>3. found' \in [Requests -> Requests \union {NoOne}]
    BY <1>3 DEF Recheck, FindByTarget
  <2>4. TypeOK' /\ JobIsWorked'
    BY <2>1, <2>2, <2>3 DEF JobIsWorked
  <2>5. AttachingTargetIsFree'
    BY <1>3, <2>1 DEF Recheck, Goto, FindByTarget, AttachingTargetIsFree
  <2>6. OneJobPerTarget' /\ OneSessionPerTarget'
    BY <2>1 DEF OneJobPerTarget, OneSessionPerTarget
  <2>7. QED BY <2>4, <2>5, <2>6
<1>4. CASE Adopt(r)
  BY <1>4, FinishIInv DEF Adopt
<1>5. QED BY <1>1, <1>2, <1>3, <1>4 DEF Handler

(* The steps of the goroutine that attaches.                               *)
LEMMA WorkerIInv ==
  ASSUME IInv, NEW r \in Requests, Worker(r)
  PROVE  IInv'
<1> USE DEF IInv, TypeOK, Points, JobPoints, AttachPoints
<1>1. CASE Attach(r)
  <2>1. pc[r] = "attach" /\ UNCHANGED <<target, found, jobs, sessions, forward,
                                        closing, deleted, restarts>>
    BY <1>1 DEF Attach
  <2>2. \E p \in {"forward", "fail"} : pc' = [pc EXCEPT ![r] = p]
    BY <1>1 DEF Attach, Goto
  <2>3. listener' \in [Pods -> Containers \union {NoOne}]
    BY <1>1 DEF Attach, PodOf, ContainerOf, Targets
  <2>4. TypeOK' BY <2>1, <2>2, <2>3
  <2>5. JobIsWorked' BY <2>1, <2>2 DEF JobIsWorked
  <2>6. OneJobPerTarget' /\ OneSessionPerTarget'
    BY <2>1 DEF OneJobPerTarget, OneSessionPerTarget
  <2>7. AttachingTargetIsFree' BY <2>1, <2>2 DEF AttachingTargetIsFree
  <2>8. QED BY <2>4, <2>5, <2>6, <2>7
<1>2. CASE OpenForward(r)
  <2>1. pc[r] = "forward" /\ UNCHANGED <<target, found, jobs, sessions, listener,
                                         closing, deleted, restarts>>
    BY <1>2 DEF OpenForward
  <2>2. \E p \in {"add", "fail"} : pc' = [pc EXCEPT ![r] = p]
    BY <1>2 DEF OpenForward, Goto
  <2>3. forward' \in [Requests -> {"none", "open", "dead", "closed"}]
    BY <1>2 DEF OpenForward
  <2>4. TypeOK' BY <2>1, <2>2, <2>3
  <2>5. JobIsWorked' BY <2>1, <2>2 DEF JobIsWorked
  <2>6. OneJobPerTarget' /\ OneSessionPerTarget'
    BY <2>1 DEF OneJobPerTarget, OneSessionPerTarget
  <2>7. AttachingTargetIsFree' BY <2>1, <2>2 DEF AttachingTargetIsFree
  <2>8. QED BY <2>4, <2>5, <2>6, <2>7
<1>3. CASE AddSession(r)
  <2>1. /\ pc[r] = "add"
        /\ sessions' = sessions \union {r}
        /\ pc' = [pc EXCEPT ![r] = "succeed"]
        /\ UNCHANGED <<target, found, jobs, forward, listener, closing,
                       deleted, restarts>>
    BY <1>3 DEF AddSession, Goto
  <2>2. TypeOK' /\ JobIsWorked' /\ OneJobPerTarget'
    BY <2>1 DEF JobIsWorked, OneJobPerTarget
  <2>3. OneSessionPerTarget'
    BY <2>1 DEF AttachingTargetIsFree, OneSessionPerTarget
  <2>4. AttachingTargetIsFree'
    <3>1. ASSUME NEW q \in Requests, pc'[q] \in AttachPoints, target[q] = target[r]
          PROVE  FALSE
      <4>1. q # r /\ pc[q] \in AttachPoints BY <2>1, <3>1
      <4>2. jobs[q].status = "pending" /\ jobs[r].status = "pending"
        BY <2>1, <4>1 DEF JobIsWorked
      <4>3. QED BY <3>1, <4>1, <4>2 DEF OneJobPerTarget
    <3>2. QED BY <2>1, <3>1 DEF AttachingTargetIsFree
  <2>5. QED BY <2>2, <2>3, <2>4
<1>4. CASE Succeed(r)
  BY <1>4, FinishIInv DEF Succeed
<1>5. CASE Fail(r)
  BY <1>5, FinishIInv DEF Fail
<1>6. QED BY <1>1, <1>2, <1>3, <1>4, <1>5 DEF Worker

(* Deleting a session, polling jobs and the cluster.                       *)
LEMMA EnvironmentIInv ==
  ASSUME IInv, (\E s \in Requests : Client(s)) \/ PollJobs \/ Cluster
  PROVE  IInv'
<1> USE DEF IInv, TypeOK
<1>1. CASE \E s \in Requests : RemoveSession(s) \/ StopSession(s)
  BY <1>1 DEF RemoveSession, StopSession, JobIsWorked, OneJobPerTarget,
              AttachingTargetIsFree, OneSessionPerTarget
<1>2. CASE PollJobs
  <2>1. PICK expired \in SUBSET {j \in Requests : Finished(j)} :
          jobs' = CleanupLocked(expired)
    BY <1>2 DEF PollJobs
  <2>2. QED
    BY <1>2, <2>1, CleanupKeepsPending
       DEF PollJobs, JobIsWorked, OneJobPerTarget, AttachingTargetIsFree,
           OneSessionPerTarget
<1>3. CASE \E p \in Pods : RestartContainer(p)
  BY <1>3 DEF RestartContainer, JobIsWorked, OneJobPerTarget,
              AttachingTargetIsFree, OneSessionPerTarget
<1>4. CASE \E s \in Requests : LoseForward(s)
  BY <1>4 DEF LoseForward, JobIsWorked, OneJobPerTarget,
              AttachingTargetIsFree, OneSessionPerTarget
<1>5. QED BY <1>1, <1>2, <1>3, <1>4 DEF Client, Cluster

(* Every step preserves the inductive invariant.                           *)
LEMMA NextIInv == IInv /\ [Next]_vars => IInv'
<1> SUFFICES ASSUME IInv, [Next]_vars PROVE IInv'
  OBVIOUS
<1>1. CASE \E r \in Requests : Handler(r)
  BY <1>1, HandlerIInv
<1>2. CASE \E r \in Requests : Worker(r)
  BY <1>2, WorkerIInv
<1>3. CASE (\E s \in Requests : Client(s)) \/ PollJobs \/ Cluster
  BY <1>3, EnvironmentIInv
<1>4. CASE UNCHANGED vars
  BY <1>4 DEF IInv, vars, TypeOK, JobIsWorked, OneJobPerTarget,
              AttachingTargetIsFree, OneSessionPerTarget
<1>5. QED BY <1>1, <1>2, <1>3, <1>4 DEF Next

-----------------------------------------------------------------------------
(* The variables keep their types in every behaviour of the plugin.        *)
THEOREM TypeCorrect == Spec => []TypeOK
<1>1. IInv => TypeOK BY DEF IInv
<1>2. QED BY InitIInv, NextIInv, <1>1, PTL DEF Spec

(* However many session-create calls race, a pod and container never has   *)
(* two registered sessions (ops.go:134-168).                               *)
THEOREM OneSession == Spec => []OneSessionPerTarget
<1>1. IInv => OneSessionPerTarget BY DEF IInv
<1>2. QED BY InitIInv, NextIInv, <1>1, PTL DEF Spec

(* A pending job always has exactly one handler or goroutine that will     *)
(* finish it, and it is the only pending job of its target.                *)
THEOREM PendingIsWorked == Spec => []PendingJobHasItsWorker
<1>1. IInv => PendingJobHasItsWorker
  BY DEF IInv, JobIsWorked, OneJobPerTarget, PendingJobHasItsWorker, PendingFor
<1>2. QED BY InitIInv, NextIInv, <1>1, PTL DEF Spec

-----------------------------------------------------------------------------
(* A job that says "running" names a session that was registered: found    *)
(* comes from the registry, and Add precedes Succeed.                      *)
RInv ==
  /\ ReportedSessionIsUsable
  /\ \A r \in Requests :
       /\ pc[r] = "adopt" => found[r] \in sessions \union deleted
       /\ pc[r] = "succeed" => r \in sessions \union deleted

LEMMA InitRInv == Init => RInv
  BY DEF Init, RInv, ReportedSessionIsUsable, AbsentJob

LEMMA NextRInv == IInv /\ RInv /\ [Next]_vars => RInv'
<1> SUFFICES ASSUME IInv, RInv, [Next]_vars PROVE RInv'
  OBVIOUS
<1>1. TypeOK BY DEF IInv
<1> DEFINE Known == sessions \union deleted
<1>2. \A r \in Requests :
        /\ jobs[r].status = "running" => jobs[r].session \in Known
        /\ pc[r] = "adopt" => found[r] \in Known
        /\ pc[r] = "succeed" => r \in Known
  BY DEF RInv, ReportedSessionIsUsable
<1> USE DEF TypeOK, RInv, ReportedSessionIsUsable
<1>3. CASE \E r \in Requests : Lookup(r) \/ Attach(r) \/ OpenForward(r)
  BY <1>1, <1>2, <1>3 DEF Lookup, Attach, OpenForward, Goto
<1>4. CASE \E r \in Requests : StartJob(r)
  <2>1. PICK r \in Requests : StartJob(r) BY <1>4
  <2>2. PICK expired \in SUBSET Requests :
          jobs' \in {CleanupLocked(expired),
                     [CleanupLocked(expired) EXCEPT
                        ![r] = [status |-> "pending", session |-> NoOne]]}
    BY <2>1 DEF StartJob
  <2>3. ASSUME NEW j \in Requests, jobs'[j].status = "running"
        PROVE  jobs'[j] = jobs[j]
    <3>1. jobs'[j] \in {AbsentJob, jobs[j], [status |-> "pending", session |-> NoOne]}
      BY <2>2 DEF CleanupLocked
    <3>2. QED BY <2>3, <3>1 DEF AbsentJob
  <2>4. \E p \in {"recheck", "done"} : pc' = [pc EXCEPT ![r] = p]
    BY <2>1 DEF StartJob, Goto
  <2>5. UNCHANGED <<found, sessions, deleted>>
    BY <2>1 DEF StartJob
  <2>6. QED BY <1>1, <1>2, <2>3, <2>4, <2>5
<1>5. CASE \E r \in Requests : Recheck(r)
  BY <1>1, <1>2, <1>5 DEF Recheck, Goto, FindByTarget
<1>6. CASE \E r \in Requests : Adopt(r)
  BY <1>1, <1>2, <1>6 DEF Adopt, Goto, FinishJob
<1>7. CASE \E r \in Requests : AddSession(r)
  BY <1>1, <1>2, <1>7 DEF AddSession, Goto
<1>8. CASE \E r \in Requests : Succeed(r) \/ Fail(r)
  BY <1>1, <1>2, <1>8 DEF Succeed, Fail, Goto, FinishJob
<1>9. CASE \E s \in Requests : RemoveSession(s) \/ StopSession(s)
  BY <1>1, <1>2, <1>9 DEF RemoveSession, StopSession
<1>10. CASE PollJobs
  BY <1>1, <1>2, <1>10 DEF PollJobs, CleanupLocked, AbsentJob
<1>11. CASE Cluster
  BY <1>1, <1>2, <1>11 DEF Cluster, RestartContainer, LoseForward
<1>12. CASE UNCHANGED vars
  BY <1>1, <1>2, <1>12 DEF vars
<1>13. QED
  BY <1>3, <1>4, <1>5, <1>6, <1>7, <1>8, <1>9, <1>10, <1>11, <1>12
     DEF Next, Handler, Worker, Client

(* A client can use the session of a job that reports "running", unless    *)
(* somebody deleted it since (ops.go:228 precedes ops.go:168).             *)
THEOREM ReportedSession == Spec => []ReportedSessionIsUsable
<1>1. RInv => ReportedSessionIsUsable BY DEF RInv
<1>2. QED BY InitIInv, NextIInv, InitRInv, NextRInv, <1>1, PTL DEF Spec

(* No port-forward is ever leaked (bootstrap.go:113-124, session.go:99).   *)
THEOREM NoForwardLeak == Spec => []OpenForwardHasOwner
<1>1. Init => OpenForwardHasOwner
  BY DEF Init, OpenForwardHasOwner
<1>2. IInv /\ OpenForwardHasOwner /\ [Next]_vars => OpenForwardHasOwner'
  <2> SUFFICES ASSUME IInv, OpenForwardHasOwner, [Next]_vars
               PROVE  OpenForwardHasOwner'
    OBVIOUS
  <2>1. TypeOK BY DEF IInv
  <2> USE DEF TypeOK, OpenForwardHasOwner
  <2>2. CASE \E r \in Requests : Handler(r)
    BY <2>1, <2>2 DEF Handler, Lookup, StartJob, Recheck, Adopt, Goto
  <2>3. CASE \E r \in Requests : Attach(r) \/ OpenForward(r) \/ AddSession(r)
    BY <2>1, <2>3 DEF Attach, OpenForward, AddSession, Goto
  <2>4. CASE \E r \in Requests : Succeed(r) \/ Fail(r)
    BY <2>1, <2>4 DEF Succeed, Fail, Goto
  <2>5. CASE \E s \in Requests : RemoveSession(s) \/ StopSession(s)
    BY <2>1, <2>5 DEF RemoveSession, StopSession
  <2>6. CASE PollJobs \/ Cluster
    BY <2>1, <2>6 DEF PollJobs, Cluster, RestartContainer, LoseForward
  <2>7. CASE UNCHANGED vars
    BY <2>7 DEF vars
  <2>8. QED BY <2>2, <2>3, <2>4, <2>5, <2>6, <2>7 DEF Next, Worker, Client
<1>3. QED BY InitIInv, NextIInv, <1>1, <1>2, PTL DEF Spec

-----------------------------------------------------------------------------
(* Every step of the handlers is a step of ExclusiveSlots or a stutter.    *)
LEMMA StepRefines == IInv /\ [Next]_vars => [Slot!Next]_Slot!vars
<1> SUFFICES ASSUME IInv, [Next]_vars PROVE [Slot!Next]_Slot!vars
  OBVIOUS
<1>1. TypeOK /\ JobIsWorked /\ OneJobPerTarget BY DEF IInv
<1> USE DEF TypeOK
<1>2. ASSUME UNCHANGED <<target, sessions>>,
             \A r \in Requests : pc'[r] \in AttachPoints <=> pc[r] \in AttachPoints
      PROVE  UNCHANGED Slot!vars
  BY <1>2 DEF Slot!vars, SlotCreating, SlotHeld
<1>3. CASE \E r \in Requests : Lookup(r) \/ StartJob(r) \/ Adopt(r) \/ Succeed(r)
  <2>1. PICK r \in Requests : Lookup(r) \/ StartJob(r) \/ Adopt(r) \/ Succeed(r)
    BY <1>3
  <2>2. /\ pc[r] \in {"idle", "start", "adopt", "succeed"}
        /\ \E p \in {"start", "recheck", "done"} : pc' = [pc EXCEPT ![r] = p]
        /\ UNCHANGED <<target, sessions>>
    BY <2>1 DEF Lookup, StartJob, Adopt, Succeed, Goto
  <2>3. QED BY <1>1, <1>2, <2>2 DEF AttachPoints
<1>4. CASE \E r \in Requests : Attach(r) \/ OpenForward(r)
  <2>1. PICK r \in Requests : Attach(r) \/ OpenForward(r)
    BY <1>4
  <2>2. /\ pc[r] \in {"attach", "forward"}
        /\ \E p \in {"forward", "add", "fail"} : pc' = [pc EXCEPT ![r] = p]
        /\ UNCHANGED <<target, sessions>>
    BY <2>1 DEF Attach, OpenForward, Goto
  <2>3. QED BY <1>1, <1>2, <2>2 DEF AttachPoints
<1>5. CASE \E r \in Requests : Recheck(r)
  <2>1. PICK r \in Requests : Recheck(r) BY <1>5
  <2>2. CASE pc' = [pc EXCEPT ![r] = "adopt"]
    BY <1>1, <1>2, <2>1, <2>2 DEF Recheck, AttachPoints
  <2>3. CASE FindByTarget(target[r]) = {} /\ pc' = [pc EXCEPT ![r] = "attach"]
    <3>1. target[r] \in Targets BY <1>1
    <3>2. SlotHeld[target[r]] = {}
      BY <2>3, <3>1 DEF SlotHeld, FindByTarget
    <3>3. SlotCreating[target[r]] = {}
      <4>1. \A q \in Requests : pc[q] \in AttachPoints => target[q] # target[r]
        BY <1>1, <2>1 DEF Recheck, JobIsWorked, OneJobPerTarget, JobPoints, AttachPoints
      <4>2. QED BY <3>1, <4>1 DEF SlotCreating
    <3>4. SlotCreating' = [SlotCreating EXCEPT ![target[r]] = {r}]
      <4>1. ASSUME NEW t \in Targets
            PROVE  SlotCreating'[t] = IF t = target[r] THEN {r} ELSE SlotCreating[t]
        <5>1. \A q \in Requests : pc'[q] \in AttachPoints
                                    <=> pc[q] \in AttachPoints \/ q = r
          BY <1>1, <2>3 DEF AttachPoints
        <5>2. target' = target BY <2>1 DEF Recheck
        <5>3. QED BY <3>1, <3>3, <5>1, <5>2 DEF SlotCreating
      <4>2. QED BY <3>1, <4>1 DEF SlotCreating
    <3>5. UNCHANGED SlotHeld BY <2>1 DEF Recheck, SlotHeld
    <3>6. Slot!Reserve(target[r], r)
      BY <3>2, <3>3, <3>4, <3>5 DEF Slot!Reserve
    <3>7. QED BY <3>1, <3>6 DEF Slot!Next
  <2>4. QED BY <2>1, <2>2, <2>3 DEF Recheck, Goto
<1>6. CASE \E r \in Requests : AddSession(r)
  <2>1. PICK r \in Requests : AddSession(r) BY <1>6
  <2>2. target[r] \in Targets /\ target' = target
    BY <1>1, <2>1 DEF AddSession
  <2>3. \A q \in Requests : pc'[q] \in AttachPoints
                              <=> pc[q] \in AttachPoints /\ q # r
    BY <1>1, <2>1 DEF AddSession, Goto, AttachPoints
  <2>4. r \in SlotCreating[target[r]]
    BY <2>1, <2>2 DEF AddSession, SlotCreating, AttachPoints
  <2>5. SlotCreating' = [SlotCreating EXCEPT ![target[r]] = @ \ {r}]
    BY <2>2, <2>3 DEF SlotCreating
  <2>6. SlotHeld' = [SlotHeld EXCEPT ![target[r]] = @ \union {r}]
    BY <2>1, <2>2 DEF AddSession, SlotHeld
  <2>7. Slot!Commit(target[r], r) BY <2>4, <2>5, <2>6 DEF Slot!Commit
  <2>8. QED BY <2>2, <2>7 DEF Slot!Next
<1>7. CASE \E r \in Requests : Fail(r)
  <2>1. PICK r \in Requests : Fail(r) BY <1>7
  <2>2. target[r] \in Targets /\ target' = target
    BY <1>1, <2>1 DEF Fail
  <2>3. \A q \in Requests : pc'[q] \in AttachPoints
                              <=> pc[q] \in AttachPoints /\ q # r
    BY <1>1, <2>1 DEF Fail, Goto, AttachPoints
  <2>4. r \in SlotCreating[target[r]]
    BY <2>1, <2>2 DEF Fail, SlotCreating, AttachPoints
  <2>5. SlotCreating' = [SlotCreating EXCEPT ![target[r]] = @ \ {r}]
    BY <2>2, <2>3 DEF SlotCreating
  <2>6. UNCHANGED SlotHeld
    BY <2>1 DEF Fail, SlotHeld
  <2>7. Slot!Abort(target[r], r) BY <2>4, <2>5, <2>6 DEF Slot!Abort
  <2>8. QED BY <2>2, <2>7 DEF Slot!Next
<1>8. CASE \E s \in Requests : RemoveSession(s)
  <2>1. PICK s \in Requests : RemoveSession(s) BY <1>8
  <2>2. target[s] \in Targets /\ s \in SlotHeld[target[s]]
    BY <1>1, <2>1 DEF RemoveSession, SlotHeld
  <2>3. SlotHeld' = [SlotHeld EXCEPT ![target[s]] = @ \ {s}]
    BY <2>1, <2>2 DEF RemoveSession, SlotHeld
  <2>4. UNCHANGED SlotCreating
    BY <2>1 DEF RemoveSession, SlotCreating
  <2>5. Slot!Release(target[s], s) BY <2>2, <2>3, <2>4 DEF Slot!Release
  <2>6. QED BY <2>2, <2>5 DEF Slot!Next
<1>9. CASE (\E s \in Requests : StopSession(s)) \/ PollJobs \/ Cluster
  BY <1>2, <1>9 DEF StopSession, PollJobs, Cluster, RestartContainer, LoseForward
<1>10. CASE UNCHANGED vars
  BY <1>2, <1>10 DEF vars
<1>11. QED
  BY <1>3, <1>4, <1>5, <1>6, <1>7, <1>8, <1>9, <1>10
     DEF Next, Handler, Worker, Client

(* session-create and session-delete implement exclusive ownership of each *)
(* pod and container, whatever the interleaving of their critical sections.*)
THEOREM Refinement == Spec => OwnsTargetsExclusively
<1>1. Init => Slot!Init
  BY DEF Init, Slot!Init, SlotCreating, SlotHeld, AttachPoints
<1>2. QED
  BY InitIInv, NextIInv, StepRefines, <1>1, PTL
     DEF Spec, OwnsTargetsExclusively, Slot!Spec
=============================================================================
