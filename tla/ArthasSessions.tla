--------------------------- MODULE ArthasSessions ---------------------------
(***************************************************************************)
(* The arthas plugin: session-create, session-delete and the two in-memory *)
(* registries they share (arthas/ops.go, arthas/jobs.go and                *)
(* arthas/internal/arthas/session.go), together with the little of the     *)
(* cluster they depend on: the HTTP listener an attached JVM opens in its  *)
(* pod and the port-forward the plugin keeps to it.                        *)
(*                                                                         *)
(* Handlers run concurrently.  Each registry has one mutex, so an action   *)
(* is one critical section, or one call to the cluster; pc[r] is the place *)
(* of request r between two of them.  A create request gives its name to   *)
(* the job and to the session it creates (the code draws random ids).      *)
(***************************************************************************)
EXTENDS Naturals, FiniteSets

CONSTANTS Requests,     \* session-create calls
          Pods,
          Containers,
          NoOne,        \* no session, no container
          MaxRestarts   \* bound on container restarts

ASSUME NoOneAssumption == NoOne \notin Requests \union Containers

(* SessionTargetKey: the namespace is part of the pod's name here. *)
Targets == Pods \X Containers
PodOf(t) == t[1]
ContainerOf(t) == t[2]

VARIABLES
  pc,        \* pc[r]: where create request r is
  target,    \* target[r]: the pod and container the request was resolved to
  found,     \* found[r]: the session the second lookup returned
  jobs,      \* SessionCreateJobRegistry.jobs; "absent" is a missing key
  sessions,  \* SessionRegistry.sessions: the ids registered
  forward,   \* forward[r]: the port-forward of session r
  listener,  \* listener[p]: the container whose JVM serves the HTTP port of p
  closing,   \* sessions removed by Remove whose Stop has not run yet
  deleted,   \* sessions that were ever removed (history)
  restarts   \* container restarts so far

vars == <<pc, target, found, jobs, sessions, forward, listener, closing,
          deleted, restarts>>

AttachPoints == {"attach", "forward", "add", "fail"}
JobPoints == {"recheck", "adopt", "succeed"} \union AttachPoints
Points == {"idle", "start", "done"} \union JobPoints
JobStatuses == {"absent", "pending", "running", "failed"}
AbsentJob == [status |-> "absent", session |-> NoOne]

TypeOK ==
  /\ pc \in [Requests -> Points]
  /\ target \in [Requests -> Targets]
  /\ found \in [Requests -> Requests \union {NoOne}]
  /\ jobs \in [Requests -> [status : JobStatuses,
                            session : Requests \union {NoOne}]]
  /\ sessions \in SUBSET Requests
  /\ forward \in [Requests -> {"none", "open", "dead", "closed"}]
  /\ listener \in [Pods -> Containers \union {NoOne}]
  /\ closing \in SUBSET Requests
  /\ deleted \in SUBSET Requests
  /\ restarts \in Nat

(* Every choice of targets is an initial state: a request is resolved      *)
(* (ResolvePod) before it touches a registry.                              *)
Init ==
  /\ pc = [r \in Requests |-> "idle"]
  /\ target \in [Requests -> Targets]
  /\ found = [r \in Requests |-> NoOne]
  /\ jobs = [r \in Requests |-> AbsentJob]
  /\ sessions = {}
  /\ forward = [r \in Requests |-> "none"]
  /\ listener = [p \in Pods |-> NoOne]
  /\ closing = {}
  /\ deleted = {}
  /\ restarts = 0

-----------------------------------------------------------------------------
(* The registries' operations. *)

(* SessionRegistry.FindByTarget *)
FindByTarget(t) == {s \in sessions : target[s] = t}

(* Mutant: the TTL is counted from the start of a job, so that one that is  *)
(* still pending expires too.                                              *)
Finished_AnyAge(j) == jobs[j].status # "absent"

Finished(j) == jobs[j].status \in {"running", "failed"}

(* cleanupLocked: any set of finished jobs may have outlived the TTL. *)
CleanupLocked(expired) ==
  [j \in Requests |-> IF j \in expired THEN AbsentJob ELSE jobs[j]]

PendingFor(t) == {j \in Requests : jobs[j].status = "pending" /\ target[j] = t}

(* Mutant: a status that no client knows.                                  *)
FinishJob_UnknownStatus(j, status, s) ==
  jobs' = [jobs EXCEPT ![j] = [status |-> "succeeded", session |-> s]]

(* Succeed and Fail: finish ignores a job that is no longer in the map. *)
FinishJob(j, status, s) ==
  jobs' = IF jobs[j].status = "absent" THEN jobs
          ELSE [jobs EXCEPT ![j] = [status |-> status, session |-> s]]

Goto(r, p) == pc' = [pc EXCEPT ![r] = p]

-----------------------------------------------------------------------------
(* sessionCreate, run by the handler of request r. *)

(* The first lookup: an existing session answers the request. *)
Lookup(r) ==
  /\ pc[r] = "idle"
  /\ Goto(r, IF FindByTarget(target[r]) = {} THEN "start" ELSE "done")
  /\ UNCHANGED <<target, found, jobs, sessions, forward, listener, closing,
                 deleted, restarts>>

(* SessionCreateJobRegistry.Start: one pending job per target key. *)
StartJob(r) ==
  /\ pc[r] = "start"
  /\ \E expired \in SUBSET {j \in Requests : Finished(j)} :
       IF PendingFor(target[r]) = {}
       THEN /\ jobs' = [CleanupLocked(expired) EXCEPT
                          ![r] = [status |-> "pending", session |-> NoOne]]
            /\ Goto(r, "recheck")
       ELSE /\ jobs' = CleanupLocked(expired)
            /\ Goto(r, "done")
  /\ UNCHANGED <<target, found, sessions, forward, listener, closing, deleted,
                 restarts>>

(* Mutant: no second lookup.                                               *)
Recheck_Skipped(r) ==
  /\ pc[r] = "recheck"
  /\ Goto(r, "attach")
  /\ UNCHANGED <<target, found, jobs, sessions, forward, listener, closing,
                 deleted, restarts>>

(* The second lookup: another request may have registered its session      *)
(* between the first lookup and Start.                                     *)
Recheck(r) ==
  /\ pc[r] = "recheck"
  /\ \/ \E s \in FindByTarget(target[r]) :
          /\ found' = [found EXCEPT ![r] = s]
          /\ Goto(r, "adopt")
     \/ /\ FindByTarget(target[r]) = {}
        /\ Goto(r, "attach")
        /\ UNCHANGED found
  /\ UNCHANGED <<target, jobs, sessions, forward, listener, closing, deleted,
                 restarts>>

(* Mutant: the job names itself instead of the session that was found.     *)
Adopt_OwnId(r) ==
  /\ pc[r] = "adopt"
  /\ FinishJob(r, "running", r)
  /\ Goto(r, "done")
  /\ UNCHANGED <<target, found, sessions, forward, listener, closing, deleted,
                 restarts>>

Adopt(r) ==
  /\ pc[r] = "adopt"
  /\ FinishJob(r, "running", found[r])
  /\ Goto(r, "done")
  /\ UNCHANGED <<target, found, sessions, forward, listener, closing, deleted,
                 restarts>>

-----------------------------------------------------------------------------
(* sessionCreateSync, run by the goroutine of request r.  Every call to    *)
(* the cluster may fail, or be cut off by the five minute timeout.         *)

(* attachArthas: the script exits at once when the port already answers,   *)
(* whoever answers.  A failure may come after the JVM opened the port.     *)
Attach(r) ==
  /\ pc[r] = "attach"
  /\ LET p == PodOf(target[r])
         attached == IF listener[p] = NoOne
                     THEN [listener EXCEPT ![p] = ContainerOf(target[r])]
                     ELSE listener
     IN \/ /\ listener' = attached
           /\ Goto(r, "forward")
        \/ /\ listener' \in {listener, attached}
           /\ Goto(r, "fail")
  /\ UNCHANGED <<target, found, jobs, sessions, forward, closing, deleted,
                 restarts>>

(* Mutant: a forward that is not ready is left open.                       *)
OpenForward_NoClose(r) ==
  /\ pc[r] = "forward"
  /\ forward' \in {forward, [forward EXCEPT ![r] = "open"]}
  /\ \/ Goto(r, "fail")
     \/ forward'[r] = "open" /\ Goto(r, "add")
  /\ UNCHANGED <<target, found, jobs, sessions, listener, closing, deleted,
                 restarts>>

(* StartPortForward and Ready; a forward that is not ready is closed. *)
OpenForward(r) ==
  /\ pc[r] = "forward"
  /\ \/ /\ forward' = [forward EXCEPT ![r] = "open"]
        /\ Goto(r, "add")
     \/ /\ forward' \in {forward, [forward EXCEPT ![r] = "closed"]}
        /\ Goto(r, "fail")
  /\ UNCHANGED <<target, found, jobs, sessions, listener, closing, deleted,
                 restarts>>

(* SessionRegistry.Add *)
AddSession(r) ==
  /\ pc[r] = "add"
  /\ sessions' = sessions \union {r}
  /\ Goto(r, "succeed")
  /\ UNCHANGED <<target, found, jobs, forward, listener, closing, deleted,
                 restarts>>

Succeed(r) ==
  /\ pc[r] = "succeed"
  /\ FinishJob(r, "running", r)
  /\ Goto(r, "done")
  /\ UNCHANGED <<target, found, sessions, forward, listener, closing, deleted,
                 restarts>>

(* Mutant: the goroutine returns on an error without telling the job.      *)
Fail_Silent(r) ==
  /\ pc[r] = "fail"
  /\ Goto(r, "done")
  /\ UNCHANGED <<target, found, jobs, sessions, forward, listener, closing,
                 deleted, restarts>>

Fail(r) ==
  /\ pc[r] = "fail"
  /\ FinishJob(r, "failed", NoOne)
  /\ Goto(r, "done")
  /\ UNCHANGED <<target, found, sessions, forward, listener, closing, deleted,
                 restarts>>

-----------------------------------------------------------------------------
(* sessionDelete, sessionCreationStatus and the cluster. *)

(* SessionRegistry.Remove forgets the session under the lock ... *)
RemoveSession(s) ==
  /\ s \in sessions
  /\ sessions' = sessions \ {s}
  /\ closing' = closing \union {s}
  /\ deleted' = deleted \union {s}
  /\ UNCHANGED <<pc, target, found, jobs, forward, listener, restarts>>

(* ... and stops it after the lock is released: the Stop closure closes    *)
(* the port-forward and leaves the process in the pod running.             *)
StopSession(s) ==
  /\ s \in closing
  /\ closing' = closing \ {s}
  /\ forward' = [forward EXCEPT ![s] = "closed"]
  /\ UNCHANGED <<pc, target, found, jobs, sessions, listener, deleted,
                 restarts>>

(* SessionCreateJobRegistry.Get and List drop the jobs past their TTL. *)
PollJobs ==
  /\ \E expired \in (SUBSET {j \in Requests : Finished(j)}) \ {{}} :
       jobs' = CleanupLocked(expired)
  /\ UNCHANGED <<pc, target, found, sessions, forward, listener, closing,
                 deleted, restarts>>

(* External: a container restarts and its JVM with it. *)
RestartContainer(p) ==
  /\ restarts < MaxRestarts
  /\ listener[p] # NoOne
  /\ listener' = [listener EXCEPT ![p] = NoOne]
  /\ restarts' = restarts + 1
  /\ UNCHANGED <<pc, target, found, jobs, sessions, forward, closing, deleted>>

(* External: a port-forward ends by itself; nobody watches Forwarder.done. *)
LoseForward(s) ==
  /\ forward[s] = "open"
  /\ forward' = [forward EXCEPT ![s] = "dead"]
  /\ UNCHANGED <<pc, target, found, jobs, sessions, listener, closing, deleted,
                 restarts>>

-----------------------------------------------------------------------------
Handler(r) == Lookup(r) \/ StartJob(r) \/ Recheck(r) \/ Adopt(r)
Worker(r) == Attach(r) \/ OpenForward(r) \/ AddSession(r) \/ Succeed(r) \/ Fail(r)
Client(s) == RemoveSession(s) \/ StopSession(s)
Cluster == (\E p \in Pods : RestartContainer(p)) \/ (\E s \in Requests : LoseForward(s))

Next ==
  \/ \E r \in Requests : Handler(r) \/ Worker(r) \/ Client(r)
  \/ PollJobs
  \/ Cluster

Spec == Init /\ [][Next]_vars

(* A handler that has started runs to its end, and a goroutine too: each   *)
(* of its calls returns, at the latest when the timeout cancels it.  No    *)
(* client is obliged to call.                                              *)
Fairness ==
  /\ \A r \in Requests : WF_vars(StartJob(r) \/ Recheck(r) \/ Adopt(r))
  /\ \A r \in Requests : WF_vars(Worker(r))
  /\ \A s \in Requests : WF_vars(StopSession(s))

FairSpec == Spec /\ Fairness

-----------------------------------------------------------------------------
(* The plugin never has two sessions for one pod and container, although   *)
(* the lookup, the job and the registration are three critical sections of *)
(* two registries: Start lets one request per target through, the second   *)
(* lookup closes the window between the first lookup and Start, and Add    *)
(* comes before Succeed releases the target (ops.go:134-168).              *)
OneSessionPerTarget ==
  \A s1, s2 \in sessions : target[s1] = target[s2] => s1 = s2

(* A client that polls a pending job is never left waiting for nobody: the *)
(* handler or the goroutine that will finish the job still runs, and it is *)
(* the only one for the target.                                            *)
PendingJobHasItsWorker ==
  \A j \in Requests :
    /\ jobs[j].status = "pending" <=> pc[j] \in JobPoints
    /\ jobs[j].status = "pending" => PendingFor(target[j]) = {j}

(* A job reports "running" only after its session was registered, so the   *)
(* session a client reads from a job can be used at once, unless somebody  *)
(* deleted it (ops.go:228 comes before ops.go:168).                        *)
ReportedSessionIsUsable ==
  \A j \in Requests :
    jobs[j].status = "running" => jobs[j].session \in sessions \union deleted

(* No port-forward is leaked: an open one belongs to a registered session, *)
(* to a session about to be registered, or to one being stopped.           *)
OpenForwardHasOwner ==
  \A s \in Requests :
    forward[s] = "open" => s \in sessions \union closing \/ pc[s] = "add"

(* A creation job settles: it is reported as running or failed, and then   *)
(* may expire.                                                             *)
JobSettles ==
  \A j \in Requests : jobs[j].status = "pending" ~> jobs[j].status # "pending"

(* What the registries promise together: one attachment per target.        *)
SlotCreating == [t \in Targets |-> {r \in Requests : target[r] = t /\ pc[r] \in AttachPoints}]
SlotHeld == [t \in Targets |-> {s \in sessions : target[s] = t}]
Slot == INSTANCE ExclusiveSlots WITH Slots <- Targets, Ids <- Requests,
                                     creating <- SlotCreating, held <- SlotHeld

(* The create and delete handlers implement exclusive ownership of each    *)
(* target (the abstract specification).                                    *)
OwnsTargetsExclusively == Slot!Spec

(* README.md:17: "Attaches Arthas to the JVM in the target container."  A  *)
(* session's forward leads to the JVM of its own container.                *)
SessionServesItsContainer ==
  \A s \in sessions :
    LET l == listener[PodOf(target[s])]
    IN l \in {NoOne, ContainerOf(target[s])}
=============================================================================
