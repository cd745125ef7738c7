------------------------------ MODULE FixJobs ------------------------------
(***************************************************************************)
(* The sql-server plugin's health-fix and rollback-restore jobs            *)
(* (sql-server/internal/sqldefrag: fix_jobs.go, applyOneFix of fix.go and  *)
(* auditlog.go): a detached job applies a batch of fixes one by one, a     *)
(* DROP INDEX is recorded in an audit table of the database, and a restore *)
(* job recreates an index from its audit entry.                            *)
(*                                                                         *)
(* A job is named by the call that starts it.  Actions are the registry's  *)
(* critical sections and the statements sent to the server.  A statement   *)
(* is begun (which a done context refuses) and ends later; when the        *)
(* context is done meanwhile, or the connection breaks, the plugin sees an *)
(* error although the server may have carried it out.                      *)
(***************************************************************************)
EXTENDS FixOrder

CONSTANTS Calls,      \* calls of defrag-fix and rollback-restore
          Indexes,    \* indexes that a fix may drop
          Batches,    \* batches that defrag-fix may be called with
          Keep,       \* pruneLocked's bound on the registry (25 in the code)
          MaxFaults,  \* bound on statements that fail by themselves
          MaxCrashes  \* bound on restarts of the plugin process

Fixes == [kind : FixKinds, table : Nat, index : Indexes]

ASSUME BatchesAssumption == \A b \in Batches : b \in Seq(Fixes) /\ b # <<>>
ASSUME KeepAssumption == Keep \in Nat

VARIABLES
  jobs,     \* FixJobRegistry.jobs; status "absent" is a missing key
  batch,    \* batch[c]: the ordered fixes of job c
  entry,    \* entry[c]: the audit entry a restore job restores, or 0
  ctxDone,  \* ctxDone[c]: the context of job c was cancelled
  worker,   \* worker[c]: where the goroutine of job c is
  step,     \* step[c]: the fix the goroutine is at
  res,      \* res[c]: its result so far
  verdict,  \* verdict[c]: the status the goroutine will pass to finish
  dropped,  \* the indexes missing in the database
  audit,    \* dbo.MCAuditLog, by AuditID
  dropper,  \* dropper[i]: the job that last dropped i (history), or NoCall
  stopped,  \* jobs that were ever stopped (history)
  late,     \* late[c]: statements of c carried out after the stop (history)
  faults, crashes

vars == <<jobs, batch, entry, ctxDone, worker, step, res, verdict, dropped,
          audit, dropper, stopped, late, faults, crashes>>
local == <<batch, entry>>           \* set when a job starts
database == <<dropped, audit, dropper, stopped, late>>

NoCall == "no call"
Result == [applied : BOOLEAN, error : BOOLEAN]
Pending == [applied |-> FALSE, error |-> FALSE]
Failure == [applied |-> FALSE, error |-> TRUE]
AbsentJob == [status |-> "absent", cancel |-> FALSE, results |-> <<>>]
Statuses == {"absent", "running", "done", "failed", "stopped"}
WorkerPoints == {"none", "next", "audit", "exec", "sent", "record", "append",
                 "decide", "finish", "restore", "restoreSent", "recordRestore",
                 "markRestored", "done"}
AuditEntries == [index : Indexes, action : {"drop", "restore"}, restored : BOOLEAN]

TypeOK ==
  /\ jobs \in [Calls -> [status : Statuses, cancel : BOOLEAN, results : Seq(Result)]]
  /\ batch \in [Calls -> Seq(Fixes)]
  /\ entry \in [Calls -> Nat]
  /\ ctxDone \in [Calls -> BOOLEAN]
  /\ worker \in [Calls -> WorkerPoints]
  /\ step \in [Calls -> Nat]
  /\ res \in [Calls -> Result]
  /\ verdict \in [Calls -> {"none", "done", "failed", "stopped"}]
  /\ dropped \in SUBSET Indexes
  /\ audit \in Seq(AuditEntries)
  /\ dropper \in [Indexes -> Calls \union {NoCall}]
  /\ stopped \in SUBSET Calls
  /\ late \in [Calls -> Nat]
  /\ faults \in Nat /\ crashes \in Nat

Init ==
  /\ jobs = [c \in Calls |-> AbsentJob]
  /\ batch = [c \in Calls |-> <<>>]
  /\ entry = [c \in Calls |-> 0]
  /\ ctxDone = [c \in Calls |-> FALSE]
  /\ worker = [c \in Calls |-> "none"]
  /\ step = [c \in Calls |-> 1]
  /\ res = [c \in Calls |-> Pending]
  /\ verdict = [c \in Calls |-> "none"]
  /\ dropped = {}
  /\ audit = <<>>
  /\ dropper = [i \in Indexes |-> NoCall]
  /\ stopped = {}
  /\ late = [c \in Calls |-> 0]
  /\ faults = 0 /\ crashes = 0

Goto(c, p) == worker' = [worker EXCEPT ![c] = p]
IsRestore(c) == entry[c] # 0
Target(c) == IF IsRestore(c) THEN audit[entry[c]].index ELSE batch[c][step[c]].index
IsDrop(c) == ~IsRestore(c) /\ batch[c][step[c]].kind = "drop-index"

(* A statement fails because the context is done, or by itself.            *)
StatementFails(c) ==
  \/ ctxDone[c] /\ UNCHANGED faults
  \/ faults < MaxFaults /\ faults' = faults + 1

StatementOk(c) == ~ctxDone[c] /\ UNCHANGED faults

-----------------------------------------------------------------------------
(* The registry. *)

Present(J) == {c \in Calls : J[c].status # "absent"}
Finished(J) == {c \in Present(J) : J[c].status # "running"}

(* pruneLocked(Keep) takes as many finished jobs as needed, oldest first;  *)
(* time is not modelled here, so any of them may be the oldest.            *)
Prunable(J, removed) ==
  LET excess == Cardinality(Present(J)) - Keep
  IN /\ removed \subseteq Finished(J)
     /\ IF Cardinality(Present(J)) <= Keep THEN removed = {}
        ELSE Cardinality(removed) = IF excess < Cardinality(Finished(J)) THEN excess
                                    ELSE Cardinality(Finished(J))

(* The locked section that every start ends with, and its goroutine.       *)
Insert(c, firstPoint) ==
  /\ LET J == [jobs EXCEPT ![c] = [AbsentJob EXCEPT !.status = "running", !.cancel = TRUE]]
     IN \E removed \in SUBSET Calls :
          /\ Prunable(J, removed)
          /\ jobs' = [j \in Calls |-> IF j \in removed THEN AbsentJob ELSE J[j]]
  /\ Goto(c, firstPoint)
  /\ UNCHANGED <<ctxDone, step, res, verdict, database, faults, crashes>>

(* Mutant: a stopped job's context is not cancelled.                       *)
StopLocked_NoCancel(S) ==
  LET stopping == {c \in S : jobs[c].status = "running"}
  IN /\ stopping # {}
     /\ jobs' = [c \in Calls |-> IF c \in stopping
                                 THEN [jobs[c] EXCEPT !.status = "stopped", !.cancel = FALSE]
                                 ELSE jobs[c]]
     /\ stopped' = stopped \union stopping
     /\ UNCHANGED <<ctxDone, local, worker, step, res, verdict, dropped, audit, dropper,
                    late, faults, crashes>>

(* stopFixJobLocked for the running jobs of S.                             *)
StopLocked(S) ==
  LET stopping == {c \in S : jobs[c].status = "running"}
  IN /\ stopping # {}
     /\ jobs' = [c \in Calls |->
                   IF c \in stopping
                   THEN [jobs[c] EXCEPT !.status = "stopped", !.cancel = FALSE]
                   ELSE jobs[c]]
     /\ ctxDone' = [c \in Calls |-> ctxDone[c] \/ (c \in stopping /\ jobs[c].cancel)]
     /\ stopped' = stopped \union stopping
     /\ UNCHANGED <<local, worker, step, res, verdict, dropped, audit, dropper, late,
                    faults, crashes>>

AppendResult(c, r) ==
  jobs' = IF jobs[c].status = "absent" THEN jobs
          ELSE [jobs EXCEPT ![c].results = Append(@, r)]

(* Mutant: a status that no client knows.                                  *)
FinishJob_UnknownStatus(c, status) ==
  jobs' = [jobs EXCEPT ![c].status = IF status = "done" THEN "applied" ELSE status,
                       ![c].cancel = FALSE]

(* finish overwrites whatever status the job has.                          *)
FinishJob(c, status) ==
  jobs' = IF jobs[c].status = "absent" THEN jobs
          ELSE [jobs EXCEPT ![c].status = status, ![c].cancel = FALSE]

SummaryFailed(c) ==
  Cardinality({k \in DOMAIN jobs[c].results :
                 ~jobs[c].results[k].applied \/ jobs[c].results[k].error})

-----------------------------------------------------------------------------
(* Operations: defrag-fix (and defrag-bulk-rebuild, which generates its    *)
(* batch), rollback-restore, defrag-fix-stop.  A refused call changes      *)
(* nothing.                                                                *)

StartFix(c) ==
  /\ worker[c] = "none"
  /\ \E b \in Batches : batch' = [batch EXCEPT ![c] = OrderFixes(b)]
  /\ UNCHANGED entry
  /\ Insert(c, "next")

(* Nothing is read of the entry but its index and SQL, which never change: *)
(* an entry stamped as restored is accepted again.                         *)
StartRestore(c) ==
  /\ worker[c] = "none"
  /\ \E e \in DOMAIN audit :
       /\ audit[e].action = "drop"
       /\ entry' = [entry EXCEPT ![c] = e]
  /\ UNCHANGED batch
  /\ Insert(c, "restore")

Stop(c) == StopLocked({c})
StopRunning == StopLocked(Calls)

-----------------------------------------------------------------------------
(* runDetached: the loop over the fixes, with applyOneFix inlined. *)

NextFix(c) ==
  /\ worker[c] = "next"
  /\ \/ /\ step[c] > Len(batch[c])
        /\ Goto(c, "decide")
        /\ UNCHANGED jobs
     \/ /\ step[c] <= Len(batch[c])
        /\ ctxDone[c]
        /\ FinishJob(c, "stopped")
        /\ Goto(c, "done")
     \/ /\ step[c] <= Len(batch[c])
        /\ ~ctxDone[c]
        /\ Goto(c, IF IsDrop(c) THEN "audit" ELSE "exec")
        /\ UNCHANGED jobs
  /\ UNCHANGED <<local, ctxDone, step, res, verdict, database, faults, crashes>>

(* A drop is not tried unless the audit table can be ensured first.        *)
EnsureAudit(c) ==
  /\ worker[c] = "audit"
  /\ \/ StatementOk(c) /\ Goto(c, "exec") /\ UNCHANGED res
     \/ StatementFails(c) /\ Goto(c, "append") /\ res' = [res EXCEPT ![c] = Failure]
  /\ UNCHANGED <<jobs, local, ctxDone, step, verdict, database, crashes>>

BeginFix(c) ==
  /\ worker[c] = "exec"
  /\ \/ StatementOk(c) /\ Goto(c, "sent") /\ UNCHANGED res
     \/ StatementFails(c) /\ Goto(c, "append") /\ res' = [res EXCEPT ![c] = Failure]
  /\ UNCHANGED <<jobs, local, ctxDone, step, verdict, database, crashes>>

(* The server carries the statement out.                                   *)
Effect(c) ==
  /\ late' = IF c \in stopped THEN [late EXCEPT ![c] = @ + 1] ELSE late
  /\ IF IsRestore(c)
     THEN Target(c) \in dropped /\ dropped' = dropped \ {Target(c)} /\ UNCHANGED dropper
     ELSE IF IsDrop(c)
     THEN /\ Target(c) \notin dropped
          /\ dropped' = dropped \union {Target(c)}
          /\ dropper' = [dropper EXCEPT ![Target(c)] = c]
     ELSE UNCHANGED <<dropped, dropper>>
  /\ UNCHANGED <<audit, stopped>>

(* The server refuses to drop a missing index or to create an existing one.*)
Refused(c) == (IsRestore(c) /\ Target(c) \notin dropped) \/ (IsDrop(c) /\ Target(c) \in dropped)

(* The plugin sees an error; unless the server refused the statement, it    *)
(* may have carried it out all the same.                                   *)
StatementError(c) ==
  \/ Refused(c) /\ UNCHANGED <<database, faults>>
  \/ StatementFails(c) /\ (Effect(c) \/ UNCHANGED database)

EndFix(c) ==
  /\ worker[c] = "sent"
  /\ \/ /\ Effect(c)
        /\ UNCHANGED faults
        /\ res' = [res EXCEPT ![c] = [applied |-> TRUE, error |-> FALSE]]
        /\ Goto(c, IF IsDrop(c) THEN "record" ELSE "append")
     \/ /\ StatementError(c)
        /\ res' = [res EXCEPT ![c] = Failure]
        /\ Goto(c, "append")
  /\ UNCHANGED <<jobs, local, ctxDone, step, verdict, crashes>>

AuditRow(c, action) ==
  Append(audit, [index |-> Target(c), action |-> action, restored |-> FALSE])

(* Mutant: an error of the audit table is not reported.                    *)
AuditStatement_Silent(c, newAudit) ==
  /\ UNCHANGED res
  /\ \/ StatementOk(c) /\ audit' = newAudit
     \/ StatementFails(c) /\ audit' \in {audit, newAudit}

(* A change of the audit table, with the job's context like the change it  *)
(* records; a failure is reported in the result only.                      *)
AuditStatement(c, newAudit) ==
  \/ StatementOk(c) /\ audit' = newAudit /\ UNCHANGED res
  \/ /\ StatementFails(c)
     /\ audit' \in {audit, newAudit}
     /\ res' = [res EXCEPT ![c].error = TRUE]

RecordDrop(c) ==
  /\ worker[c] = "record"
  /\ AuditStatement(c, AuditRow(c, "drop"))
  /\ Goto(c, "append")
  /\ UNCHANGED <<jobs, local, ctxDone, step, verdict, dropped, dropper, stopped, late, crashes>>

(* Mutant: the first error ends the batch.                                 *)
AppendStep_AbortsOnError(c) ==
  /\ worker[c] = "append"
  /\ AppendResult(c, res[c])
  /\ step' = [step EXCEPT ![c] = @ + 1]
  /\ res' = [res EXCEPT ![c] = Pending]
  /\ verdict' = [verdict EXCEPT ![c] = IF res[c].error THEN "failed" ELSE "done"]
  /\ Goto(c, IF IsRestore(c) THEN "finish" ELSE IF res[c].error THEN "decide" ELSE "next")
  /\ UNCHANGED <<local, ctxDone, database, faults, crashes>>

(* appendResult; a restore job has its one result and goes on to finish.   *)
AppendStep(c) ==
  /\ worker[c] = "append"
  /\ AppendResult(c, res[c])
  /\ step' = [step EXCEPT ![c] = @ + 1]
  /\ res' = [res EXCEPT ![c] = Pending]
  /\ IF IsRestore(c)
     THEN /\ verdict' = [verdict EXCEPT ![c] = IF @ = "stopped" THEN @
                           ELSE IF res[c].error THEN "failed" ELSE "done"]
          /\ Goto(c, "finish")
     ELSE Goto(c, "next") /\ UNCHANGED verdict
  /\ UNCHANGED <<local, ctxDone, database, faults, crashes>>

(* The locked section after the loop reads the status and the summary ...  *)
Decide(c) ==
  /\ worker[c] = "decide"
  /\ CASE jobs[c].status = "absent" -> Goto(c, "done") /\ UNCHANGED <<jobs, verdict>>
       [] jobs[c].status = "stopped" ->
            /\ jobs' = [jobs EXCEPT ![c].cancel = FALSE]
            /\ Goto(c, "done")
            /\ UNCHANGED verdict
       [] OTHER ->
            /\ verdict' = [verdict EXCEPT ![c] = IF SummaryFailed(c) > 0 THEN "failed" ELSE "done"]
            /\ Goto(c, "finish")
            /\ UNCHANGED jobs
  /\ UNCHANGED <<local, ctxDone, step, res, database, faults, crashes>>

(* ... and finish writes the verdict in a later one.                       *)
Finish(c) ==
  /\ worker[c] = "finish"
  /\ FinishJob(c, verdict[c])
  /\ Goto(c, "done")
  /\ UNCHANGED <<local, ctxDone, step, res, verdict, database, faults, crashes>>

-----------------------------------------------------------------------------
(* runRestoreDetached. *)

BeginRestore(c) ==
  /\ worker[c] = "restore"
  /\ \/ /\ ctxDone[c]
        /\ verdict' = [verdict EXCEPT ![c] = "stopped"]
        /\ res' = [res EXCEPT ![c] = Failure]
        /\ Goto(c, "append")
        /\ UNCHANGED faults
     \/ StatementOk(c) /\ Goto(c, "restoreSent") /\ UNCHANGED <<res, verdict>>
     \/ /\ StatementFails(c)
        /\ res' = [res EXCEPT ![c] = Failure]
        /\ Goto(c, "append")
        /\ UNCHANGED verdict
  /\ UNCHANGED <<jobs, local, ctxDone, step, database, crashes>>

EndRestore(c) ==
  /\ worker[c] = "restoreSent"
  /\ \/ /\ Effect(c)
        /\ UNCHANGED faults
        /\ res' = [res EXCEPT ![c] = [applied |-> TRUE, error |-> FALSE]]
        /\ Goto(c, "recordRestore")
     \/ /\ StatementError(c)
        /\ res' = [res EXCEPT ![c] = Failure]
        /\ Goto(c, "append")
  /\ UNCHANGED <<jobs, local, ctxDone, step, verdict, crashes>>

RecordRestore(c) ==
  /\ worker[c] = "recordRestore"
  /\ AuditStatement(c, AuditRow(c, "restore"))
  /\ Goto(c, "markRestored")
  /\ UNCHANGED <<jobs, local, ctxDone, step, verdict, dropped, dropper, stopped, late, crashes>>

MarkRestored(c) ==
  /\ worker[c] = "markRestored"
  /\ AuditStatement(c, [audit EXCEPT ![entry[c]].restored = TRUE])
  /\ Goto(c, "append")
  /\ UNCHANGED <<jobs, local, ctxDone, step, verdict, dropped, dropper, stopped, late, crashes>>

-----------------------------------------------------------------------------
(* External: the process ends and the supervisor starts a new one.  The    *)
(* registry and the goroutines are gone, a statement in flight may or may  *)
(* not be carried out by the server.                                       *)
Crash ==
  /\ crashes < MaxCrashes
  /\ crashes' = crashes + 1
  /\ \E done \in SUBSET {c \in Calls : worker[c] \in {"sent", "restoreSent"}} :
       LET drops == {c \in done : IsDrop(c) /\ Target(c) \notin dropped}
           recreated == {Target(c) : c \in {r \in done : IsRestore(r)}}
       IN /\ dropped' = (dropped \ recreated) \union {Target(c) : c \in drops}
          /\ dropper' = [i \in Indexes |->
                           IF \E c \in drops : Target(c) = i
                           THEN CHOOSE c \in drops : Target(c) = i
                           ELSE dropper[i]]
  /\ jobs' = [c \in Calls |-> AbsentJob]
  /\ worker' = [c \in Calls |-> IF worker[c] = "none" THEN "none" ELSE "done"]
  /\ UNCHANGED <<local, ctxDone, step, res, verdict, audit, stopped, late, faults>>

FixWorker(c) == NextFix(c) \/ EnsureAudit(c) \/ BeginFix(c) \/ EndFix(c) \/ RecordDrop(c)
                \/ AppendStep(c) \/ Decide(c) \/ Finish(c)
RestoreWorker(c) == BeginRestore(c) \/ EndRestore(c) \/ RecordRestore(c) \/ MarkRestored(c)

Next ==
  \/ \E c \in Calls : StartFix(c) \/ StartRestore(c) \/ Stop(c)
                        \/ FixWorker(c) \/ RestoreWorker(c)
  \/ StopRunning
  \/ Crash

Spec == Init /\ [][Next]_vars

(* The scheduler runs every goroutine; a statement need not end by itself  *)
(* (a rebuild takes as long as it takes) but does when its context is done.*)
Fairness ==
  \A c \in Calls :
    /\ WF_vars(worker[c] \notin {"sent", "restoreSent"} /\ (FixWorker(c) \/ RestoreWorker(c)))
    /\ WF_vars(ctxDone[c] /\ (EndFix(c) \/ EndRestore(c)))

FairSpec == Spec /\ Fairness

-----------------------------------------------------------------------------
(* Properties *)

(* A job in the registry, a stopped one too, has one result for each fix    *)
(* that its goroutine has left behind: a failing fix is recorded and the    *)
(* loop goes on (fix.go:399-401).  One that ended as done or failed has one *)
(* for every fix of its batch; done means that every statement was applied  *)
(* and recorded, failed that some was not, whatever stops, failures and     *)
(* late answers came in between.                                            *)
ReportIsComplete ==
  \A c \in Calls :
    /\ jobs[c].status # "absent" => Len(jobs[c].results) = step[c] - 1
    /\ jobs[c].status \in {"done", "failed"} =>
         /\ Len(jobs[c].results) = IF IsRestore(c) THEN 1 ELSE Len(batch[c])
         /\ jobs[c].status = "done" <=> SummaryFailed(c) = 0

(* Within a table a job has worked through everything else before it drops  *)
(* an index, whatever order the caller asked for and whichever fixes fail   *)
(* (kindRank, orderFixes; runDetached).                                     *)
DropsComeLast ==
  \A c \in Calls : \A k, m \in DOMAIN batch[c] :
    /\ k < m
    /\ batch[c][k].table = batch[c][m].table
    /\ batch[c][k].kind = "drop-index"
    /\ k < step[c] \/ dropper[batch[c][k].index] = c
    => batch[c][m].kind = "drop-index"

(* An index that a fix dropped can be restored from an audit entry that is  *)
(* not stamped as restored, or the plugin has said, or is about to say, in  *)
(* a result of the dropping job that something went wrong with it; only a   *)
(* job that is no longer in the registry can tell nobody (applyOneFix,      *)
(* runRestoreDetached).                                                     *)
Recoverable(i) ==
  \E e \in DOMAIN audit :
    audit[e].index = i /\ audit[e].action = "drop" /\ ~audit[e].restored

Reported(c, i) ==
  \/ \E k \in DOMAIN jobs[c].results : batch[c][k].index = i /\ jobs[c].results[k].error
  \/ worker[c] = "record" /\ Target(c) = i
  \/ worker[c] = "append" /\ Target(c) = i /\ res[c].error

DroppedIsRecoverableOrReported ==
  \A i \in dropped :
    \/ Recoverable(i)
    \/ Reported(dropper[i], i)
    \/ jobs[dropper[i]].status = "absent"

(* Once a job is stopped the server carries out at most the statement it    *)
(* was already given: the loop and every later statement look at the        *)
(* context first (runDetached, applyOneFix).                                *)
AtMostOneLateStatement == \A c \in Calls : late[c] <= 1

(* A job that was stopped stays stopped until it is forgotten ("Stop a      *)
(* running health-fix job", main.go:233; runDetached looks for JobStopped   *)
(* before it writes a verdict).                                             *)
StopIsFinal ==
  [][\A c \in Calls : jobs[c].status = "stopped" =>
                         jobs'[c].status \in {"stopped", "absent"}]_vars

(* The goroutine of a stopped job ends.                                     *)
StoppedJobEnds == \A c \in Calls : c \in stopped ~> worker[c] = "done"
=============================================================================
