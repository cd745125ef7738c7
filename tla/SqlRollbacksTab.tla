--------------------------- MODULE SqlRollbacksTab ---------------------------
(***************************************************************************)
(* The Rollbacks tab of the sql-server plugin (pages/RollbacksTab.tsx):    *)
(* it lists the dropped indexes of dbo.MCAuditLog, restores one of them as *)
(* a job of the plugin, follows the job by polling the list of jobs, and   *)
(* fetches the entries again when the job has ended.                       *)
(*                                                                         *)
(* The server's part is runRestoreDetached of fix_jobs.go.  As in          *)
(* SqlHealthTab, effects run after the render, at the latest before the    *)
(* next one.                                                               *)
(***************************************************************************)
EXTENDS Naturals, Queries

CONSTANTS Entries,     \* rows of dbo.MCAuditLog
          MaxRestores, \* bound on the restore jobs
          MaxFailures  \* bound on the failing fetches

RollbacksAssumption ==
  /\ MaxRestores \in Nat /\ MaxFailures \in Nat
  /\ \A known \in SUBSET Entries : known # Nothing

VARIABLES
  onRollbacks,   \* the App shows this tab
  job,           \* job[j]: the plugin's restore jobs; "none" is a missing one
  restores,      \* restores[j]: the entry that job j restores
  stamped,       \* entries whose restoredAt is set in the table
  entries,       \* query "rollback-list": the entries shown as restored
  jobs,          \* query "defrag-fix-jobs"
  restoring,     \* the pending POST: its entry, and its job or 0
  restoreJobID,  \* the job shown in RestoreJobCard, or 0
  seen,          \* the status that the effect has seen
  unseen,        \* (history) the shown job was never seen to end by the effect
  stale,         \* (history) the latest fetch of the entries failed
  failures

vars == <<onRollbacks, job, restores, stamped, entries, jobs, restoring,
          restoreJobID, seen, unseen, stale, failures>>

Jobs == 1 .. MaxRestores
Statuses == {"none", "running", "done", "failed"}

TypeOK ==
  /\ onRollbacks \in BOOLEAN
  /\ job \in [Jobs -> Statuses]
  /\ restores \in [Jobs -> Entries \union {Nothing}]
  /\ stamped \in SUBSET Entries
  /\ entries \in [data : (SUBSET Entries) \union {Nothing}, flight : (SUBSET Entries) \union {Nothing}]
  /\ jobs \in [data : [Jobs -> Statuses] \union {Nothing},
               flight : [Jobs -> Statuses] \union {Nothing}]
  /\ restoring \in [entry : Entries, job : Jobs \union {0}] \union {Nothing}
  /\ restoreJobID \in Jobs \union {0}
  /\ seen \in Statuses
  /\ unseen \in BOOLEAN
  /\ stale \in BOOLEAN
  /\ failures \in 0 .. MaxFailures

Init ==
  /\ onRollbacks \in BOOLEAN
  /\ job = [j \in Jobs |-> "none"]
  /\ restores = [j \in Jobs |-> Nothing]
  /\ stamped = {}
  /\ entries = Fetch(NewQuery, {})
  /\ jobs = Fetch(NewQuery, job)
  /\ restoring = Nothing
  /\ restoreJobID = 0
  /\ seen = "none"
  /\ unseen = FALSE
  /\ stale = FALSE
  /\ failures = 0

server == <<job, restores, stamped>>
history == <<unseen, stale>>

-----------------------------------------------------------------------------
(* The plugin. *)

(* StartRollbackRestoreWithDB                                              *)
StartJob(j) ==
  /\ restoring # Nothing /\ restoring.job = 0
  /\ job[j] = "none" /\ \A k \in 1 .. j - 1 : job[k] # "none"
  /\ job' = [job EXCEPT ![j] = "running"]
  /\ restores' = [restores EXCEPT ![j] = restoring.entry]
  /\ restoring' = [restoring EXCEPT !.job = j]
  /\ UNCHANGED <<onRollbacks, stamped, entries, jobs, restoreJobID, seen, history, failures>>

StampEntry(j) ==
  /\ job[j] = "running"
  /\ stamped' = stamped \union {restores[j]}
  /\ UNCHANGED <<onRollbacks, job, restores, entries, jobs, restoring, restoreJobID,
                 seen, history, failures>>

(* Mutant: the job is done before the entry is stamped.                    *)
EndJob_BeforeStamp(j, verdict) ==
  /\ job[j] = "running"
  /\ job' = [job EXCEPT ![j] = verdict]
  /\ UNCHANGED <<onRollbacks, restores, stamped, entries, jobs, restoring, restoreJobID,
                 seen, history, failures>>

(* A job is done only when RecordRestore and MarkRestored have succeeded.  *)
EndJob(j, verdict) ==
  /\ job[j] = "running"
  /\ verdict = "done" => restores[j] \in stamped
  /\ job' = [job EXCEPT ![j] = verdict]
  /\ UNCHANGED <<onRollbacks, restores, stamped, entries, jobs, restoring, restoreJobID,
                 seen, history, failures>>

-----------------------------------------------------------------------------
(* The tab. *)

StatusIn(q, id) == IF id # 0 /\ q.data # Nothing THEN q.data[id] ELSE "none"
ShownStatus == StatusIn(jobs, restoreJobID)

(* Mutant: only a job seen as running is waited for.                       *)
AfterEffects_FromRunning(q) ==
  IF ShownStatus # seen /\ ShownStatus \in {"done", "failed"} /\ seen = "running"
  THEN Refetch(q, stamped) ELSE q

(* The entries after the effects, whose dependency is the status alone.    *)
AfterEffects(q) ==
  IF ShownStatus # seen /\ ShownStatus \in {"done", "failed"}
  THEN Refetch(q, stamped) ELSE q

RunEffects == seen' = ShownStatus /\ entries' = AfterEffects(entries)

Effects ==
  /\ seen # ShownStatus
  /\ RunEffects
  /\ UNCHANGED <<onRollbacks, server, jobs, restoring, restoreJobID, history, failures>>

(* Restore, confirmed: the row is not restored and no POST is pending.     *)
Restore(e) ==
  /\ entries.data # Nothing /\ e \notin entries.data
  /\ restoring = Nothing
  /\ restoring' = [entry |-> e, job |-> 0]
  /\ RunEffects
  /\ UNCHANGED <<onRollbacks, server, jobs, restoreJobID, history, failures>>

(* onSuccess of the POST.  If the jobs already contain the new one, with   *)
(* the status that the old one had, the effect has nothing to see.         *)
Restored ==
  /\ restoring # Nothing /\ restoring.job # 0
  /\ restoreJobID' = restoring.job
  /\ restoring' = Nothing
  /\ jobs' = Refetch(jobs, job)
  /\ RunEffects
  /\ unseen' = (StatusIn(jobs, restoring.job) = ShownStatus /\ ShownStatus # "none")
  /\ UNCHANGED <<onRollbacks, server, stale, failures>>

(* The POST is refused, or its answer is lost and the job runs unseen.     *)
RestoreFails ==
  /\ restoring # Nothing
  /\ restoring' = Nothing
  /\ RunEffects
  /\ UNCHANGED <<onRollbacks, server, jobs, restoreJobID, history, failures>>

-----------------------------------------------------------------------------
(* The queries. *)

(* refetchInterval *)
PollJobs ==
  /\ jobs' = Fetch(jobs, job)
  /\ jobs' # jobs
  /\ UNCHANGED <<onRollbacks, server, entries, restoring, restoreJobID, seen, history, failures>>

JobsArrive ==
  /\ Fetching(jobs)
  /\ jobs' = Answered(jobs)
  /\ RunEffects
  /\ UNCHANGED <<onRollbacks, server, restoring, restoreJobID, history, failures>>

Refresh ==
  /\ ~Fetching(entries)
  /\ entries' = Refetch(AfterEffects(entries), stamped)
  /\ seen' = ShownStatus
  /\ UNCHANGED <<onRollbacks, server, jobs, restoring, restoreJobID, history, failures>>

EntriesArrive ==
  /\ Fetching(entries)
  /\ entries' = AfterEffects(Answered(entries))
  /\ seen' = ShownStatus
  /\ stale' = FALSE
  /\ UNCHANGED <<onRollbacks, server, jobs, restoring, restoreJobID, unseen, failures>>

FetchFails ==
  /\ failures < MaxFailures
  /\ failures' = failures + 1
  /\ \/ /\ Fetching(entries)
        /\ entries' = AfterEffects(Failed(entries))
        /\ stale' = TRUE
        /\ UNCHANGED jobs
     \/ /\ Fetching(jobs)
        /\ jobs' = Failed(jobs)
        /\ entries' = AfterEffects(entries)
        /\ UNCHANGED stale
  /\ seen' = ShownStatus
  /\ UNCHANGED <<onRollbacks, server, restoring, restoreJobID, unseen>>

Next ==
  /\ onRollbacks
  /\ \/ \E j \in Jobs : StartJob(j) \/ StampEntry(j) \/ EndJob(j, "done") \/ EndJob(j, "failed")
     \/ \E e \in Entries : Restore(e)
     \/ Effects \/ Restored \/ RestoreFails
     \/ PollJobs \/ JobsArrive
     \/ Refresh \/ EntriesArrive \/ FetchFails

Spec == Init /\ [][Next]_vars

-----------------------------------------------------------------------------
(* A restore that is shown as done is not offered again: unless the fetch  *)
(* of the entries failed, its entry is shown as restored.  An answer asked *)
(* for before the stamp must not be the last one (RotateCcw button,        *)
(* RollbacksTab.tsx:47-51, 186-195).                                       *)
DoneIsShownRestored ==
  /\ seen = "done" /\ ShownStatus = "done"
  /\ ~Fetching(entries) /\ ~stale /\ ~unseen
  => restores[restoreJobID] \in entries.data
=============================================================================
