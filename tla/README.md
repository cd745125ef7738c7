# Formal models of the Mission Control plugins

TLA+ specifications of the plugins in this repository: out-of-process binaries
that the Mission Control host starts, that answer operations over gRPC and
HTTP, and that keep all their state in memory. The models cover the parts where
handlers, goroutines and external servers interleave; TLC checks them on small
instances, and TLAPS proves the most important results for every instance.

## 1. Inventory

Every plugin is one Go process. The host (the SDK, outside this repository)
calls `Invoke` for an operation and proxies HTTP requests; each call runs in a
goroutine of its own, so all handlers of a plugin may interleave wherever they
do not hold a mutex. The plugins do not talk to each other. Nothing is
persisted except in the systems they operate on: a restart empties every
registry.

| part | state | operations | interacts with |
|---|---|---|---|
| **arthas** sessions and jobs (`arthas/ops.go`, `jobs.go`, `internal/arthas/session.go`, `bootstrap.go`) | two registries with a mutex each: sessions and creation jobs; per session a port-forward | `session-create` (starts a detached job), `session-delete`, `session-creation-status`, lists | the pod (exec, an HTTP listener on port 8563), port-forwards |
| arthas exec, resolution, Java detection | none | `exec` | Kubernetes API, the Arthas HTTP API |
| arthas decompiler cache (`internal/arthas/decompile`) | files per image digest and class | none: nothing in the repository calls it | the file system |
| **sql-server** maintenance jobs (`internal/sqldefrag/jobs.go`) | registry of at most 25 jobs, a cancel function and a goroutine per job | `defrag-run`, `defrag-stop`, `defrag-terminate`, `defrag-jobs` | one long stored procedure on the server |
| **sql-server** health fixes (`fix_jobs.go`, `fix.go`, `auditlog.go`) | registry of fix and restore jobs; table `dbo.MCAuditLog` in the database | `defrag-fix`, `defrag-bulk-rebuild`, `defrag-fix-stop`, `defrag-fix-jobs`, `rollback-list`, `rollback-restore` | DDL statements, the audit table |
| **sql-server** traces (`internal/sqltrace`, `internal/xetrace`, `http.go`) | registry of traces; per trace an event buffer, a drain goroutine and a `stopOnce` | `trace-start`, `trace-stop`, `trace-get`, `trace-delete`, `trace-list`, an SSE stream | an Extended Events session with a ring buffer |
| **sql-server** health triage (`internal/sqldefrag/health.go`, `fix.go`) | none | `defrag-health`: flags indexes, recommends fixes | the rows of the scan |
| sql-server queries (stats, processes, permissions, schema, console) | none | queries | the server |
| **sql-server / postgres** connection cache (`client.go`) | a map of open pools by config item, in postgres also by database | every operation | the host's connections |
| **inspektor-gadget** trace sessions (`session.go`, `ops.go`, `http.go`) | registry of sessions; per session a bounded buffer, a channel of 256 events and a state | `trace-start`, `trace-stop`, `trace-events`, `trace-list`, export, an SSE stream | the gadget service (gRPC over a port-forward) |
| **golang** diagnostic sessions and profile runs (`ops.go`, `session.go`, `profile_runs.go`) | registries of sessions and of profile runs | `session-create`, `session-delete`, `profile-start`, `profile-collect`, `profile-stop`, ... | pods, gops and pprof ports |
| **kubernetes-logs** (`http.go`) | per request: writers, a heartbeat, one mutex | log queries, the follow stream | the log API |
| kubernetes-metrics, opensearch, postgres queries, s3 | none | queries | Prometheus, OpenSearch, PostgreSQL, S3 |
| **user interfaces** (`*/ui-src`), React pages in an iframe | selections, query caches, streams, requests in flight | what the operator clicks; effects, polls, answers | the operations above, over HTTP |
| charts, generated checksums, the compiled bundle `s3/ui/assets/index.js` | packaging | none | none |

What is hard about them, and what correctness means:

* **arthas.** Creating a session takes minutes and three critical sections of
  two registries, the last two in a detached goroutine. Correct: a target
  (pod and container) has one session; a pending job has a goroutine that will
  settle it; a job that reports a session reports one that is registered;
  port-forwards do not leak.
* **sql-server jobs.** A goroutine, a stop and the pruning of the registry race
  for the job's entry. Correct: a run that works on the server can be seen and
  stopped; a stop is final; only old results are forgotten; stopped runs end.
* **sql-server fixes.** A `DROP INDEX` and the audit row that can undo it are two
  statements, and a statement may be carried out although the plugin sees an
  error. Correct: while its job is listed, no index disappears without either an
  audit entry or a reported error; a report has a result for every fix left
  behind; within a table, drops come last.
* **sql-server traces.** The drain, `trace-stop`, `trace-delete`, the expiry and
  the stream all touch a trace. Correct: an event session stays on the server
  without an owner only after a failed statement; every event is kept once, in
  order; the final result is final.
* **inspektor-gadget.** A stop can come before the goroutine runs; the gRPC
  receiver may outlive the run whose channel is closed; streams share a channel.
* **golang.** The session limit is checked long before a session is registered;
  a profile run may outlive its session. Port-forwards are opened candidate by
  candidate; the result of a profile run may come after its stop. Correct: no
  forward is leaked, a run that has ended keeps its state and data, every run
  ends.
* **Health triage.** Drops, rebuilds and statistics updates are decided apart and
  collapse at thresholds. Correct: no need is left without a fix (but see section
  4 for column statistics); no index that enforces a key is dropped, and a used
  one only for a longer one (but see section 4 for unused ones).
* **Connection caches.** Lookup, opening and storing are separate steps. Correct:
  an operation gets a pool of its item's database (but see section 4 for lookups
  that fail).
* **kubernetes-logs.** Log writers and the heartbeat share a response writer that
  is invalid once the handler has returned. Correct: whole frames, the lines of a
  container once and in order, all written when the handler returns.
* **User interfaces.** Answers, polls and streams of an earlier selection are
  still under way when the operator selects something else; cached lists are
  changed while a poll is in flight; effects see only what a render shows.
  Correct: what follows a selection is not disturbed by answers to an earlier
  one; what was asked for is followed up to its outcome. Each page has exceptions,
  which its property names.

The `hazards` of `PROJECT.json` list these points at the lines where they bite,
with the properties that cover them.

## 2. Modules and what they model

Conventions. An action is one critical section of a mutex, or one call to an
external server; what a handler or a goroutine does between two of them is
local and belongs to the action before. The place of a handler or goroutine is a
program counter (`pc`, `worker`, `drainer`, ...). A request, job, session or
trace is named by the call that creates it (the code draws random ids or takes
the time). History variables are marked `(history)` where they are declared.
Definitions named `X_Something` are plausible bugs of `X`: replacing `X` by one
of them must break the property that `PROJECT.json` pairs it with ("mutants").

| module | models |
|---|---|
| `ExclusiveSlots` | abstract: a slot is reserved by one actor, then held by one, then released |
| `JobLifecycle` | abstract: absent, running, one final verdict, removed |
| `ArthasSessions` | both arthas registries, the create and delete handlers, the creation goroutine, the pod's listener and the port-forwards; implements `ExclusiveSlots` |
| `DefragJobs` | the job registry of `jobs.go` with its pruning, the start, stop and terminate operations, the goroutine and the procedure on the server; implements `JobLifecycle` |
| `FixOrder` | `orderFixes` and `kindRank`: the order in which a batch is applied |
| `FixJobs` (extends `FixOrder`) | fix and restore jobs, their goroutines statement by statement, the audit table, lost answers, stops and plugin restarts |
| `TraceSessions` | creation of an event session, the trace registry, the drain, `stopOnce`, GC, expiry, stop and delete calls, the SSE stream |
| `GadgetSessions` | the inspektor-gadget session: admission, the run over the nodes, the gRPC receiver, buffer and channel, stop and expiry, SSE streams |
| `GolangSessions` | `session-create` with its limit, candidate ports and probes, `session-delete`, profile runs from their lookup to their end |
| `HealthTriage` (extends `FixOrder`, `Filter`) | `flagIndexDropCandidates` and `RecommendFixes` for one table |
| `ConnectionCache` | `For` of both plugins, `ByDatabase` being postgres |
| `LogsFollow` | `followHTTPLogs`: a goroutine per container, the heartbeat, the mutex, the wait group |
| `Queries` | what the pages rely on of `@tanstack/react-query` (external): one fetch in flight per query, joined by polls, cancelled and restarted by an invalidation |
| `SqlHealthTab`, `SqlRollbacksTab`, `SqlTraceTab`, `ConsolePage` | the tabs of sql-server that keep state across requests |
| `LogsPage`, `S3Page`, `OpenSearchPage`, `GadgetPage`, `GolangPage`, `ArthasPage` | the pages of the other plugins, each beside as much of its server as it sees |
| `Parts` | the ten pages, both caches, the follow stream and the triage as one system |
| `MC*` | instances for TLC |
| `Filter` | `list.filter` and the loops that copy the rows they keep |
| `SequenceFacts` | lemmas about lists and buffers |
| `*_proofs` | theorems and proofs |

**ArthasSessions.** `Lookup`, `StartJob`, `Recheck`, `Adopt` are the handler
`sessionCreate`; `Attach`, `OpenForward`, `AddSession`, `Succeed`, `Fail` are the
goroutine; `RemoveSession` and `StopSession` are `session-delete`, in two steps
because `Stop` runs after the registry's lock was released; `PollJobs` is any job
read, which expires finished jobs. Time-to-live is abstracted: any set of
finished jobs may have expired whenever `cleanupLocked` runs. `RestartContainer`
and `LoseForward` are what the cluster may do.

**DefragJobs.** `Prepare` to `Insert` are `startWithDB`, with its options
StopExisting and TerminateExisting as separate steps; `RunStart`, `RunEnd` and
`Record` are `runDetached`; a run on the server ends by itself, by its context or
by KILL. `StopLocked` and `Prunable` are the registry's locked helpers. `clock`
orders the end times that pruning sorts by.

**FixJobs.** `worker[c]` walks through `runDetached` and `applyOneFix`: begin a
statement (refused when the context is done), end it, record the drop, append
the result, decide, finish. `EndFix` and `EndRestore` let a cancelled or broken
statement be carried out or not. `AuditRow` is the INSERT into the audit table.
`Crash` restarts the plugin: registries and goroutines go, the database stays.

**TraceSessions.** `stage[t]` is the progress of `stopOnce`; its later callers wait
for it. `ring[t]` is the server's ring buffer, `polled[t]` what the drain has
read and not yet delivered, `events[t]` the trace's buffer. `doubtful` holds the
traces whose CREATE or DROP failed, for which the server may have kept the
session. A stream reads the events and the running flag in two steps, as the
code does.

**GadgetSessions.** `Admit` to `AddSession` are `traceStart`; `StopMarks` and
`StopCancels` are `Stop`, which cancels after it released the lock, so that a stop
can come before `MarkRunning` and its cancellation after it. `worker[s]` is the
session's goroutine: list the nodes, then on each node open a stream and wait for
the receiver's verdict or for the end of the context. `receiver[s]` is
`receiveGadgetEvents` with `AddEvent` in its two halves: `Buffer` under the lock,
`Send` after it. A receiver may outlive the run that gave up on it; a send on the
channel that `MarkDone` closed panics, and `panicked` ends every behaviour.

**GolangSessions.** `BeginCreate` is the check of the limit; `OpenForward`,
`ProbeSucceeds`, `ProbeFails` and `GiveUp` are `firstWorkingForward`, first for
gops, then for pprof; `EndPhase` registers the session after the second.
`BeginDelete`, `StopSession` and `RemoveRuns` are `session-delete`. `LookUp`,
`StartRun` and `Collected` are the two profile operations, in which the session
is looked up before the run is added. `MarkDone` leaves a stopped run stopped and
without data, but writes its times, its source and an error, as the code does.

**The pages.** An action is one event of the browser: a click, an answer, a
timer, a message of a stream, or the effects of a render, which run before the
next event. A page's server is reduced to what the page can tell apart, with
answers that carry the state at the time they were computed and arrive late, in
any order, or as errors. `useEffect` appears as an action that compares the
dependencies with those it saw last; a cancelled request stays in a variable of
its own, so that the code's way to discard it is what keeps it from being shown.

Two of them need a word more. *GadgetPage*: a session goes on to have events after
a stop until the service confirms it, `Complete` is `MarkDone`, which leaves a
stopped session stopped, and `EventsOf` are the latest `PageLimit` events (1000 in
the code). *SqlTraceTab*: its buttons stay enabled, so deletes overlap; the
`onSuccess` of an earlier one keeps what it knew when the next one was sent, which
is what `DeletesActive` compares with.

**HealthTriage** evaluates `RecommendFixes` on every scan of a given set. Fragmentation
and page counts are abstracted to the maintenance that they call for; a row
carries its key columns, whether it enforces a key and whether it is read.

**ConnectionCache.** `For` is the lookup, `OpenGorm` what happens between lookup and
store, `Store` the second critical section. A pool is known by the call that
opened it and by its database.

**LogsFollow.** A frame begins when the mutex is taken and ends when it is
released; `cut` records a frame that another one was written into.

**Parts.** Its parts share no state. `part` chooses the one that is looked at and
the others rest in their initial states, so that one run checks them all: they
ask the same two questions, and a reader finds the answer for each in the
conjunct of its name in `MCParts`.

## 3. Runs

All runs have `CHECK_DEADLOCK FALSE`: calls are bounded in number, and a plugin
that nobody calls is rightly idle.

| run | instance | what it shows |
|---|---|---|
| `arthas` | 3 create requests, 1 pod with 2 containers, 1 restart; fair | one session per target, truthful jobs, no leaked forward, refinement of `ExclusiveSlots`; every pending job settles |
| `arthas_wrong_container` | 2 requests | **violated**: a session of the second container reaches the first container's JVM |
| `defrag_safety` | 3 runs, registry of 2 | runs can be stopped, stops are final, pruning takes the oldest finished jobs, refinement of `JobLifecycle` |
| `defrag_liveness` | 2 runs, registry of 1; fair | cancelled and killed runs end and are settled |
| `fix_safety` | 3 calls, 1 index, batch of a drop and a statistics update given in the wrong order, 1 fault, 1 restart | a result for every fix left behind, drops last within a table, no silent loss of an index by a job that is listed, at most one statement on indexes after a stop |
| `fix_liveness` | 2 calls, 1 fault; fair | the goroutine of a stopped job ends |
| `fix_stop_is_final` | 2 calls, no fault | **violated**: a stopped job ends as done or failed |
| `trace` | 1 trace, 2 stopping or deleting clients, 1 stream, ring of 2, 3 events, 1 fault; fair | sessions have owners, events once and in order, gapless streams, timed traces stop, streams end |
| `trace_final_drain` | 1 client, 2 events, no fault | **violated**: the last events are lost |
| `gadget` | 1 session on 2 nodes, 2 streams, buffer and channel of 2, 3 events; fair | the limit is not used up by dead sessions, the buffer is the latest window, streams lose only what overflows or another stream took, completed sessions traced every node, a panic needs an unconfirmed stop, sessions and streams end |
| `golang` | 2 creates with a limit of 1, 2 candidate ports, 2 profile runs; fair | forwards have owners, the limit and the removal of runs fail only in the windows that the code leaves open, an ended run keeps its state and data, every run ends |
| `parts` | each part alone, see below | `SelectionIsFollowed` and `RequestsAreFollowedUp`, of which each part has its own conjuncts |

The conjuncts of `parts`:

| part | `SelectionIsFollowed` | `RequestsAreFollowedUp` |
|---|---|---|
| health | | drops are sent only if ticked in the report they belong to, and to the database it was made for, unless sent between a render and its effects |
| rollbacks | | an entry whose restore the page saw end as done is shown as restored, unless the latest fetch of the entries failed |
| trace | one stream is open, that of the active trace, and what it brought is shown in order; events of the trace shown before may stand beside it | |
| logs | lines are the newest of the selected pod and container, in order | |
| bucket | the preview is of the selected object | a loaded prefix has all pages of its listing |
| profiles | profile, parameters, result and row belong together | |
| gadgets | | the latest events of a completed or failed session are shown, up to the page's limit; not of a stopped one, and not if a refresh or a failed load came in between |
| golang | | one session per target unless an answer or the list was lost; a deleted session does not come back unless the latest fetch failed |
| arthas | | a start is followed to its session, unless no list had arrived before; a deleted session does not come back; both unless the latest fetch failed |
| console | the result is that of the statement run last | a link runs at most once, the history holds the latest statements of all windows |
| caches | a pool is of the item's database, unless the lookup of this call or of the one that opened the pool failed | a pool is lost only to one opened at the same time |
| follow | | frames are whole, lines in order; all are written when the handler returns, but the heartbeat may still write |
| triage | | only a column statistic of a table that is rebuilt as a whole gets no fix; no index that enforces a key is dropped, a used one only if a longer one stays or is unused |

Why the bounds are enough. *Arthas*: two requests race for one target, the third
comes after a delete or for the other container; a fourth meets no new
combination, because every registry operation looks at one target.
*DefragJobs*: pruning needs a registry over its limit with a choice of finished
jobs and a running one, which three jobs and a limit of two give. *FixJobs*: a drop, its restore, and
a second drop or restore of the same index; a batch of two has a next fix and an
order to repair; one fault at any statement, one restart at any point.
*TraceSessions*: a ring of two with three events evicts and overlaps; two clients and the
drain are three callers of `stopOnce`; traces share nothing but the map.
*GadgetSessions*: sessions share only the count of `RunningCount`, so one session is
enough for properties of a session; three events overflow a buffer and a channel
of two, and two streams compete for the channel.
*GolangSessions*: the limit needs two creates; a deleted session needs one run that
was added before and one after.
*Pages*: two of everything that can be selected, so that there is an earlier and a
later selection, and one more request than selections, so that answers overtake;
`MaxLogs` and `MaxHistory` of 2 overflow with three lines or statements; with a
`PageLimit` of 1 a second event of a gadget session overflows, and the next
session can stay below the limit; two deletes overlap. *Triage*: three
indexes give a chain of prefixes and reach both thresholds (two rebuilds, two
statistics) with one index to spare. *Caches*: two calls overlap, a third comes
after them. *Follow*: two containers and the heartbeat are three writers.

Symmetry is used in safety runs without temporal formulas that could be affected
(`defrag_safety`, `fix_safety`). `MCArthasSessions` names the container of the first
request instead, which loses nothing since the containers are interchangeable.

**Fairness.** `WF` on the steps of a goroutine or of a started handler is the Go
scheduler together with the fact that its calls return: attaching has a timeout
of five minutes, trace statements of ten seconds, and the wait for the gadget service's confirmation
thirty. Three calls have no time limit and are assumed to return: the query of the
job's history after a maintenance run, which no stop cancels either
(`collectJobHistory`, `jobs.go:131`, behind `WF` of `Record`), and opening a gadget
stream and sending its stop, on a background context (`runner_grpc.go`). The gadget
service itself is not fair: it need not answer. A maintenance procedure or a
rebuild has no time limit, so its end is fair only once its context is done or
its session was killed. Timers are fair (`Expire`). Profile runs end because collecting has a context
and the requests have deadlines. `Parts` states safety only and has no fairness. Clients, faults, crashes and
the cluster never have to act.

## 4. What the code does differently from what is said

Three runs are expected to be violated; `findings` in `PROJECT.json` quotes the text.

1. *Wrong container* (`bootstrap.go:162`): attaching stops early when port 8563
   answers, and the containers of a pod share that port.
2. *A stop is overwritten* (`fix_jobs.go:277`): `finish` does not look at the
   status; the restore goroutine never does, the fix goroutine does so in an
   earlier critical section.
3. *The final drain comes too late* (`sqltrace/registry.go:108`): `stop` drops the
   event session before the drain it has just cancelled reads it.

Seen while modelling, without a run of their own:

* Traces: `trace-stop` reads its result before the drain has finished
  (`ops_trace.go:85`), though `main.go:213` calls it final; the stream reads events
  and the running flag in two critical sections, so that events delivered in
  between are not sent although it says `done` (`http.go:81-93`).
* Arthas: the `Stop` closure only closes the port-forward, although
  `session.go:12-14` says that it tears down the process; `bootstrap.go:79-81` says
  that it does not. A creation job lost by a restart never clears `createJobId`,
  so that Start stays disabled.
* sql-server connection cache: when the item cannot be looked up, its pool is
  opened unbound and cached for good (`client.go:92-105`), also for later calls
  whose lookup succeeds, although `client.go:19-21` says that every query must be
  constrained. `PoolIsOfTheDatabase` allows exactly this.
* kubernetes-logs: `streamLines` does not look at the scanner's error, so a line of
  more than 1 MiB ends the container's stream silently; the heartbeat may write
  after the handler has returned.
* Health triage: an index that is used can be dropped as a prefix of one that the
  same batch drops as unused, so that its queries are left with neither
  (`health.go:316`; `UsedIndexHasSubstitute` allows exactly this); a table that
  collapses to a rebuild of all indexes gets no update of its column statistics
  (`fix.go:97-99`), which the rebuild does not refresh (`UnmetNeedIsOfAColumn`
  allows exactly this).
* golang: a session whose port-forward ended keeps its local port; when the
  collection of a stopped profile run returns, its `CompletedAt`, `ElapsedMS`,
  `Source` and `Error` are written over (`profile_runs.go:51-58`), so that a
  stopped run may show a later end and an error.
* inspektor-gadget: when the service does not confirm a stop within thirty seconds,
  the run gives up and `MarkDone` closes the channel of events; a receiver that is
  about to send on it then panics, which ends the plugin (`session.go:130`, 175-187,
  `runner_grpc.go:126-133`). `PanicNeedsGiveUp` shows that nothing else leads there.
* Pages: a drop can be sent when the tick falls between a render and its effect
  (health); a click on a row of traces does not clear the events, so that those of
  the trace shown before stay above those of the new one (`TraceTab.tsx:322`);
  after Start, the list of traces may be ahead of the answer and the first events
  are then cleared; of two deletes at once the first keeps what was active when
  the second was sent, so that its answer may deselect and clear a trace picked
  since, or leave the deleted one selected; the gadget page does not load the
  events that arrive after a stop, because the state stays `stopped` when the
  session ends (`session.go:183`, `App.tsx:116-129`); its `refresh` shows the events
  and the selection it started with, whatever has been selected since; a console
  link loses its statement when the tab is left before the editor is there.
* A job of the rollbacks page whose status goes from done to done of another job
  in one poll is not noticed by the effect.

## 5. Proofs

TLAPS checks these for every value of the constants. The assumptions, which TLC
evaluates too, are the named ones of the modules: placeholders such as `NoOne`,
`NoTrace` and `Nothing` are none of the values they stand in for; sizes and
numbers (`RingSize`, `MaxEvents`, `MaxLogs`, ...) are the naturals, or positive
naturals, that the code has; a batch of fixes is a non-empty sequence. No
assumption bounds the number of requests, jobs, traces, sessions or nodes, and
where a proof counts, finiteness is part of its invariant.

Each module of proofs starts with its inductive invariant. The proof that a step
keeps it has one step per action; type correctness is a conjunct of every one.

`ArthasSessions_proofs`. The inductive invariant `IInv` adds to type
correctness that a job is pending exactly while a handler or goroutine works on
it (`JobIsWorked`), that a target has at most one pending job (`OneJobPerTarget`),
and that a target being attached to has no session (`AttachingTargetIsFree`).
The last is what makes one session per target inductive: it is established by
the second lookup and kept because only the owner of the pending job can add a
session. Theorems: `TypeCorrect`, `OneSession`, `PendingIsWorked`. A second
invariant, `RInv`, relative to the first, gives `ReportedSession` and
`NoForwardLeak`. `Refinement` maps attach points to reservations and sessions to
holders and shows that every step is a step of `ExclusiveSlots` or stutters.

`DefragJobs_proofs`. `IInv` relates the three views of a job: its registry entry,
its goroutine and its context. A running entry has an active goroutine and a
cancel function; an active goroutine whose context is not done has a running
entry. Theorems: `TypeCorrect`, `EveryRunCanBeStopped`, `CancelledStopped`, and
`Refinement` of `JobLifecycle`. `OldResultsGoFirst` is the action property of
pruning: only an insertion prunes (`OnlyInsertPrunes`), the registry is finite
(`RegistryIsFinite`), and what a prune leaves ended later than what it takes
(`PruneKeepsTheNewest`).

`FixJobs_proofs`. `OrderFixesSorts` is about the algorithm: whatever the batch,
`orderFixes` returns a permutation of it in which tables and ranks do not
decrease and equal fixes keep their order. `SmallerIsTotalOrder` makes the
comparison a strict total order; counting the positions that go before one gives
each its place. `IInv` follows each job: it is at a fix of its sorted batch
(`InPlace`, `BatchSorted`), its results are those of the fixes it has left behind
(`ReportFollows`), a stop reaches its context (`StopReaches`), and every dropped
index has its audit row, an entry in a report, or a worker about to write one
(`Accounted`); the entry is lost with the registry in a crash. Theorems:
`TypeCorrect`; `ReportsAreComplete`, one result for each fix left behind, by a
stopped job too, and for every fix by one that is done or failed, done exactly if
each was applied and recorded; `DropsLast`, within a table; `DropsAreRecoverable`,
while the dropping job is listed; `LateStatements`.

`TraceSessions_proofs`. `LifeOf` ties the event session on the server to the start,
drain and stop of its trace; `OrderOf` says why a poll can be merged by comparing
with the last event: an event still to be polled or delivered either was seen or
comes after everything that was; `StreamOf` says that a stream has sent the
stretch of the buffer that follows its starting point. Theorems: `TypeCorrect`,
`SessionsHaveOwners`, `EventsStayInOrder`, `StreamsAreGapless`.

`GadgetSessions_proofs`. `LifeOf`, `ReceiverOf` and `NodesOf` follow a session's
goroutine, its receiver and the nodes it has left; the buffer is `Window` of the
numbers given out; `EventsOf` and `StreamOf` split the events of a stream into
those in its channel, taken, dropped and about to be sent. A receiver outlives
its node only if the run gave up on it, which is what `PanicsNeedGiveUp` rests on.
Theorems: `TypeCorrect`, `CountedSessionsAreLive`, `BufferIsAWindow`,
`StreamsAccount`, `PanicsNeedGiveUp`, `CompletedIsTraced`.

`GolangSessions_proofs`. `ForwardsFollowPhases` says which phase of a create may own
a port-forward, `RoomForOne` that as long as creates have not overlapped there is
room for the one in progress, `RunsAreAddedOnce` when a run is added and
profiled. Theorems: `TypeCorrect`, `NoForwardLeaks`, `LimitHolds`,
`DeleteTakesRuns`, and the action property `RunEndIsFinal`: state and data of a run
that has ended never change, nor does anything else once its collection has
returned.

`Parts_proofs`. Each part has an inductive invariant of its own; its steps keep it,
and the others leave its variables alone. `ShownInv` collects those about what is
shown: the trace tab's open stream is that of the trace its effect has seen, and
the events it has delivered are among those shown, in order (`TraceInv`); the log
page holds the newest lines of what it selected (`LogsInv`); a request that runs is of the folder that is
followed (`BucketInv`); the profile of a pending request stays selected
(`ProfilesInv`); a cached pool is of the call that opened it, under that call's
key (`CacheInv`, in both variants). `CarriedInv` collects those about what was
asked for:

* `HealthInv`: a drop selected in the report that was last rendered was ticked by
  the operator.
* `RollbacksInv`: a job that a poll or the page has as done is done, and once the
  page has fetched the entries after that, the entry is stamped.
* `ListingInv`: what has been read of a prefix is the union of the pages so far.
* `GolangInv`, `ArthasInv`: no list in flight has a deleted session, because the
  delete cancels the poll that could still have it; a session on the server is
  listed, in the list in flight, or the outcome of the start under way (golang); a
  start is followed through its answer, its job and the list that the page then
  asks for (arthas).
* `GadgetInv`: no list on its way is ahead of the sessions on the server, and
  events loaded for a session that is listed as completed were read after it had
  completed; a stopped one has no such fact.
* `HistoryInv`: the entries of the console's history are the statements that were
  run, each where it was run last, and only older ones of a full history are
  missing. `HistoryOfSave` is about `saveToHistory`: a statement that is run again
  moves to the front and the others keep their order.
* `FollowInv`: the mutex is held by the goroutine that writes, and the lines of a
  container that are out are those before the point its goroutine has reached.
* `TriageInv` says that the fixes are those of `RecommendFixes`. That only a column's
  need is left unmet (`NeedsAreMet`), and that a used index is dropped only for a
  longer one that stays or is unused (`SubstituteStays`), is then about the
  algorithm, for every scan: of the indexes that make a row
  redundant take one with the fewest longer keys; by `KeyPrefixes` (to be a proper
  prefix is a strict order) it has none, so it is not redundant itself and is
  dropped only if it is not read.
* `TraceTyped`, `LogsTyped`, `ProfilesTyped`: types that `ShownInv` does not fix.

Theorems: `FollowsSelection` and `FollowsUpRequests`, the two questions that the run
`parts` asks; `PartsAreTyped`; and `PoolsAreKept`, which says of both caches that a
pool is lost only to an overlap.

`SequenceFacts` has the lemmas about sequences that these share: appending, putting
in front, taking the tail, replacing an element, a buffer cut to its newest
elements (`NewestMoves`), and filtering. The models filter lists with `Filter`, which
is defined by counting positions, and not with `SelectSeq`, which is recursive and
which the provers know nothing about. `InARow` is what makes the definition good: a
strict total order gives each element of a finite set its place, whose number is
that of the elements before it, so that `FilterPlaces` can say that a filtered list
has the elements that are kept, in their order.

Only model-checked:

* The liveness properties (`JobSettles`, `CutJobEnds`, `StoppedJobEnds`,
  `TimedTraceStops`, `StreamEnds`, `WorkEnds`, `RunEnds`): fairness is beyond the
  prover.
* The three properties of the runs that expect a violation are false.

## 6. Not modelled, and the plan

Queries that keep no state (statistics, processes, permissions, schema, metrics,
buckets), text processing without decisions (event XML, `sp_executesql` batches,
query templates, formatting), the decompiler cache that nothing calls, charts and
generated files are left out. The host's SDK appears only as the caller of
operations.

Of the user interfaces, the tabs that present what one request returned are left
out: statistics, processes, locks, vacuum, dashboards, MBeans, OGNL, profilers,
the event panel. Their lines are mostly layout, and the compiled bundle of the s3
page (21,671 of the 35,714 lines of JavaScript and TypeScript in the repository)
is generated from `s3/ui-src` and its libraries. The pages that are modelled are
mapped at the lines that hold their state, effects and requests, which is a small
share of the JavaScript and TypeScript; most of what the models stand for is Go.

Every invariant, every action property and both refinements that the runs check
are proved; what is left to TLC is liveness, as section 5 says.
