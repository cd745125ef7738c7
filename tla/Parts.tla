------------------------------- MODULE Parts -------------------------------
(***************************************************************************)
(* The parts of the plugins that keep to themselves, one of which is       *)
(* looked at: the user interfaces, each an iframe or a tab of its own, the *)
(* connection caches, the follow stream of kubernetes-logs and the triage  *)
(* of a health scan.  They share no state with each other.                 *)
(***************************************************************************)
EXTENDS Naturals, Sequences

CONSTANTS
  Nothing,
  Databases, Reports, Tables, MaxScans,                 \* SqlHealthTab
  Entries, MaxRestores, MaxFailures,                    \* SqlRollbacksTab
  MaxTraces, MaxRecorded, MaxStreams, MaxDeletes,       \* SqlTraceTab
  Pods, Containers, MaxLogs, MaxLines, MaxReloads,      \* LogsPage
  Root, Prefixes, Objects, Pages, MaxLoads,             \* S3Page
  Profiles, MaxRows, MaxQueries,                        \* OpenSearchPage
  MaxSessions, MaxEvents, PageLimit, MaxPolls, MaxRefreshes,  \* GadgetPage
  Targets, MaxErrors,                                   \* GolangPage, ArthasPage
  MaxStarts,                                            \* GolangPage
  MaxJobs,                                              \* ArthasPage
  Statements, Default, Linked, MaxHistory, MaxSaves, MaxOpens,  \* ConsolePage
  Calls, Items, Names, Bound,                           \* ConnectionCache
  MaxBeats,                                             \* LogsFollow
  Scans, All                                            \* HealthTriage

VARIABLES
  part,  \* the one that is looked at
  \* SqlHealthTab
  database, scans, hSettled, selectedFixes, selectedTables, ticked, applying, request, scanned,
  \* SqlRollbacksTab
  job, restores, stamped, rEntries, jobs, restoring, restoreJobID, rSeen, unseen, stale, failures,
  \* SqlTraceTab
  traces, recorded, activeTraceID, followed, streams, tEvents, tStarting, deleting,
  \* LogsPage
  pods, selectedPod, container, follow, streamNonce, lSeen, sent, late, logs,
  \* S3Page
  entries, loadedPrefixes, selectedPath, followedPath, selectedObject, loadingObject, reading,
  sCancelled, loads,
  \* OpenSearchPage
  profiles, profileName, params, result, preview, selected, pendingAction, queries,
  \* GadgetPage
  session, sessions, polls, refreshes, refreshed, starting, selectedSession, gSeen, load,
  events, disturbed,
  \* GolangPage
  target, open, goSessions, startSession, deleteSession, deleted, selectedTarget, astray, goStale,
  errors,
  \* ArthasPage
  aJob, aOpen, aSessions, create, createStatus, createJobId, selectedId, deletes, aDeleted, mine,
  blind, aStale, aErrors,
  \* ConsolePage
  link, editor, statement, autoRun, cSent, cResult, storage, saves, linkRuns, executed, opens,
  \* ConnectionCache
  pc, item, cDatabase, pool, cacheResult, cached, unsure, missed,
  \* LogsFollow
  fPc, read, lock, frames, cut, beats, connected, handler,
  \* HealthTriage
  scan, triaged, fixes

healthVars == <<database, scans, hSettled, selectedFixes, selectedTables, ticked, applying,
                request, scanned>>
rollbacksVars == <<job, restores, stamped, rEntries, jobs, restoring, restoreJobID, rSeen,
                   unseen, stale, failures>>
traceVars == <<traces, recorded, activeTraceID, followed, streams, tEvents, tStarting, deleting>>
logsVars == <<pods, selectedPod, container, follow, streamNonce, lSeen, sent, late, logs>>
s3Vars == <<entries, loadedPrefixes, selectedPath, followedPath, selectedObject, loadingObject,
            reading, sCancelled, loads>>
openSearchVars == <<profiles, profileName, params, result, preview, selected, pendingAction,
                    queries>>
gadgetVars == <<session, sessions, polls, refreshes, refreshed, starting, selectedSession, gSeen,
                load, events, disturbed>>
golangVars == <<target, open, goSessions, startSession, deleteSession, deleted, selectedTarget,
                astray, goStale, errors>>
arthasVars == <<aJob, aOpen, aSessions, create, createStatus, createJobId, selectedId, deletes,
                aDeleted, mine, blind, aStale, aErrors>>
consoleVars == <<link, editor, statement, autoRun, cSent, cResult, storage, saves, linkRuns,
                 executed, opens>>
cacheVars == <<pc, item, cDatabase, pool, cacheResult, cached, unsure, missed>>
followVars == <<fPc, read, lock, frames, cut, beats, connected, handler>>
triageVars == <<scan, triaged, fixes>>

Health == INSTANCE SqlHealthTab WITH onHealth <- part = "health", settled <- hSettled
Rollbacks == INSTANCE SqlRollbacksTab
  WITH onRollbacks <- part = "rollbacks", entries <- rEntries, seen <- rSeen
Trace == INSTANCE SqlTraceTab
  WITH onTrace <- part = "trace", events <- tEvents, starting <- tStarting
Logs == INSTANCE LogsPage WITH onLogs <- part = "logs", seen <- lSeen
S3 == INSTANCE S3Page WITH onBucket <- part = "bucket", cancelled <- sCancelled
OpenSearch == INSTANCE OpenSearchPage WITH onProfiles <- part = "profiles"
Gadget == INSTANCE GadgetPage WITH onGadgets <- part = "gadgets", seen <- gSeen
Golang == INSTANCE GolangPage
  WITH onGolang <- part = "golang", sessions <- goSessions, stale <- goStale
Arthas == INSTANCE ArthasPage
  WITH onArthas <- part = "arthas", job <- aJob, open <- aOpen, sessions <- aSessions,
       deleted <- aDeleted, stale <- aStale, errors <- aErrors
Console == INSTANCE ConsolePage
  WITH onConsole <- part = "console", sent <- cSent, result <- cResult
SqlCache == INSTANCE ConnectionCache
  WITH onCache <- part = "sql-server cache", ByDatabase <- FALSE, database <- cDatabase,
       result <- cacheResult, entries <- cached
PgCache == INSTANCE ConnectionCache
  WITH onCache <- part = "postgres cache", ByDatabase <- TRUE, database <- cDatabase,
       result <- cacheResult, entries <- cached
Follow == INSTANCE LogsFollow WITH onFollow <- part = "follow", pc <- fPc
Triage == INSTANCE HealthTriage WITH onScan <- part = "triage"

ASSUME PartsAssumption ==
  /\ Health!HealthAssumption /\ Rollbacks!RollbacksAssumption /\ Trace!TraceTabAssumption
  /\ Logs!LogsAssumption /\ S3!S3Assumption /\ OpenSearch!OpenSearchAssumption
  /\ Gadget!GadgetPageAssumption /\ Golang!GolangPageAssumption /\ Arthas!ArthasPageAssumption
  /\ Console!ConsoleAssumption /\ SqlCache!ConnectionCacheAssumption
  /\ PgCache!ConnectionCacheAssumption /\ Follow!LogsFollowAssumption /\ Triage!TriageAssumption

PartNames == {"health", "rollbacks", "trace", "logs", "bucket", "profiles", "gadgets", "golang",
              "arthas", "console", "sql-server cache", "postgres cache", "follow", "triage"}

Init ==
  /\ part \in PartNames
  /\ Health!Init /\ Rollbacks!Init /\ Trace!Init /\ Logs!Init /\ S3!Init
  /\ OpenSearch!Init /\ Gadget!Init /\ Golang!Init /\ Arthas!Init
  /\ Console!Init /\ SqlCache!Init /\ Follow!Init /\ Triage!Init

Next ==
  /\ UNCHANGED part
  /\ \/ /\ Health!Next
        /\ UNCHANGED <<rollbacksVars, traceVars, logsVars, s3Vars, openSearchVars,
                       gadgetVars, golangVars, arthasVars, consoleVars, cacheVars, followVars,
                       triageVars>>
     \/ /\ Rollbacks!Next
        /\ UNCHANGED <<healthVars, traceVars, logsVars, s3Vars, openSearchVars,
                       gadgetVars, golangVars, arthasVars, consoleVars, cacheVars, followVars,
                       triageVars>>
     \/ /\ Trace!Next
        /\ UNCHANGED <<healthVars, rollbacksVars, logsVars, s3Vars, openSearchVars,
                       gadgetVars, golangVars, arthasVars, consoleVars, cacheVars, followVars,
                       triageVars>>
     \/ /\ Logs!Next
        /\ UNCHANGED <<healthVars, rollbacksVars, traceVars, s3Vars, openSearchVars,
                       gadgetVars, golangVars, arthasVars, consoleVars, cacheVars, followVars,
                       triageVars>>
     \/ /\ S3!Next
        /\ UNCHANGED <<healthVars, rollbacksVars, traceVars, logsVars,
                       openSearchVars, gadgetVars, golangVars, arthasVars, consoleVars,
                       cacheVars, followVars, triageVars>>
     \/ /\ OpenSearch!Next
        /\ UNCHANGED <<healthVars, rollbacksVars, traceVars, logsVars, s3Vars,
                       gadgetVars, golangVars, arthasVars, consoleVars, cacheVars, followVars,
                       triageVars>>
     \/ /\ Gadget!Next
        /\ UNCHANGED <<healthVars, rollbacksVars, traceVars, logsVars, s3Vars,
                       openSearchVars, golangVars, arthasVars, consoleVars, cacheVars,
                       followVars, triageVars>>
     \/ /\ Golang!Next
        /\ UNCHANGED <<healthVars, rollbacksVars, traceVars, logsVars, s3Vars,
                       openSearchVars, gadgetVars, arthasVars, consoleVars, cacheVars,
                       followVars, triageVars>>
     \/ /\ Arthas!Next
        /\ UNCHANGED <<healthVars, rollbacksVars, traceVars, logsVars, s3Vars,
                       openSearchVars, gadgetVars, golangVars, consoleVars, cacheVars,
                       followVars, triageVars>>
     \/ /\ Console!Next
        /\ UNCHANGED <<healthVars, rollbacksVars, traceVars, logsVars, s3Vars,
                       openSearchVars, gadgetVars, golangVars, arthasVars, cacheVars, followVars,
                       triageVars>>
     \/ /\ (SqlCache!Next \/ PgCache!Next)
        /\ UNCHANGED <<healthVars, rollbacksVars, traceVars, logsVars, s3Vars,
                       openSearchVars, gadgetVars, golangVars, arthasVars, consoleVars,
                       followVars, triageVars>>
     \/ /\ Follow!Next
        /\ UNCHANGED <<healthVars, rollbacksVars, traceVars, logsVars, s3Vars,
                       openSearchVars, gadgetVars, golangVars, arthasVars, consoleVars,
                       cacheVars, triageVars>>
     \/ /\ Triage!Next
        /\ UNCHANGED <<healthVars, rollbacksVars, traceVars, logsVars, s3Vars,
                       openSearchVars, gadgetVars, golangVars, arthasVars, consoleVars,
                       cacheVars, followVars>>

vars == <<part, healthVars, rollbacksVars, traceVars, logsVars, s3Vars, openSearchVars, gadgetVars,
          golangVars, arthasVars, consoleVars, cacheVars, followVars, triageVars>>

Spec == Init /\ [][Next]_vars
=============================================================================
