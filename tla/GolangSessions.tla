--------------------------- MODULE GolangSessions ---------------------------
(***************************************************************************)
(* The plugin of Go processes: sessions with their port-forwards and the   *)
(* profile runs of a session (golang/ops.go, session.go, profile_runs.go). *)
(* Every request is a goroutine; each lock is held for one step.  All      *)
(* requests are of one config item: getSessionForConfig is then a lookup.  *)
(***************************************************************************)
EXTENDS Naturals, FiniteSets

CONSTANTS Sessions,    \* session-create requests, and the sessions they make
          Runs,        \* profile-start and profile-collect requests, and their runs
          MaxSessions, \* settings.MaxSessions
          Candidates,  \* candidate ports of an endpoint
          NoSession

ASSUME GolangAssumption ==
  /\ MaxSessions \in Nat /\ Candidates \in Nat /\ NoSession \notin Sessions

Endpoints == {"gops", "pprof"}

VARIABLES
  create,    \* create[s]: where sessionCreate is
  tried,     \* tried[s]: candidate ports it has tried for the endpoint
  probing,   \* probing[s]: a forward to a candidate port is open
  forwards,  \* forwards[s]: the endpoints whose forwards the session has
  sessions,  \* SessionRegistry
  deleting,  \* deleting[s]: where a session-delete of s is
  call,      \* call[r]: where profileStart or profileCollect is
  of,        \* of[r]: the session that it has looked up
  run,       \* run[r]: the ProfileRun
  profiling, \* runs whose profile is being collected
  profiles,  \* ProfileRegistry
  overlap,   \* (history) two creates were past the check at a time
  late       \* (history) runs added after their session was deleted

vars == <<create, tried, probing, forwards, sessions, deleting, call, of, run, profiling,
          profiles, overlap, late>>

creating == <<create, tried, probing, forwards>>
collecting == <<call, of, run, profiling, profiles, late>>

States == {"none", "running", "completed", "failed", "stopped"}

(* Whether it has data (Bytes, URL), a source and an error, and whose time *)
(* CompletedAt and ElapsedMS are.                                          *)
ProfileRun == [state : States, data : BOOLEAN, source : BOOLEAN, error : BOOLEAN,
               completedAt : {"none", "stop", "collect"}]

NewProfileRun == [state |-> "running", data |-> FALSE, source |-> FALSE, error |-> FALSE,
                  completedAt |-> "none"]

TypeOK ==
  /\ create \in [Sessions -> {"new"} \union Endpoints \union {"done"}]
  /\ tried \in [Sessions -> 0 .. Candidates]
  /\ probing \in SUBSET Sessions
  /\ forwards \in [Sessions -> SUBSET Endpoints]
  /\ sessions \in SUBSET Sessions
  /\ deleting \in [Sessions -> {"no", "stopping", "stopped"}]
  /\ call \in [Runs -> {"new", "start", "collect", "done"}]
  /\ of \in [Runs -> Sessions \union {NoSession}]
  /\ run \in [Runs -> ProfileRun]
  /\ profiling \in SUBSET Runs
  /\ profiles \in SUBSET Runs
  /\ overlap \in BOOLEAN
  /\ late \in SUBSET Runs

Init ==
  /\ create = [s \in Sessions |-> "new"]
  /\ tried = [s \in Sessions |-> 0]
  /\ probing = {}
  /\ forwards = [s \in Sessions |-> {}]
  /\ sessions = {}
  /\ deleting = [s \in Sessions |-> "no"]
  /\ call = [r \in Runs |-> "new"]
  /\ of = [r \in Runs |-> NoSession]
  /\ run = [r \in Runs |-> [NewProfileRun EXCEPT !.state = "none"]]
  /\ profiling = {}
  /\ profiles = {}
  /\ overlap = FALSE
  /\ late = {}

-----------------------------------------------------------------------------
(* sessionCreate. *)

InCreation == {s \in Sessions : create[s] \in Endpoints}

(* Mutant: off by one. *)
MayCreate_OneMore == Cardinality(sessions) <= MaxSessions

MayCreate == Cardinality(sessions) < MaxSessions

(* The check; target, pod and candidate ports are then resolved.           *)
BeginCreate(s) ==
  /\ create[s] = "new"
  /\ create' = [create EXCEPT ![s] = IF MayCreate THEN "gops" ELSE "done"]
  /\ overlap' = (overlap \/ (MayCreate /\ InCreation # {}))
  /\ UNCHANGED <<tried, probing, forwards, sessions, deleting, collecting>>

(* One of them cannot be resolved; no port is forwarded yet.               *)
CreateFails(s) ==
  /\ create[s] = "gops" /\ tried[s] = 0
  /\ create' = [create EXCEPT ![s] = "done"]
  /\ UNCHANGED <<tried, probing, forwards, sessions, deleting, overlap, collecting>>

(* Mutant: one candidate too many.                                         *)
OpenForward_OneMore(s) ==
  /\ s \in InCreation \ probing
  /\ tried[s] <= Candidates
  /\ tried' = [tried EXCEPT ![s] = @ + 1]
  /\ probing' \in {probing, probing \union {s}}
  /\ UNCHANGED <<create, forwards, sessions, deleting, overlap, collecting>>

(* firstWorkingForward: StartPortForward and Ready.                        *)
OpenForward(s) ==
  /\ s \in InCreation \ probing
  /\ tried[s] < Candidates
  /\ tried' = [tried EXCEPT ![s] = @ + 1]
  /\ probing' \in {probing, probing \union {s}}
  /\ UNCHANGED <<create, forwards, sessions, deleting, overlap, collecting>>

NextPhase(s) == IF create[s] = "gops" THEN "pprof" ELSE "done"

(* The last phase ends with the registration of the session.               *)
EndPhase(s) ==
  /\ create' = [create EXCEPT ![s] = NextPhase(s)]
  /\ tried' = [tried EXCEPT ![s] = 0]
  /\ sessions' = IF NextPhase(s) = "done" THEN sessions \union {s} ELSE sessions

ProbeSucceeds(s) ==
  /\ s \in probing
  /\ probing' = probing \ {s}
  /\ forwards' = [forwards EXCEPT ![s] = @ \union {create[s]}]
  /\ EndPhase(s)
  /\ UNCHANGED <<deleting, overlap, collecting>>

(* Mutant: the forward stays open when the endpoint was the last one.      *)
ProbeFails_KeepsLast(s) ==
  /\ s \in probing
  /\ IF tried[s] = Candidates THEN UNCHANGED probing ELSE probing' = probing \ {s}
  /\ IF tried[s] = Candidates THEN EndPhase(s) ELSE UNCHANGED <<create, tried, sessions>>
  /\ UNCHANGED <<forwards, deleting, overlap, collecting>>

ProbeFails(s) ==
  /\ s \in probing
  /\ probing' = probing \ {s}
  /\ UNCHANGED <<create, tried, forwards, sessions, deleting, overlap, collecting>>

(* No candidate port works: the session is made without the endpoint.      *)
GiveUp(s) ==
  /\ s \in InCreation \ probing
  /\ tried[s] = Candidates
  /\ EndPhase(s)
  /\ UNCHANGED <<probing, forwards, deleting, overlap, collecting>>

-----------------------------------------------------------------------------
(* sessionDelete: Remove, Stop, RemoveSession.  A second delete of the     *)
(* session is refused.                                                     *)

BeginDelete(s) ==
  /\ s \in sessions
  /\ sessions' = sessions \ {s}
  /\ deleting' = [deleting EXCEPT ![s] = "stopping"]
  /\ UNCHANGED <<creating, overlap, collecting>>

StopSession(s) ==
  /\ deleting[s] = "stopping"
  /\ forwards' = [forwards EXCEPT ![s] = {}]
  /\ deleting' = [deleting EXCEPT ![s] = "stopped"]
  /\ UNCHANGED <<create, tried, probing, sessions, overlap, collecting>>

Stopped(q) ==
  IF q.state = "running" THEN [q EXCEPT !.state = "stopped", !.completedAt = "stop"] ELSE q

(* Mutant: only the runs that are still running are removed.               *)
RemoveRuns_Running(s) ==
  LET gone == {r \in profiles : of[r] = s /\ run[r].state = "running"}
  IN /\ deleting[s] = "stopped"
     /\ run' = [r \in Runs |-> IF r \in gone THEN Stopped(run[r]) ELSE run[r]]
     /\ profiles' = profiles \ gone
     /\ deleting' = [deleting EXCEPT ![s] = "no"]
     /\ UNCHANGED <<creating, sessions, overlap, call, of, profiling, late>>

RemoveRuns(s) ==
  LET gone == {r \in profiles : of[r] = s}
  IN /\ deleting[s] = "stopped"
     /\ run' = [r \in Runs |-> IF r \in gone THEN Stopped(run[r]) ELSE run[r]]
     /\ profiles' = profiles \ gone
     /\ deleting' = [deleting EXCEPT ![s] = "no"]
     /\ UNCHANGED <<creating, sessions, overlap, call, of, profiling, late>>

-----------------------------------------------------------------------------
(* profileStart and profileCollect look the session up, and add their run  *)
(* in a later step; profileCollect when the profile is there.              *)

LookUp(r, s) ==
  /\ call[r] = "new" /\ s \in sessions
  /\ \E operation \in {"start", "collect"} : call' = [call EXCEPT ![r] = operation]
  /\ of' = [of EXCEPT ![r] = s]
  /\ UNCHANGED <<creating, sessions, deleting, overlap, run, profiling, profiles, late>>

Gone(s) == s \notin sessions /\ deleting[s] = "no"

AddRun(r) ==
  /\ profiles' = profiles \union {r}
  /\ late' = IF Gone(of[r]) THEN late \union {r} ELSE late
  /\ call' = [call EXCEPT ![r] = "done"]

StartRun(r) ==
  /\ call[r] = "start"
  /\ run' = [run EXCEPT ![r] = NewProfileRun]
  /\ profiling' = profiling \union {r}
  /\ AddRun(r)
  /\ UNCHANGED <<creating, sessions, deleting, overlap, of>>

(* Mutant: a profile that comes after the stop is kept.                    *)
MarkDone_Unstops(q, source, err) ==
  LET end == [q EXCEPT !.completedAt = "collect", !.source = source, !.error = @ \/ err]
  IN IF err THEN [end EXCEPT !.state = "failed"]
     ELSE [end EXCEPT !.state = "completed", !.data = TRUE]

(* Mutant: an error is logged, and is not the run's end.                   *)
MarkDone_DropsError(q, source, err) ==
  LET end == [q EXCEPT !.completedAt = "collect", !.source = source]
  IN IF err THEN q
     ELSE IF q.state = "stopped" THEN end
     ELSE [end EXCEPT !.state = "completed", !.data = TRUE]

(* A stopped run stays so and gets no data, but the time of its stop is    *)
(* overwritten, and its source and error are set.                          *)
MarkDone(q, source, err) ==
  LET end == [q EXCEPT !.completedAt = "collect", !.source = source, !.error = @ \/ err]
  IN IF q.state = "stopped" THEN end
     ELSE IF err THEN [end EXCEPT !.state = "failed"]
     ELSE [end EXCEPT !.state = "completed", !.data = TRUE]

(* A profile, or an error: the context is cancelled or its time is over.   *)
(* An error may come with the source that was tried.                       *)
Collected(r) ==
  /\ r \in profiling
  /\ profiling' = profiling \ {r}
  /\ \E source, err \in BOOLEAN :
       /\ source \/ err
       /\ run' = [run EXCEPT ![r] = MarkDone(@, source, err)]
  /\ UNCHANGED <<creating, sessions, deleting, overlap, call, of, profiles, late>>

CollectRun(r) ==
  /\ call[r] = "collect"
  /\ run' = [run EXCEPT ![r] = MarkDone(NewProfileRun, TRUE, FALSE)]
  /\ AddRun(r)
  /\ UNCHANGED <<creating, sessions, deleting, overlap, of, profiling>>

CollectFails(r) ==
  /\ call[r] = "collect"
  /\ call' = [call EXCEPT ![r] = "done"]
  /\ UNCHANGED <<creating, sessions, deleting, overlap, of, run, profiling, profiles, late>>

(* profileStop                                                             *)
StopRun(r) ==
  /\ r \in profiles /\ of[r] \in sessions
  /\ run[r].state = "running"
  /\ run' = [run EXCEPT ![r] = Stopped(@)]
  /\ UNCHANGED <<creating, sessions, deleting, overlap, call, of, profiling, profiles, late>>

Next ==
  \/ \E s \in Sessions :
       \/ BeginCreate(s) \/ CreateFails(s)
       \/ OpenForward(s) \/ ProbeSucceeds(s) \/ ProbeFails(s) \/ GiveUp(s)
       \/ BeginDelete(s) \/ StopSession(s) \/ RemoveRuns(s)
  \/ \E r \in Runs :
       \/ \E s \in Sessions : LookUp(r, s)
       \/ StartRun(r) \/ Collected(r) \/ CollectRun(r) \/ CollectFails(r) \/ StopRun(r)

(* Steps of goroutines that have begun; Ready, the probes and the profile  *)
(* have timeouts.                                                          *)
Fairness ==
  /\ \A s \in Sessions :
       /\ WF_vars(OpenForward(s) \/ ProbeSucceeds(s) \/ ProbeFails(s) \/ GiveUp(s))
       /\ WF_vars(StopSession(s) \/ RemoveRuns(s))
  /\ \A r \in Runs : WF_vars(StartRun(r) \/ Collected(r) \/ CollectRun(r) \/ CollectFails(r))

Spec == Init /\ [][Next]_vars
FairSpec == Spec /\ Fairness

-----------------------------------------------------------------------------
(* No port-forward leaks: an open one is being probed by its create, or    *)
(* belongs to a session that is in creation, listed or being stopped       *)
(* (ops.go:255-262, 598-618, session.go:103-114).                          *)
ForwardHasOwner ==
  /\ probing \subseteq InCreation
  /\ \A s \in Sessions : forwards[s] # {} =>
       s \in InCreation \/ s \in sessions \/ deleting[s] = "stopping"

(* The limit is checked long before the session is added (ops.go:116,      *)
(* 281): it holds as long as no two creates overlap.                       *)
LimitNeedsOverlap == Cardinality(sessions) > MaxSessions => overlap

(* A deleted session takes its runs with it, except those whose start had  *)
(* looked the session up before and came after (ops.go:325-329, 437-451).  *)
RunsGoWithTheirSession == \A r \in profiles : Gone(of[r]) => r \in late

(* State and data of a run that has ended never change, and only a         *)
(* completed run has data; a run that completed or failed does not change  *)
(* at all, and what else changes in a stopped run (its time, source and    *)
(* error) does so once, when its collection returns, whatever order the    *)
(* profile, its stop and a delete come in (profile_runs.go:49-86).         *)
EndIsFinal ==
  [][\A r \in Runs :
       /\ run[r].state \notin {"none", "running"} =>
            run'[r].state = run[r].state /\ run'[r].data = run[r].data
       /\ run'[r].data <=> run'[r].state = "completed"
       /\ run[r].state \in {"completed", "failed"} \/ run[r].completedAt = "collect" =>
            run'[r] = run[r]]_vars

(* Every run that was started ends, the late ones too: its context has a   *)
(* deadline of its own (ops.go:452-460).                                   *)
RunEnds == \A r \in Runs : run[r].state = "running" ~> run[r].state \notin {"none", "running"}
=============================================================================
