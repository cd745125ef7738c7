----------------------- MODULE GolangSessions_proofs -----------------------
(***************************************************************************)
(* Proofs about GolangSessions for every set of requests, every limit on   *)
(* sessions and every number of candidate ports: no port-forward leaks,    *)
(* the limit holds unless creates overlap, a deleted session takes its     *)
(* runs with it, and the end of a run is final.                            *)
(***************************************************************************)
EXTENDS GolangSessions, FiniteSetTheorems, TLAPS

(* A forward is opened in the phase of its endpoint, so the first phase    *)
(* has none yet, and a create that probes has counted the candidate.       *)
ForwardsFollowPhases ==
  \A s \in Sessions :
    /\ create[s] \in {"new", "gops"} => forwards[s] = {}
    /\ s \in probing => tried[s] # 0

(* As long as no creates overlap there is room for the one that goes on.   *)
RoomForOne ==
  /\ IsFiniteSet(sessions)
  /\ ~overlap =>
       /\ Cardinality(sessions) <= MaxSessions
       /\ InCreation # {} => Cardinality(sessions) < MaxSessions
       /\ \A s, t \in InCreation : s = t

(* A run has data when it completed; its times are those of its stop until *)
(* its collection returns.                                                 *)
InOrder(q) ==
  /\ q \in ProfileRun
  /\ q.data <=> q.state = "completed"
  /\ q.completedAt = "none" <=> q.state \in {"none", "running"}
  /\ q.completedAt = "stop" => q.state = "stopped"

(* A request adds its run once, after it looked a session up, and only a   *)
(* run whose collection has not returned is being profiled.                *)
RunsAreAddedOnce ==
  \A r \in Runs :
    /\ call[r] # "done" => run[r].state = "none" /\ r \notin profiles \union profiling
    /\ call[r] # "new" => of[r] \in Sessions
    /\ r \in profiling => /\ run[r].state \in {"running", "stopped"}
                          /\ run[r].completedAt # "collect"
    /\ InOrder(run[r])

IInv ==
  /\ TypeOK
  /\ ForwardHasOwner
  /\ ForwardsFollowPhases
  /\ RoomForOne
  /\ RunsGoWithTheirSession
  /\ RunsAreAddedOnce

-----------------------------------------------------------------------------
LEMMA InitIInv == Init => IInv
<1> SUFFICES ASSUME Init PROVE IInv
  OBVIOUS
<1>1. TypeOK
  <2>1. 0 \in 0 .. Candidates BY GolangAssumption
  <2>2. \A S : {} \in SUBSET S OBVIOUS
  <2>3. run \in [Runs -> ProfileRun] BY DEF Init, NewProfileRun, ProfileRun, States
  <2>4. QED BY <2>1, <2>2, <2>3 DEF Init, TypeOK
<1>2. InCreation = {} BY DEF Init, InCreation, Endpoints
<1>3. RoomForOne BY <1>2, FS_EmptySet, GolangAssumption DEF Init, RoomForOne
<1>4. ForwardHasOwner BY DEF Init, ForwardHasOwner
<1>5. ForwardsFollowPhases BY DEF Init, ForwardsFollowPhases
<1>6. RunsGoWithTheirSession BY DEF Init, RunsGoWithTheirSession
<1>7. RunsAreAddedOnce
  <2>1. InOrder([NewProfileRun EXCEPT !.state = "none"])
    BY DEF InOrder, NewProfileRun, ProfileRun, States
  <2>2. \A r \in Runs : run[r].state = "none" /\ InOrder(run[r])
    BY <2>1 DEF Init, NewProfileRun
  <2>3. QED BY <2>2 DEF Init, RunsAreAddedOnce
<1>8. QED BY <1>1, <1>3, <1>4, <1>5, <1>6, <1>7 DEF IInv

(* A stop ends a run that is running.                                      *)
LEMMA StoppedInOrder ==
  ASSUME NEW q, InOrder(q), q.state = "running"
  PROVE  /\ InOrder(Stopped(q))
         /\ Stopped(q).state = "stopped" /\ Stopped(q).completedAt = "stop"
         /\ Stopped(q).data = q.data
<1>1. q \in ProfileRun BY DEF InOrder
<1>2. Stopped(q) = [q EXCEPT !.state = "stopped", !.completedAt = "stop"] BY DEF Stopped
<1>3. /\ Stopped(q) \in ProfileRun
      /\ Stopped(q).state = "stopped" /\ Stopped(q).completedAt = "stop"
      /\ Stopped(q).data = q.data
  BY <1>1, <1>2 DEF ProfileRun, States
<1>4. QED BY <1>3 DEF InOrder

(* A session that is added while no creates overlap is within the limit.   *)
LEMMA EndPhaseKeepsRoom ==
  ASSUME IInv, NEW s \in InCreation, EndPhase(s), UNCHANGED overlap
  PROVE  RoomForOne'
<1> USE DEF IInv, TypeOK
<1>1. s \in Sessions /\ create'[s] = NextPhase(s) /\ \A t \in Sessions \ {s} : create'[t] = create[t]
  BY DEF InCreation, EndPhase
<1>2. CASE NextPhase(s) # "done"
  <2>1. UNCHANGED sessions BY <1>2 DEF EndPhase
  <2>2. InCreation' = InCreation
    BY <1>1, <1>2 DEF InCreation, NextPhase, Endpoints
  <2>3. QED BY <2>1, <2>2 DEF RoomForOne
<1>3. CASE NextPhase(s) = "done"
  <2>1. sessions' = sessions \union {s} BY <1>3 DEF EndPhase
  <2>2. /\ IsFiniteSet(sessions')
        /\ Cardinality(sessions') \in Nat /\ Cardinality(sessions) \in Nat
        /\ Cardinality(sessions') <= Cardinality(sessions) + 1
    <3>1. IsFiniteSet(sessions) BY DEF RoomForOne
    <3>2. Cardinality(sessions) \in Nat BY <3>1, FS_CardinalityType
    <3>3. /\ IsFiniteSet(sessions')
          /\ Cardinality(sessions') \in {Cardinality(sessions), Cardinality(sessions) + 1}
      BY <2>1, <3>1, FS_AddElement
    <3>4. QED BY <3>2, <3>3
  <2>3. InCreation' = InCreation \ {s}
    BY <1>1, <1>3 DEF InCreation, Endpoints
  <2>4. ASSUME ~overlap
        PROVE  InCreation' = {} /\ Cardinality(sessions') <= MaxSessions
    BY <2>2, <2>3, <2>4, GolangAssumption DEF RoomForOne
  <2>5. QED BY <2>2, <2>4 DEF RoomForOne
<1>4. QED BY <1>2, <1>3

(* The steps of sessionCreate.                                             *)
LEMMA CreateIInv ==
  ASSUME IInv, NEW s \in Sessions,
         \/ BeginCreate(s) \/ CreateFails(s)
         \/ OpenForward(s) \/ ProbeSucceeds(s) \/ ProbeFails(s) \/ GiveUp(s)
  PROVE  IInv'
<1> USE DEF IInv
<1>1. RunsAreAddedOnce' /\ RunsGoWithTheirSession'
  <2>1. /\ UNCHANGED <<call, of, run, profiling, profiles, late, deleting>>
        /\ sessions \subseteq sessions'
    BY DEF BeginCreate, CreateFails, OpenForward, ProbeSucceeds, ProbeFails, GiveUp,
           EndPhase, collecting
  <2>2. QED BY <2>1 DEF RunsAreAddedOnce, RunsGoWithTheirSession, Gone
<1>2. CASE BeginCreate(s)
  <2>1. /\ create[s] = "new"
        /\ create' = [create EXCEPT ![s] = IF MayCreate THEN "gops" ELSE "done"]
        /\ overlap' = (overlap \/ (MayCreate /\ InCreation # {}))
        /\ UNCHANGED <<tried, probing, forwards, sessions, deleting, collecting>>
    BY <1>2 DEF BeginCreate
  <2>2. TypeOK' BY <2>1 DEF TypeOK, Endpoints, collecting
  <2>3. InCreation' = IF MayCreate THEN InCreation \union {s} ELSE InCreation
    BY <2>1 DEF InCreation, TypeOK, Endpoints
  <2>4. ForwardHasOwner' BY <2>1, <2>3 DEF ForwardHasOwner, ForwardsFollowPhases
  <2>5. ForwardsFollowPhases' BY <2>1 DEF ForwardsFollowPhases, TypeOK
  <2>6. RoomForOne' BY <2>1, <2>3 DEF RoomForOne, MayCreate, TypeOK
  <2>7. QED BY <1>1, <2>2, <2>4, <2>5, <2>6
<1>3. CASE CreateFails(s)
  <2>1. /\ create[s] = "gops" /\ tried[s] = 0
        /\ create' = [create EXCEPT ![s] = "done"]
        /\ UNCHANGED <<tried, probing, forwards, sessions, deleting, overlap, collecting>>
    BY <1>3 DEF CreateFails
  <2>2. TypeOK' BY <2>1 DEF TypeOK, collecting
  <2>3. InCreation' = InCreation \ {s}
    BY <2>1 DEF InCreation, TypeOK, Endpoints
  <2>4. ForwardHasOwner' BY <2>1, <2>3 DEF ForwardHasOwner, ForwardsFollowPhases
  <2>5. ForwardsFollowPhases' BY <2>1 DEF ForwardsFollowPhases, TypeOK
  <2>6. RoomForOne' BY <2>1, <2>3 DEF RoomForOne
  <2>7. QED BY <1>1, <2>2, <2>4, <2>5, <2>6
<1>4. CASE OpenForward(s)
  <2>1. /\ s \in InCreation \ probing
        /\ tried[s] < Candidates
        /\ tried' = [tried EXCEPT ![s] = tried[s] + 1]
        /\ probing' \in {probing, probing \union {s}}
        /\ UNCHANGED <<create, forwards, sessions, deleting, overlap, collecting>>
    BY <1>4 DEF OpenForward
  <2>2. TypeOK' BY <2>1, GolangAssumption DEF TypeOK, collecting
  <2>3. UNCHANGED InCreation BY <2>1 DEF InCreation
  <2>4. ForwardHasOwner' BY <2>1, <2>3 DEF ForwardHasOwner
  <2>5. ForwardsFollowPhases' BY <2>1, GolangAssumption DEF ForwardsFollowPhases, TypeOK
  <2>6. RoomForOne' BY <2>1, <2>3 DEF RoomForOne
  <2>7. QED BY <1>1, <2>2, <2>4, <2>5, <2>6
<1>5. CASE ProbeSucceeds(s)
  <2>1. /\ s \in probing
        /\ probing' = probing \ {s}
        /\ forwards' = [forwards EXCEPT ![s] = forwards[s] \union {create[s]}]
        /\ create' = [create EXCEPT ![s] = NextPhase(s)]
        /\ tried' = [tried EXCEPT ![s] = 0]
        /\ sessions' = IF NextPhase(s) = "done" THEN sessions \union {s} ELSE sessions
        /\ UNCHANGED <<deleting, overlap, collecting>>
    BY <1>5 DEF ProbeSucceeds, EndPhase
  <2>2. s \in InCreation /\ create[s] \in Endpoints
    BY <2>1 DEF ForwardHasOwner, InCreation
  <2>3. TypeOK' BY <2>1, <2>2, GolangAssumption DEF TypeOK, NextPhase, Endpoints, collecting
  <2>4. /\ \A t \in Sessions \ {s} : t \in InCreation' <=> t \in InCreation
        /\ s \in InCreation' \/ s \in sessions'
    BY <2>1, <2>2 DEF InCreation, TypeOK, NextPhase, Endpoints
  <2>5. ForwardHasOwner' BY <2>1, <2>4 DEF ForwardHasOwner, TypeOK
  <2>6. ForwardsFollowPhases'
    BY <2>1, <2>2 DEF ForwardsFollowPhases, TypeOK, NextPhase, Endpoints
  <2>7. RoomForOne' BY <1>5, <2>2, EndPhaseKeepsRoom DEF ProbeSucceeds
  <2>8. QED BY <1>1, <2>3, <2>5, <2>6, <2>7
<1>6. CASE ProbeFails(s)
  <2>1. /\ probing' = probing \ {s}
        /\ UNCHANGED <<create, tried, forwards, sessions, deleting, overlap, collecting>>
    BY <1>6 DEF ProbeFails
  <2>2. TypeOK' BY <2>1 DEF TypeOK, collecting
  <2>3. UNCHANGED InCreation BY <2>1 DEF InCreation
  <2>4. ForwardHasOwner' BY <2>1, <2>3 DEF ForwardHasOwner
  <2>5. ForwardsFollowPhases' BY <2>1 DEF ForwardsFollowPhases
  <2>6. RoomForOne' BY <2>1, <2>3 DEF RoomForOne
  <2>7. QED BY <1>1, <2>2, <2>4, <2>5, <2>6
<1>7. CASE GiveUp(s)
  <2>1. /\ s \in InCreation \ probing
        /\ create' = [create EXCEPT ![s] = NextPhase(s)]
        /\ tried' = [tried EXCEPT ![s] = 0]
        /\ sessions' = IF NextPhase(s) = "done" THEN sessions \union {s} ELSE sessions
        /\ UNCHANGED <<probing, forwards, deleting, overlap, collecting>>
    BY <1>7 DEF GiveUp, EndPhase
  <2>2. create[s] \in Endpoints BY <2>1 DEF InCreation
  <2>3. TypeOK' BY <2>1, <2>2, GolangAssumption DEF TypeOK, NextPhase, Endpoints, collecting
  <2>4. /\ \A t \in Sessions \ {s} : t \in InCreation' <=> t \in InCreation
        /\ s \in InCreation' \/ s \in sessions'
    BY <2>1, <2>2 DEF InCreation, TypeOK, NextPhase, Endpoints
  <2>5. ForwardHasOwner' BY <2>1, <2>4 DEF ForwardHasOwner, TypeOK
  <2>6. ForwardsFollowPhases'
    BY <2>1, <2>2 DEF ForwardsFollowPhases, TypeOK, NextPhase, Endpoints
  <2>7. RoomForOne' BY <1>7, <2>1, EndPhaseKeepsRoom DEF GiveUp
  <2>8. QED BY <1>1, <2>3, <2>5, <2>6, <2>7
<1>8. QED BY <1>2, <1>3, <1>4, <1>5, <1>6, <1>7

(* The steps of sessionDelete.                                             *)
LEMMA DeleteIInv ==
  ASSUME IInv, NEW s \in Sessions, BeginDelete(s) \/ StopSession(s) \/ RemoveRuns(s)
  PROVE  IInv'
<1> USE DEF IInv
<1>1. UNCHANGED <<create, tried, probing, overlap, call, of, profiling, late>>
  BY DEF BeginDelete, StopSession, RemoveRuns, creating, collecting
<1>2. UNCHANGED InCreation BY <1>1 DEF InCreation
<1>3. CASE BeginDelete(s)
  <2>1. /\ sessions' = sessions \ {s}
        /\ deleting' = [deleting EXCEPT ![s] = "stopping"]
        /\ UNCHANGED <<forwards, run, profiles>>
    BY <1>3 DEF BeginDelete, creating, collecting
  <2>2. TypeOK' BY <1>1, <2>1 DEF TypeOK
  <2>3. ForwardHasOwner' BY <1>1, <1>2, <2>1 DEF ForwardHasOwner, TypeOK
  <2>4. ForwardsFollowPhases' BY <1>1, <2>1 DEF ForwardsFollowPhases
  <2>5. RoomForOne'
    <3>1. IsFiniteSet(sessions) BY DEF RoomForOne
    <3>2. Cardinality(sessions) \in Nat BY <3>1, FS_CardinalityType
    <3>3. /\ IsFiniteSet(sessions')
          /\ Cardinality(sessions') \in {Cardinality(sessions), Cardinality(sessions) - 1}
      BY <2>1, <3>1, FS_RemoveElement
    <3>4. QED BY <1>1, <1>2, <3>2, <3>3, GolangAssumption DEF RoomForOne
  <2>6. RunsGoWithTheirSession'
    BY <1>1, <2>1 DEF RunsGoWithTheirSession, RunsAreAddedOnce, Gone, TypeOK
  <2>7. RunsAreAddedOnce' BY <1>1, <2>1 DEF RunsAreAddedOnce
  <2>8. QED BY <2>2, <2>3, <2>4, <2>5, <2>6, <2>7
<1>4. CASE StopSession(s)
  <2>1. /\ deleting[s] = "stopping"
        /\ forwards' = [forwards EXCEPT ![s] = {}]
        /\ deleting' = [deleting EXCEPT ![s] = "stopped"]
        /\ UNCHANGED <<sessions, run, profiles>>
    BY <1>4 DEF StopSession, collecting
  <2>2. TypeOK' BY <1>1, <2>1 DEF TypeOK
  <2>3. ForwardHasOwner' BY <1>1, <1>2, <2>1 DEF ForwardHasOwner, TypeOK
  <2>4. ForwardsFollowPhases' BY <1>1, <2>1 DEF ForwardsFollowPhases, TypeOK
  <2>5. RoomForOne' BY <1>1, <1>2, <2>1 DEF RoomForOne
  <2>6. RunsGoWithTheirSession'
    BY <1>1, <2>1 DEF RunsGoWithTheirSession, RunsAreAddedOnce, Gone, TypeOK
  <2>7. RunsAreAddedOnce' BY <1>1, <2>1 DEF RunsAreAddedOnce
  <2>8. QED BY <2>2, <2>3, <2>4, <2>5, <2>6, <2>7
<1>5. CASE RemoveRuns(s)
  <2> DEFINE gone == {r \in profiles : of[r] = s}
  <2>1. /\ deleting[s] = "stopped"
        /\ run' = [r \in Runs |-> IF r \in gone THEN Stopped(run[r]) ELSE run[r]]
        /\ profiles' = profiles \ gone
        /\ deleting' = [deleting EXCEPT ![s] = "no"]
        /\ UNCHANGED <<forwards, sessions>>
    BY <1>5 DEF RemoveRuns, creating
  <2>2. ASSUME NEW r \in Runs
        PROVE  /\ InOrder(run'[r])
               /\ \/ run'[r] = run[r]
                  \/ /\ r \in gone
                     /\ run'[r].state = "stopped" /\ run'[r].completedAt = "stop"
    <3>1. InOrder(run[r]) BY DEF RunsAreAddedOnce
    <3>2. run'[r] = IF r \in gone THEN Stopped(run[r]) ELSE run[r] BY <2>1
    <3>3. CASE run'[r] = run[r] BY <3>1, <3>3
    <3>4. CASE run'[r] # run[r]
      <4>1. r \in gone /\ run[r].state = "running" /\ run'[r] = Stopped(run[r])
        BY <3>2, <3>4 DEF Stopped
      <4>2. QED BY <3>1, <4>1, StoppedInOrder
    <3>5. QED BY <3>3, <3>4
  <2>3. TypeOK'
    <3>1. run' \in [Runs -> ProfileRun] BY <2>1, <2>2 DEF InOrder
    <3>2. QED BY <1>1, <2>1, <3>1 DEF TypeOK
  <2>4. ForwardHasOwner' BY <1>1, <1>2, <2>1 DEF ForwardHasOwner, TypeOK
  <2>5. ForwardsFollowPhases' BY <1>1, <2>1 DEF ForwardsFollowPhases
  <2>6. RoomForOne' BY <1>1, <1>2, <2>1 DEF RoomForOne
  <2>7. RunsGoWithTheirSession'
    BY <1>1, <2>1 DEF RunsGoWithTheirSession, RunsAreAddedOnce, Gone, TypeOK
  <2>8. RunsAreAddedOnce'
    <3>1. \A r \in Runs : r \in gone => call[r] = "done"
      BY DEF RunsAreAddedOnce, TypeOK
    <3>2. QED BY <1>1, <2>1, <2>2, <3>1 DEF RunsAreAddedOnce
  <2>9. QED BY <2>3, <2>4, <2>5, <2>6, <2>7, <2>8
<1>6. QED BY <1>3, <1>4, <1>5

(* What remains the same in a run that has ended.                          *)
Kept(q, p) ==
  /\ q.state \notin {"none", "running"} => p.state = q.state /\ p.data = q.data
  /\ q.state \in {"completed", "failed"} \/ q.completedAt = "collect" => p = q

(* A collection that returns to a run that is not over ends it.            *)
LEMMA MarkDoneInOrder ==
  ASSUME NEW q, InOrder(q), q.state \in {"running", "stopped"}, q.completedAt # "collect",
         NEW source \in BOOLEAN, NEW err \in BOOLEAN
  PROVE  /\ InOrder(MarkDone(q, source, err))
         /\ Kept(q, MarkDone(q, source, err))
<1> DEFINE end == [q EXCEPT !.completedAt = "collect", !.source = source, !.error = @ \/ err]
<1>1. q \in ProfileRun BY DEF InOrder
<1>2. /\ end \in ProfileRun
      /\ end.state = q.state /\ end.data = q.data /\ end.completedAt = "collect"
  BY <1>1 DEF ProfileRun
<1>3. CASE q.state = "stopped"
  <2>1. MarkDone(q, source, err) = end BY <1>3 DEF MarkDone
  <2>2. QED BY <1>2, <1>3, <2>1 DEF InOrder, Kept
<1>4. CASE q.state # "stopped" /\ err
  <2>1. MarkDone(q, source, err) = [end EXCEPT !.state = "failed"] BY <1>4 DEF MarkDone
  <2>2. /\ [end EXCEPT !.state = "failed"] \in ProfileRun
        /\ [end EXCEPT !.state = "failed"].state = "failed"
        /\ [end EXCEPT !.state = "failed"].data = q.data
        /\ [end EXCEPT !.state = "failed"].completedAt = "collect"
    BY <1>2 DEF ProfileRun, States
  <2>3. QED BY <1>4, <2>1, <2>2 DEF InOrder, Kept
<1>5. CASE q.state # "stopped" /\ ~err
  <2>1. MarkDone(q, source, err) = [end EXCEPT !.state = "completed", !.data = TRUE]
    BY <1>5 DEF MarkDone
  <2> DEFINE done == [end EXCEPT !.state = "completed", !.data = TRUE]
  <2>2. /\ done \in ProfileRun
        /\ done.state = "completed" /\ done.data = TRUE /\ done.completedAt = "collect"
    BY <1>2 DEF ProfileRun, States
  <2>3. QED BY <1>5, <2>1, <2>2 DEF InOrder, Kept
<1>6. QED BY <1>3, <1>4, <1>5

RunSteps(r) ==
  \/ \E s \in Sessions : LookUp(r, s)
  \/ StartRun(r) \/ Collected(r) \/ CollectRun(r) \/ CollectFails(r) \/ StopRun(r)

(* What a step of a run's request or of its goroutine does to the runs.    *)
LEMMA RunStepEffect ==
  ASSUME IInv, NEW r \in Runs, RunSteps(r)
  PROVE  /\ \A q \in Runs \ {r} : run'[q] = run[q]
         /\ run' \in [Runs -> ProfileRun]
         /\ InOrder(run'[r])
         /\ Kept(run[r], run'[r])
<1> USE DEF IInv
<1>1. InOrder(run[r]) BY DEF RunsAreAddedOnce
<1>2. CASE UNCHANGED run
  BY <1>1, <1>2 DEF TypeOK, Kept
<1>3. ASSUME NEW q, run' = [run EXCEPT ![r] = q], InOrder(q), Kept(run[r], q)
      PROVE  /\ \A p \in Runs \ {r} : run'[p] = run[p]
             /\ run' \in [Runs -> ProfileRun]
             /\ InOrder(run'[r])
             /\ Kept(run[r], run'[r])
  <2>1. run'[r] = q BY <1>3 DEF TypeOK
  <2>2. q \in ProfileRun BY <1>3 DEF InOrder
  <2>3. QED BY <1>3, <2>1, <2>2 DEF TypeOK
<1>4. InOrder(NewProfileRun) /\ NewProfileRun.state = "running" /\ NewProfileRun.completedAt = "none"
  BY DEF InOrder, NewProfileRun, ProfileRun, States
<1>5. \A q : run[r].state = "none" => Kept(run[r], q)
  BY <1>1 DEF InOrder, Kept
<1>6. CASE StartRun(r)
  <2>1. run[r].state = "none" BY <1>6 DEF StartRun, RunsAreAddedOnce
  <2>2. run' = [run EXCEPT ![r] = NewProfileRun] BY <1>6 DEF StartRun
  <2>3. QED BY <1>3, <1>4, <1>5, <2>1, <2>2
<1>7. CASE Collected(r)
  <2>1. run[r].state \in {"running", "stopped"} /\ run[r].completedAt # "collect"
    BY <1>7 DEF Collected, RunsAreAddedOnce
  <2>2. PICK source \in BOOLEAN, err \in BOOLEAN :
          run' = [run EXCEPT ![r] = MarkDone(run[r], source, err)]
    BY <1>7 DEF Collected
  <2>3. InOrder(MarkDone(run[r], source, err)) /\ Kept(run[r], MarkDone(run[r], source, err))
    BY <1>1, <2>1, MarkDoneInOrder
  <2>4. QED BY <1>3, <2>2, <2>3
<1>8. CASE CollectRun(r)
  <2>1. run[r].state = "none" BY <1>8 DEF CollectRun, RunsAreAddedOnce
  <2>2. run' = [run EXCEPT ![r] = MarkDone(NewProfileRun, TRUE, FALSE)]
    BY <1>8 DEF CollectRun
  <2>3. InOrder(MarkDone(NewProfileRun, TRUE, FALSE)) BY <1>4, MarkDoneInOrder
  <2>4. QED BY <1>3, <1>5, <2>1, <2>2, <2>3
<1>9. CASE StopRun(r)
  <2>1. run[r].state = "running" /\ run' = [run EXCEPT ![r] = Stopped(run[r])]
    BY <1>9 DEF StopRun
  <2>2. InOrder(Stopped(run[r])) /\ Kept(run[r], Stopped(run[r]))
    BY <1>1, <2>1, StoppedInOrder DEF InOrder, Kept
  <2>3. QED BY <1>3, <2>1, <2>2
<1>10. QED
  BY <1>2, <1>6, <1>7, <1>8, <1>9 DEF RunSteps, LookUp, CollectFails

(* The steps of profileStart, profileCollect and profileStop.              *)
LEMMA RunIInv ==
  ASSUME IInv, NEW r \in Runs, RunSteps(r)
  PROVE  IInv'
<1> USE DEF IInv
<1>1. /\ UNCHANGED <<create, tried, probing, forwards, sessions, deleting, overlap>>
      /\ UNCHANGED InCreation
  BY DEF RunSteps, LookUp, StartRun, AddRun, Collected, CollectRun, CollectFails, StopRun,
         creating, InCreation
<1>2. /\ \A q \in Runs \ {r} : run'[q] = run[q]
      /\ run' \in [Runs -> ProfileRun]
      /\ InOrder(run'[r])
  BY RunStepEffect
<1>3. TypeOK'
  <2>1. /\ call' \in [Runs -> {"new", "start", "collect", "done"}]
        /\ of' \in [Runs -> Sessions \union {NoSession}]
        /\ profiling' \in SUBSET Runs /\ profiles' \in SUBSET Runs /\ late' \in SUBSET Runs
    <3>1. CASE \E s \in Sessions : LookUp(r, s) BY <3>1 DEF LookUp, TypeOK
    <3>2. CASE StartRun(r) \/ CollectRun(r) BY <3>2 DEF StartRun, CollectRun, AddRun, TypeOK
    <3>3. CASE Collected(r) \/ CollectFails(r) \/ StopRun(r)
      BY <3>3 DEF Collected, CollectFails, StopRun, TypeOK
    <3>4. QED BY <3>1, <3>2, <3>3 DEF RunSteps
  <2>2. QED BY <1>1, <1>2, <2>1 DEF TypeOK
<1>4. ForwardHasOwner' /\ ForwardsFollowPhases' /\ RoomForOne'
  BY <1>1 DEF ForwardHasOwner, ForwardsFollowPhases, RoomForOne
<1>5. RunsGoWithTheirSession'
  <2>1. \A t : Gone(t)' <=> Gone(t) BY <1>1 DEF Gone
  <2>2. CASE \E s \in Sessions : LookUp(r, s)
    BY <2>1, <2>2 DEF LookUp, RunsGoWithTheirSession, RunsAreAddedOnce, TypeOK
  <2>3. CASE StartRun(r) \/ CollectRun(r)
    BY <2>1, <2>3 DEF StartRun, CollectRun, AddRun, RunsGoWithTheirSession
  <2>4. CASE Collected(r) \/ CollectFails(r) \/ StopRun(r)
    BY <2>1, <2>4 DEF Collected, CollectFails, StopRun, RunsGoWithTheirSession
  <2>5. QED BY <2>2, <2>3, <2>4 DEF RunSteps
<1>6. RunsAreAddedOnce'
  <2>1. CASE \E s \in Sessions : LookUp(r, s)
    BY <1>2, <2>1 DEF LookUp, RunsAreAddedOnce, TypeOK
  <2>2. CASE StartRun(r)
    <3>1. run'[r].state = "running" /\ run'[r].completedAt = "none"
      BY <2>2 DEF StartRun, NewProfileRun, TypeOK
    <3>2. QED BY <1>2, <2>2, <3>1 DEF StartRun, AddRun, RunsAreAddedOnce, TypeOK
  <2>3. CASE Collected(r)
    BY <1>2, <2>3 DEF Collected, RunsAreAddedOnce, TypeOK
  <2>4. CASE CollectRun(r)
    BY <1>2, <2>4 DEF CollectRun, AddRun, RunsAreAddedOnce, TypeOK
  <2>5. CASE CollectFails(r)
    BY <1>2, <2>5 DEF CollectFails, RunsAreAddedOnce, TypeOK
  <2>6. CASE StopRun(r)
    <3>1. /\ run[r].state = "running" /\ run'[r] = Stopped(run[r])
          /\ call[r] = "done"
      BY <2>6 DEF StopRun, RunsAreAddedOnce, TypeOK
    <3>2. run'[r].state = "stopped" /\ run'[r].completedAt = "stop"
      BY <3>1, StoppedInOrder DEF RunsAreAddedOnce
    <3>3. QED BY <1>2, <2>6, <3>1, <3>2 DEF StopRun, RunsAreAddedOnce, TypeOK
  <2>7. QED BY <2>1, <2>2, <2>3, <2>4, <2>5, <2>6 DEF RunSteps
<1>7. QED BY <1>3, <1>4, <1>5, <1>6

LEMMA NextIInv == IInv /\ [Next]_vars => IInv'
<1> SUFFICES ASSUME IInv, [Next]_vars PROVE IInv'
  OBVIOUS
<1>1. CASE Next
  <2>1. ASSUME NEW s \in Sessions,
               \/ BeginCreate(s) \/ CreateFails(s)
               \/ OpenForward(s) \/ ProbeSucceeds(s) \/ ProbeFails(s) \/ GiveUp(s)
        PROVE  IInv'
    BY <2>1, CreateIInv
  <2>2. ASSUME NEW s \in Sessions, BeginDelete(s) \/ StopSession(s) \/ RemoveRuns(s)
        PROVE  IInv'
    BY <2>2, DeleteIInv
  <2>3. ASSUME NEW r \in Runs, RunSteps(r)
        PROVE  IInv'
    BY <2>3, RunIInv
  <2>4. QED BY <1>1, <2>1, <2>2, <2>3 DEF Next, RunSteps
<1>2. CASE UNCHANGED vars
  BY <1>2 DEF vars, IInv, TypeOK, ForwardHasOwner, ForwardsFollowPhases, RoomForOne, InCreation,
              RunsGoWithTheirSession, Gone, RunsAreAddedOnce
<1>3. QED BY <1>1, <1>2

-----------------------------------------------------------------------------
(* The variables of the sessions and runs keep their types.                *)
THEOREM TypeCorrect == Spec => []TypeOK
<1>1. IInv => TypeOK BY DEF IInv
<1>2. QED BY InitIInv, NextIInv, <1>1, PTL DEF Spec

(* No port-forward leaks, however creates and deletes interleave and       *)
(* whichever probes fail (ops.go:255-262, 598-618, session.go:103-114).    *)
THEOREM NoForwardLeaks == Spec => []ForwardHasOwner
<1>1. IInv => ForwardHasOwner BY DEF IInv
<1>2. QED BY InitIInv, NextIInv, <1>1, PTL DEF Spec

(* More sessions than the limit need creates that overlapped: the check    *)
(* is enough for requests that come one after the other (ops.go:116, 281). *)
THEOREM LimitHolds == Spec => []LimitNeedsOverlap
<1>1. IInv => LimitNeedsOverlap
  <2> SUFFICES ASSUME IInv, ~overlap, Cardinality(sessions) > MaxSessions PROVE FALSE
    BY DEF LimitNeedsOverlap, IInv, TypeOK
  <2>1. Cardinality(sessions) \in Nat BY FS_CardinalityType DEF IInv, RoomForOne
  <2>2. QED BY <2>1, GolangAssumption DEF IInv, RoomForOne
<1>2. QED BY InitIInv, NextIInv, <1>1, PTL DEF Spec

(* A deleted session takes its runs with it, except for those that were    *)
(* added after the delete had finished (ops.go:325-329, 437-451).          *)
THEOREM DeleteTakesRuns == Spec => []RunsGoWithTheirSession
<1>1. IInv => RunsGoWithTheirSession BY DEF IInv
<1>2. QED BY InitIInv, NextIInv, <1>1, PTL DEF Spec

(* State and data of a run that has ended never change, a run that         *)
(* completed or failed does not change at all, and a stopped one once at   *)
(* most, when its collection returns: whatever order the profile, its stop *)
(* and the delete of the session come in (profile_runs.go:49-86).          *)
THEOREM RunEndIsFinal == Spec => EndIsFinal
<1> DEFINE Final(r) ==
      /\ run[r].state \notin {"none", "running"} =>
           run'[r].state = run[r].state /\ run'[r].data = run[r].data
      /\ run'[r].data <=> run'[r].state = "completed"
      /\ run[r].state \in {"completed", "failed"} \/ run[r].completedAt = "collect" =>
           run'[r] = run[r]
<1>1. ASSUME IInv, Next PROVE \A r \in Runs : Final(r)
  <2>1. \A r \in Runs : InOrder(run[r])
    BY <1>1 DEF IInv, RunsAreAddedOnce
  <2>2. ASSUME NEW r \in Runs, InOrder(run'[r]), Kept(run[r], run'[r]) PROVE Final(r)
    BY <2>2 DEF InOrder, Kept
  <2>3. ASSUME NEW r \in Runs, run'[r] = run[r] PROVE Final(r)
    BY <2>1, <2>3 DEF InOrder
  <2>4. CASE UNCHANGED run BY <2>4, <2>3
  <2>5. CASE \E s \in Sessions : RemoveRuns(s)
    <3>1. \A r \in Runs : run'[r] \in {run[r], Stopped(run[r])} BY <2>5 DEF RemoveRuns
    <3>2. ASSUME NEW r \in Runs, run[r].state = "running", run'[r] = Stopped(run[r])
          PROVE  Final(r)
      <4>1. InOrder(run'[r]) BY <2>1, <3>2, StoppedInOrder
      <4>2. Kept(run[r], run'[r]) BY <2>1, <3>2 DEF InOrder, Kept
      <4>3. QED BY <2>2, <4>1, <4>2
    <3>3. \A r \in Runs : run[r].state # "running" => Stopped(run[r]) = run[r] BY DEF Stopped
    <3>4. QED BY <2>3, <3>1, <3>2, <3>3
  <2>6. ASSUME NEW r \in Runs, RunSteps(r) PROVE \A q \in Runs : Final(q)
    BY <1>1, <2>6, <2>2, <2>3, RunStepEffect
  <2>7. QED
    BY <1>1, <2>4, <2>5, <2>6
       DEF Next, RunSteps, BeginCreate, CreateFails, OpenForward, ProbeSucceeds, ProbeFails,
           GiveUp, BeginDelete, StopSession, collecting
<1>2. IInv /\ [Next]_vars => [\A r \in Runs : Final(r)]_vars
  BY <1>1
<1>3. QED BY InitIInv, NextIInv, <1>2, PTL DEF Spec, EndIsFinal
=============================================================================
