----------------------------- MODULE ArthasPage -----------------------------
(***************************************************************************)
(* The page of the arthas plugin (arthas/ui-src/src/pages/ArthasPage.tsx): *)
(* it lists the sessions, asks for one on a target, follows the creation   *)
(* job until it is settled, and stops sessions.  Unlike the golang page it *)
(* never writes an answer into the cached list, it only fetches it again.  *)
(* Module ArthasSessions has the server in full; here a job and the        *)
(* session it creates share their number.                                  *)
(***************************************************************************)
EXTENDS Naturals, Queries

CONSTANTS Targets,    \* containers of the pods
          MaxJobs,    \* bound on the creation jobs; they are numbered
          MaxErrors   \* bound on the failing requests and restarts

ArthasPageAssumption ==
  /\ MaxJobs \in Nat /\ MaxErrors \in Nat
  /\ Nothing \notin Targets /\ \A ids \in SUBSET (1 .. MaxJobs) : ids # Nothing

VARIABLES
  onArthas,       \* the page is shown
  job,            \* job[j]: its target and its state
  open,           \* the plugin's sessions
  sessions,       \* sessionsQ
  create,         \* the pending session-create: its target, and the job it was answered or 0
  createStatus,   \* createStatusQ
  createJobId,    \* the job that is followed, or 0
  selectedId,     \* the session that was selected, or 0
  deletes,        \* deletes[s]: a session-delete for s is pending, and was carried out
  deleted,        \* (history) sessions whose delete was answered
  mine,           \* (history) the job of the latest answer, or 0
  blind,          \* (history) selectedId was set before any list was seen
  stale,          \* (history) no list was fetched yet, or the latest fetch failed
  errors          \* number of failed requests and restarts

vars == <<onArthas, job, open, sessions, create, createStatus, createJobId, selectedId, deletes,
          deleted, mine, blind, stale, errors>>

Ids == 1 .. MaxJobs
States == {"none", "pending", "running", "failed", "lost"}

TypeOK ==
  /\ onArthas \in BOOLEAN
  /\ job \in [Ids -> [target : Targets \union {Nothing}, state : States]]
  /\ open \in SUBSET Ids
  /\ sessions \in [data : (SUBSET Ids) \union {Nothing}, flight : (SUBSET Ids) \union {Nothing}]
  /\ create \in [target : Targets, job : Ids \union {0}, seen : States] \union {Nothing}
  /\ createStatus \in [data : {Nothing, "pending"}, flight : States \union {Nothing}]
  /\ {createJobId, selectedId, mine} \subseteq Ids \union {0}
  /\ deletes \in [Ids -> {"none", "asked", "done"}]
  /\ deleted \in SUBSET Ids
  /\ blind \in BOOLEAN /\ stale \in BOOLEAN
  /\ errors \in 0 .. MaxErrors

Unused == [target |-> Nothing, state |-> "none"]

(* Job 1 may be another operator's.                                        *)
Init ==
  /\ onArthas \in BOOLEAN
  /\ job \in {[j \in Ids |-> IF j = 1 THEN first ELSE Unused] :
                first \in {Unused} \union [target : Targets, state : {"pending", "running"}]}
  /\ open = {j \in Ids : job[j].state = "running"}
  /\ sessions = Fetch(NewQuery, open)
  /\ create = Nothing
  /\ createStatus = NewQuery
  /\ createJobId = 0 /\ selectedId = 0
  /\ deletes = [s \in Ids |-> "none"] /\ deleted = {}
  /\ mine = 0
  /\ blind = FALSE /\ stale = TRUE
  /\ errors = 0

server == <<job, open>>
list == <<sessions, stale>>
starting == <<create, createStatus, createJobId, mine>>
chosen == <<selectedId, blind>>
deleting == <<deletes, deleted>>

Listed == IF sessions.data = Nothing THEN {} ELSE sessions.data
Pending(t) == {j \in Ids : job[j] = [target |-> t, state |-> "pending"]}
SessionOf(t) == {s \in open : job[s].target = t}

-----------------------------------------------------------------------------
(* The plugin. *)

CreateHandled ==
  /\ create # Nothing /\ create.job = 0
  /\ \E j \in Ids :
       /\ CASE SessionOf(create.target) # {} -> j \in SessionOf(create.target)
            [] SessionOf(create.target) = {} /\ Pending(create.target) # {} ->
                 j \in Pending(create.target)
            [] OTHER -> job[j] = Unused /\ \A i \in 1 .. j - 1 : job[i] # Unused
       /\ job' = IF job[j] = Unused
                   THEN [job EXCEPT ![j] = [target |-> create.target, state |-> "pending"]]
                   ELSE job
       /\ create' = [create EXCEPT !.job = j, !.seen = job'[j].state]
  /\ UNCHANGED <<onArthas, open, list, createStatus, createJobId, mine, chosen, deleting, errors>>

JobSettles(j) ==
  /\ job[j].state = "pending"
  /\ \E s \in {"running", "failed"} :
       /\ job' = [job EXCEPT ![j].state = s]
       /\ open' = IF s = "running" THEN open \union {j} ELSE open
  /\ UNCHANGED <<onArthas, list, starting, chosen, deleting, errors>>

SessionDeleted(s) ==
  /\ deletes[s] = "asked" /\ s \in open
  /\ open' = open \ {s}
  /\ deletes' = [deletes EXCEPT ![s] = "done"]
  /\ UNCHANGED <<onArthas, job, list, starting, chosen, deleted, errors>>

(* The registries live in memory.                                          *)
Restart ==
  /\ errors < MaxErrors
  /\ errors' = errors + 1
  /\ open' = {}
  /\ job' = [j \in Ids |-> IF job[j] = Unused THEN Unused ELSE [job[j] EXCEPT !.state = "lost"]]
  /\ UNCHANGED <<onArthas, list, starting, chosen, deleting>>

-----------------------------------------------------------------------------
(* Starting a session.  The menu offers a target once the first list has   *)
(* arrived or failed.                                                      *)

Start(t) ==
  /\ create = Nothing /\ createJobId = 0
  /\ sessions.data # Nothing \/ ~Fetching(sessions)
  /\ \A s \in Listed : job[s].target # t
  /\ create' = [target |-> t, job |-> 0, seen |-> "none"]
  /\ UNCHANGED <<onArthas, server, list, createStatus, createJobId, mine, chosen, deleting, errors>>

(* A session has been created: the list is fetched again.                  *)
SessionStarted(s) ==
  /\ selectedId' = s
  /\ blind' = (sessions.data = Nothing)
  /\ sessions' = Refetch(sessions, open)

(* The answer is a finished job, when there was a session already, or the  *)
(* job to follow.                                                          *)
CreateAnswered ==
  /\ create # Nothing /\ create.job # 0
  /\ create' = Nothing
  /\ mine' = create.job
  /\ \/ /\ create.seen = "running"
        /\ SessionStarted(create.job)
        /\ UNCHANGED <<createJobId, createStatus>>
     \/ /\ create.seen = "pending"
        /\ createJobId' = create.job
        /\ createStatus' = Fetch(NewQuery, job[create.job].state)
        /\ UNCHANGED <<sessions, chosen>>
  /\ UNCHANGED <<onArthas, server, stale, deleting, errors>>

CreateFails ==
  /\ create # Nothing /\ errors < MaxErrors
  /\ errors' = errors + 1
  /\ create' = Nothing
  /\ UNCHANGED <<onArthas, server, list, createStatus, createJobId, mine, chosen, deleting>>

PollStatus ==
  /\ createJobId # 0 /\ ~Fetching(createStatus)
  /\ createStatus' = Fetch(createStatus, job[createJobId].state)
  /\ UNCHANGED <<onArthas, server, list, create, createJobId, mine, chosen, deleting, errors>>

(* Mutant: an answer ends the start whatever it says.                      *)
StatusArrives_ClearsAlways ==
  /\ createJobId # 0 /\ Fetching(createStatus) /\ createStatus.flight # "lost"
  /\ createJobId' = 0
  /\ createStatus' = NewQuery
  /\ UNCHANGED <<sessions, chosen>>
  /\ UNCHANGED <<onArthas, server, stale, create, mine, deleting, errors>>

(* Mutant: the list is left to its timer.                                  *)
StatusArrives_KeepsList ==
  /\ createJobId # 0 /\ Fetching(createStatus) /\ createStatus.flight # "lost"
  /\ IF createStatus.flight = "pending"
       THEN createStatus' = Answered(createStatus) /\ createJobId' = createJobId
       ELSE createStatus' = NewQuery /\ createJobId' = 0
  /\ IF createStatus.flight = "running"
       THEN selectedId' = createJobId /\ UNCHANGED <<blind, sessions>>
       ELSE UNCHANGED <<sessions, chosen>>
  /\ UNCHANGED <<onArthas, server, stale, create, mine, deleting, errors>>

(* The answer and the effect on it.                                        *)
StatusArrives ==
  /\ createJobId # 0 /\ Fetching(createStatus) /\ createStatus.flight # "lost"
  /\ IF createStatus.flight = "pending"
       THEN createStatus' = Answered(createStatus) /\ createJobId' = createJobId
       ELSE createStatus' = NewQuery /\ createJobId' = 0
  /\ IF createStatus.flight = "running"
       THEN SessionStarted(createJobId)
       ELSE UNCHANGED <<sessions, chosen>>
  /\ UNCHANGED <<onArthas, server, stale, create, mine, deleting, errors>>

(* "session create job not found", for ever; or the answer is lost.        *)
StatusFails ==
  /\ createJobId # 0 /\ Fetching(createStatus)
  /\ \/ createStatus.flight = "lost" /\ errors' = errors
     \/ errors < MaxErrors /\ errors' = errors + 1
  /\ createStatus' = Failed(createStatus)
  /\ UNCHANGED <<onArthas, server, list, create, createJobId, mine, chosen, deleting>>

-----------------------------------------------------------------------------
(* The list, selecting and stopping. *)

SelectSession(s) ==
  /\ s \in Listed
  /\ selectedId' = s /\ blind' = FALSE
  /\ UNCHANGED <<onArthas, server, list, starting, deleting, errors>>

Delete(s) ==
  /\ s \in Listed /\ deletes[s] = "none"
  /\ deletes' = [deletes EXCEPT ![s] = "asked"]
  /\ UNCHANGED <<onArthas, server, list, starting, chosen, deleted, errors>>

(* Mutant: a fetch in flight is taken for the new one.                     *)
Deleted_JoinsFetch(s) ==
  /\ deletes[s] = "done"
  /\ deletes' = [deletes EXCEPT ![s] = "none"]
  /\ deleted' = deleted \union {s}
  /\ selectedId' = IF selectedId = s THEN 0 ELSE selectedId
  /\ sessions' = Refetch_Joins(sessions, open)
  /\ UNCHANGED <<onArthas, server, stale, starting, blind, errors>>

Deleted(s) ==
  /\ deletes[s] = "done"
  /\ deletes' = [deletes EXCEPT ![s] = "none"]
  /\ deleted' = deleted \union {s}
  /\ selectedId' = IF selectedId = s THEN 0 ELSE selectedId
  /\ sessions' = Refetch(sessions, open)
  /\ UNCHANGED <<onArthas, server, stale, starting, blind, errors>>

(* "not found", or the answer is lost.                                     *)
DeleteFails(s) ==
  /\ \/ deletes[s] = "asked" /\ s \notin open /\ errors' = errors
     \/ deletes[s] # "none" /\ errors < MaxErrors /\ errors' = errors + 1
  /\ deletes' = [deletes EXCEPT ![s] = "none"]
  /\ UNCHANGED <<onArthas, server, list, starting, chosen, deleted>>

Poll ==
  /\ ~Fetching(sessions)
  /\ sessions' = Fetch(sessions, open)
  /\ UNCHANGED <<onArthas, server, stale, starting, chosen, deleting, errors>>

ListArrives ==
  /\ Fetching(sessions)
  /\ sessions' = Answered(sessions)
  /\ stale' = FALSE
  /\ UNCHANGED <<onArthas, server, starting, chosen, deleting, errors>>

ListFails ==
  /\ Fetching(sessions) /\ errors < MaxErrors
  /\ errors' = errors + 1
  /\ sessions' = Failed(sessions)
  /\ stale' = TRUE
  /\ UNCHANGED <<onArthas, server, starting, chosen, deleting>>

Next ==
  /\ onArthas
  /\ \/ CreateHandled \/ CreateAnswered \/ CreateFails \/ Restart
     \/ \E t \in Targets : Start(t)
     \/ PollStatus \/ StatusArrives \/ StatusFails
     \/ \E s \in Ids : JobSettles(s) \/ SessionDeleted(s) \/ SelectSession(s) \/ Delete(s)
                       \/ Deleted(s) \/ DeleteFails(s)
     \/ Poll \/ ListArrives \/ ListFails

Spec == Init /\ [][Next]_vars

-----------------------------------------------------------------------------
(* The outcome of a start is not missed: while the job the operator was    *)
(* last given is being worked on the page follows it, and a session that   *)
(* was just selected is in the list as soon as no request for the list is  *)
(* under way, unless it has ended or no list had ever arrived              *)
(* (ArthasPage.tsx:68-101).                                                *)
StartIsFollowed ==
  /\ mine # 0 /\ job[mine].state = "pending" => createJobId = mine
  /\ ~Fetching(sessions) /\ ~stale /\ ~blind /\ selectedId \in open => selectedId \in Listed

(* A session whose stop was answered does not come back into the list: a   *)
(* list that was asked for before the stop never replaces the newer one    *)
(* (ArthasPage.tsx:103-109).                                               *)
DeletedStaysGone == ~Fetching(sessions) /\ ~stale => Listed \intersect deleted = {}
=============================================================================
