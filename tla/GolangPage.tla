----------------------------- MODULE GolangPage -----------------------------
(***************************************************************************)
(* The page of the golang plugin (golang/ui-src/src/App.tsx and            *)
(* components/SessionMenu.tsx): it lists the sessions, starts one on a     *)
(* target and stops sessions.  Answers of both mutations are written into  *)
(* the cached list, which is then fetched again.  Other operators may      *)
(* have a session already; module GolangSessions has the server.           *)
(***************************************************************************)
EXTENDS Naturals, FiniteSets, Queries

CONSTANTS Targets,    \* containers of the pods
          MaxStarts,  \* bound on the sessions; they are numbered
          MaxErrors   \* bound on the failing requests

GolangPageAssumption ==
  /\ MaxStarts \in Nat /\ MaxErrors \in Nat
  /\ Nothing \notin Targets /\ \A ids \in SUBSET (1 .. MaxStarts) : ids # Nothing
  /\ \A start \in [target : Targets, id : 0 .. MaxStarts] : start # Nothing

VARIABLES
  onGolang,        \* the page is shown
  target,          \* target[s]: the target of session s, or Nothing
  open,            \* the plugin's sessions
  sessions,        \* sessionsQ
  startSession,    \* the pending start: its target, and its session or 0
  deleteSession,   \* deleteSession[s]: a delete of s is pending, and was carried out
  deleted,         \* (history) sessions whose delete was answered
  selectedTarget,  \* or Nothing
  astray,          \* (history) targets of starts that were lost or clicked blindly
  stale,           \* (history) no list was fetched yet, or the latest fetch failed
  errors           \* number of failed requests

vars == <<onGolang, target, open, sessions, startSession, deleteSession, deleted,
          selectedTarget, astray, stale, errors>>

Ids == 1 .. MaxStarts

TypeOK ==
  /\ onGolang \in BOOLEAN
  /\ target \in [Ids -> Targets \union {Nothing}]
  /\ open \in SUBSET Ids
  /\ sessions \in [data : (SUBSET Ids) \union {Nothing}, flight : (SUBSET Ids) \union {Nothing}]
  /\ startSession \in [target : Targets, id : Ids \union {0}] \union {Nothing}
  /\ deleteSession \in [Ids -> {"none", "asked", "done"}]
  /\ deleted \in SUBSET Ids
  /\ selectedTarget \in Targets \union {Nothing}
  /\ astray \in SUBSET Targets
  /\ stale \in BOOLEAN
  /\ errors \in 0 .. MaxErrors

(* Session 1 may be there before the page is.                              *)
Init ==
  /\ onGolang \in BOOLEAN
  /\ open \in {{}, {1} \intersect Ids}
  /\ target \in {[s \in Ids |-> IF s \in open THEN t ELSE Nothing] : t \in Targets}
  /\ sessions = Fetch(NewQuery, open)
  /\ startSession = Nothing
  /\ deleteSession = [s \in Ids |-> "none"]
  /\ deleted = {}
  /\ selectedTarget = Nothing
  /\ astray = {}
  /\ stale = TRUE
  /\ errors = 0

server == <<target, open>>
list == <<sessions, stale>>

Listed == IF sessions.data = Nothing THEN {} ELSE sessions.data
SessionOf(t) == {s \in Listed : target[s] = t}

(* The effect that selects a target: one with a session, or the first.     *)
SelectDefault ==
  /\ selectedTarget = Nothing
  /\ \E t \in Targets :
       /\ SessionOf(t) # {} \/ \A u \in Targets : SessionOf(u) = {}
       /\ selectedTarget' = t
  /\ UNCHANGED <<onGolang, server, list, startSession, deleteSession, deleted, astray, errors>>

SelectTarget(t) ==
  /\ selectedTarget' = t
  /\ UNCHANGED <<onGolang, server, list, startSession, deleteSession, deleted, astray, errors>>

-----------------------------------------------------------------------------
(* Starting.  Once a fetch has failed the menu offers all targets, though  *)
(* it has not seen a list.                                                 *)

Start(t) ==
  /\ startSession = Nothing
  /\ SessionOf(t) = {}
  /\ sessions.data # Nothing \/ ~Fetching(sessions)
  /\ selectedTarget' = t
  /\ startSession' = [target |-> t, id |-> 0]
  /\ astray' = IF stale THEN astray \union {t} ELSE astray
  /\ UNCHANGED <<onGolang, server, list, deleteSession, deleted, errors>>

SessionCreated(s) ==
  /\ startSession # Nothing /\ startSession.id = 0
  /\ target[s] = Nothing /\ \A u \in 1 .. s - 1 : target[u] # Nothing
  /\ target' = [target EXCEPT ![s] = startSession.target]
  /\ open' = open \union {s}
  /\ startSession' = [startSession EXCEPT !.id = s]
  /\ UNCHANGED <<onGolang, list, deleteSession, deleted, selectedTarget, astray, errors>>

(* setQueryData, then invalidateQueries.                                   *)
SetAndRefetch(shown) == sessions' = Refetch([sessions EXCEPT !.data = shown], open)

(* Mutant: the answer is not written into the list.                        *)
Started_RefetchOnly ==
  /\ startSession # Nothing /\ startSession.id # 0
  /\ selectedTarget' = startSession.target
  /\ startSession' = Nothing
  /\ sessions' = Refetch(sessions, open)
  /\ UNCHANGED <<onGolang, server, stale, deleteSession, deleted, astray, errors>>

Started ==
  /\ startSession # Nothing /\ startSession.id # 0
  /\ selectedTarget' = startSession.target
  /\ startSession' = Nothing
  /\ SetAndRefetch(Listed \union {startSession.id})
  /\ UNCHANGED <<onGolang, server, stale, deleteSession, deleted, astray, errors>>

(* The plugin refuses, or its answer is lost.                              *)
StartFails ==
  /\ startSession # Nothing /\ errors < MaxErrors
  /\ errors' = errors + 1
  /\ startSession' = Nothing
  /\ astray' = IF startSession.id # 0 THEN astray \union {startSession.target} ELSE astray
  /\ UNCHANGED <<onGolang, server, list, deleteSession, deleted, selectedTarget>>

-----------------------------------------------------------------------------
(* Stopping, in the menu or in the header. *)

Delete(s) ==
  /\ s \in Listed /\ deleteSession[s] = "none"
  /\ deleteSession' = [deleteSession EXCEPT ![s] = "asked"]
  /\ UNCHANGED <<onGolang, server, list, startSession, deleted, selectedTarget, astray, errors>>

SessionDeleted(s) ==
  /\ deleteSession[s] = "asked" /\ s \in open
  /\ open' = open \ {s}
  /\ deleteSession' = [deleteSession EXCEPT ![s] = "done"]
  /\ UNCHANGED <<onGolang, target, list, startSession, deleted, selectedTarget, astray, errors>>

(* Mutant: a fetch in flight is taken for the new one.                     *)
Deleted_JoinsFetch(s) ==
  /\ deleteSession[s] = "done"
  /\ deleteSession' = [deleteSession EXCEPT ![s] = "none"]
  /\ deleted' = deleted \union {s}
  /\ sessions' = Refetch_Joins([sessions EXCEPT !.data = Listed \ {s}], open)
  /\ UNCHANGED <<onGolang, server, stale, startSession, selectedTarget, astray, errors>>

Deleted(s) ==
  /\ deleteSession[s] = "done"
  /\ deleteSession' = [deleteSession EXCEPT ![s] = "none"]
  /\ deleted' = deleted \union {s}
  /\ SetAndRefetch(Listed \ {s})
  /\ UNCHANGED <<onGolang, server, stale, startSession, selectedTarget, astray, errors>>

(* "not found", or the answer is lost.                                     *)
DeleteFails(s) ==
  /\ \/ deleteSession[s] = "asked" /\ s \notin open /\ errors' = errors
     \/ deleteSession[s] # "none" /\ errors < MaxErrors /\ errors' = errors + 1
  /\ deleteSession' = [deleteSession EXCEPT ![s] = "none"]
  /\ UNCHANGED <<onGolang, server, list, startSession, deleted, selectedTarget, astray>>

-----------------------------------------------------------------------------
(* refetchInterval; the Refresh button is an invalidation.                 *)
Poll ==
  /\ sessions' \in {Fetch(sessions, open), Refetch(sessions, open)}
  /\ sessions' # sessions
  /\ UNCHANGED <<onGolang, server, stale, startSession, deleteSession, deleted, selectedTarget,
                 astray, errors>>

ListArrives ==
  /\ Fetching(sessions)
  /\ sessions' = Answered(sessions)
  /\ stale' = FALSE
  /\ UNCHANGED <<onGolang, server, startSession, deleteSession, deleted, selectedTarget, astray,
                 errors>>

ListFails ==
  /\ Fetching(sessions) /\ errors < MaxErrors
  /\ errors' = errors + 1
  /\ sessions' = Failed(sessions)
  /\ stale' = TRUE
  /\ UNCHANGED <<onGolang, server, startSession, deleteSession, deleted, selectedTarget, astray>>

Next ==
  /\ onGolang
  /\ \/ SelectDefault
     \/ \E t \in Targets : SelectTarget(t) \/ Start(t)
     \/ \E s \in Ids : \/ SessionCreated(s) \/ Delete(s) \/ SessionDeleted(s)
                        \/ Deleted(s) \/ DeleteFails(s)
     \/ Started \/ StartFails
     \/ Poll \/ ListArrives \/ ListFails

Spec == Init /\ [][Next]_vars

-----------------------------------------------------------------------------
(* "A diagnostics session is already running for the selected target.      *)
(* Stop it before starting another session" (SessionMenu.tsx:75-77), which *)
(* the plugin does not check: the page never starts a second session on a  *)
(* target, unless the answer to a start was lost or the list could not be  *)
(* fetched.                                                                *)
OneSessionPerTarget ==
  \A s, u \in open : s # u /\ target[s] = target[u] => target[s] \in astray

(* A session whose stop was answered is not listed again, except until the *)
(* next list by the late answer of its start: a list that was asked for    *)
(* before the stop never replaces the newer one (App.tsx:70-94).           *)
DeletedStaysGone == ~Fetching(sessions) /\ ~stale => Listed \intersect deleted = {}
=============================================================================
