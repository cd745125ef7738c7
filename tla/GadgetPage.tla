----------------------------- MODULE GadgetPage -----------------------------
(***************************************************************************)
(* The page of the inspektor-gadget plugin (components/App.tsx): it polls  *)
(* the list of sessions, starts and stops traces, and shows the events of  *)
(* the selected session.  An effect loads them when another session is     *)
(* selected or the state of the selected one changes, and cancels its      *)
(* previous load; refresh() loads them too, and nothing cancels it.  The   *)
(* answers of a poll and of a refresh may overtake each other.             *)
(***************************************************************************)
EXTENDS Naturals, Sequences, FiniteSets, Queries

CONSTANTS MaxSessions,  \* bound on the sessions; they are numbered
          MaxEvents,    \* bound on the events: session s has up to MaxEvents - s + 1
          PageLimit,    \* how many events the page keeps (1000 in the code)
          MaxPolls,     \* bound on the polls in flight
          MaxRefreshes  \* bound on the refreshes

GadgetPageAssumption ==
  /\ {MaxSessions, MaxEvents, MaxPolls, MaxRefreshes} \subseteq Nat
  /\ PageLimit \in 0 .. MaxEvents
  /\ \A answer \in [of : 1 .. MaxSessions, first : 1 .. MaxEvents + 1, last : 0 .. MaxEvents] :
       answer # Nothing

VARIABLES
  onGadgets,        \* the page is shown
  session,          \* session[s]: its state on the server, whether MarkDone has
                    \* run, and the number of its events
  sessions,         \* the listed states
  polls,            \* lists that polls in flight will bring
  refreshes,        \* the refreshes that run: step, preferred session, answer
  refreshed,        \* number of refreshes
  starting,         \* trace-start has made a session and has not answered
  selectedSession,  \* or 0
  seen,             \* the dependencies that the effect has seen
  load,             \* the effect's load: session and events, or Nothing
  events,           \* the events shown: session, first and last, or Nothing
  disturbed         \* (history) a refresh or a failure came since the effect

vars == <<onGadgets, session, sessions, polls, refreshes, refreshed, starting,
          selectedSession, seen, load, events, disturbed>>

Ids == 1 .. MaxSessions

(* "running" stands for starting, too, and "completed" for failed.         *)
States == {"none", "running", "stopped", "completed"}
Lists == [Ids -> States]
Answers == [of : Ids, first : 1 .. MaxEvents + 1, last : 0 .. MaxEvents]

TypeOK ==
  /\ onGadgets \in BOOLEAN
  /\ session \in [Ids -> [state : States, over : BOOLEAN, n : 0 .. MaxEvents]]
  /\ sessions \in Lists
  /\ Len(polls) <= MaxPolls /\ \A i \in DOMAIN polls : polls[i] \in Lists
  /\ \A r \in refreshes :
       \/ r.step = "list" /\ r.preferred \in Ids \union {0} /\ r.list \in Lists
       \/ r.step = "events" /\ r.answer \in Answers
  /\ refreshed \in 0 .. MaxRefreshes
  /\ starting \in BOOLEAN
  /\ selectedSession \in Ids \union {0}
  /\ seen \in [id : Ids \union {0}, state : States]
  /\ load \in Answers \union {Nothing}
  /\ events \in Answers \union {Nothing}
  /\ disturbed \in BOOLEAN

Listed == [s \in Ids |-> session[s].state]

(* loadSessionEvents: the latest ones.                                     *)
EventsOf(s) == [of |-> s, last |-> session[s].n,
                first |-> IF session[s].n > PageLimit THEN session[s].n - PageLimit + 1 ELSE 1]

(* The page is opened on a session that has run for a while.               *)
Init ==
  /\ onGadgets \in BOOLEAN
  /\ session = [s \in Ids |-> [state |-> IF s = 1 THEN "running" ELSE "none", over |-> FALSE,
                             n |-> IF s = 1 THEN PageLimit ELSE 0]]
  /\ sessions = [s \in Ids |-> "none"]
  /\ polls = <<>>
  /\ refreshes = {[step |-> "list", preferred |-> 0, list |-> Listed]}
  /\ refreshed = 0
  /\ starting = FALSE
  /\ selectedSession = 0
  /\ seen = [id |-> 0, state |-> "none"]
  /\ load = Nothing
  /\ events = Nothing
  /\ disturbed = FALSE

effect == <<seen, load>>
shown == <<events, disturbed>>

-----------------------------------------------------------------------------
(* The plugin; module GadgetSessions has the details. *)

(* The receiver goes on after a stop, until the service confirms it.       *)
Trace(s) ==
  /\ session[s].state # "none" /\ ~session[s].over /\ session[s].n + s <= MaxEvents
  /\ session' = [session EXCEPT ![s].n = @ + 1]
  /\ UNCHANGED <<onGadgets, sessions, polls, refreshes, refreshed, starting, selectedSession,
                 effect, shown>>

(* MarkDone: a stopped session stays so unless the run has failed.         *)
Complete(s) ==
  /\ session[s].state # "none" /\ ~session[s].over
  /\ \E state \in {"completed"} \union ({session[s].state} \intersect {"stopped"}) :
       session' = [session EXCEPT ![s].state = state, ![s].over = TRUE]
  /\ UNCHANGED <<onGadgets, sessions, polls, refreshes, refreshed, starting, selectedSession,
                 effect, shown>>

-----------------------------------------------------------------------------
(* The effect on [selectedSession, activeSession?.state]. *)

(* Mutant: the state of the session is not a dependency.                   *)
Wanted_SessionOnly == [id |-> selectedSession, state |-> "running"]

Wanted == [id |-> selectedSession,
           state |-> IF selectedSession = 0 THEN "none" ELSE sessions[selectedSession]]

(* Mutant: the cleanup is missing, and the load that it should cancel is   *)
(* answered last.                                                          *)
Effects_NoCleanup ==
  /\ seen # Wanted
  /\ seen' = Wanted
  /\ load' = IF load # Nothing THEN load
             ELSE IF selectedSession = 0 THEN Nothing ELSE EventsOf(selectedSession)
  /\ events' = Nothing
  /\ disturbed' = FALSE
  /\ UNCHANGED <<onGadgets, session, sessions, polls, refreshes, refreshed, starting,
                 selectedSession>>

(* A load that still runs is cancelled: its answer changes nothing, so it  *)
(* is no longer kept.                                                      *)
Effects ==
  /\ seen # Wanted
  /\ seen' = Wanted
  /\ load' = IF selectedSession = 0 THEN Nothing ELSE EventsOf(selectedSession)
  /\ events' = Nothing
  /\ disturbed' = FALSE
  /\ UNCHANGED <<onGadgets, session, sessions, polls, refreshes, refreshed, starting,
                 selectedSession>>

LoadArrives ==
  /\ load # Nothing
  /\ load' = Nothing
  /\ \/ events' = load /\ UNCHANGED disturbed
     \/ disturbed' = TRUE /\ UNCHANGED events
  /\ UNCHANGED <<onGadgets, session, sessions, polls, refreshes, refreshed, starting,
                 selectedSession, seen>>

-----------------------------------------------------------------------------
(* Lists.  The list is newest first; a selected session that is not in it  *)
(* is replaced by the first.                                               *)

SelectIn(list, s) ==
  IF s # 0 /\ list[s] # "none" THEN s
  ELSE LET there == {t \in Ids : list[t] # "none"}
       IN IF there = {} THEN 0 ELSE CHOOSE t \in there : \A u \in there : u <= t

Settled == seen = Wanted

Poll ==
  /\ Len(polls) < MaxPolls
  /\ polls' = Append(polls, Listed)
  /\ UNCHANGED <<onGadgets, session, sessions, refreshes, refreshed, starting, selectedSession,
                 effect, shown>>

PollArrives(i) ==
  /\ polls' = [j \in 1 .. Len(polls) - 1 |-> IF j < i THEN polls[j] ELSE polls[j + 1]]
  /\ sessions' = polls[i]
  /\ selectedSession' = SelectIn(polls[i], selectedSession)
  /\ UNCHANGED <<onGadgets, session, refreshes, refreshed, starting, effect, shown>>

Refresh(preferred) ==
  /\ refreshed < MaxRefreshes
  /\ refreshed' = refreshed + 1
  /\ refreshes' = refreshes \union {[step |-> "list", preferred |-> preferred, list |-> Listed]}

ClickRefresh ==
  /\ Refresh(selectedSession)
  /\ UNCHANGED <<onGadgets, session, sessions, polls, starting, selectedSession, effect, shown>>

RefreshLists(r) ==
  /\ r.step = "list"
  /\ sessions' = r.list
  /\ LET s == SelectIn(r.list, r.preferred)
     IN /\ selectedSession' = s
        /\ IF s = 0
           THEN /\ refreshes' = refreshes \ {r}
                /\ events' = Nothing
                /\ disturbed' = TRUE
           ELSE /\ refreshes' = (refreshes \ {r})
                                \union {[step |-> "events", answer |-> EventsOf(s)]}
                /\ UNCHANGED shown
  /\ UNCHANGED <<onGadgets, session, polls, refreshed, starting, effect>>

(* The events are shown whatever is selected by now.                       *)
RefreshEvents(r) ==
  /\ r.step = "events"
  /\ refreshes' = refreshes \ {r}
  /\ events' = r.answer
  /\ disturbed' = TRUE
  /\ UNCHANGED <<onGadgets, session, sessions, polls, refreshed, starting, selectedSession, effect>>

-----------------------------------------------------------------------------
(* The operator. *)

ClickSession(s) ==
  /\ sessions[s] # "none"
  /\ selectedSession' = s
  /\ UNCHANGED <<onGadgets, session, sessions, polls, refreshes, refreshed, starting, effect,
                 shown>>

(* trace-start; the list may show the session before the answer comes.     *)
StartTrace(s) ==
  /\ ~starting
  /\ session[s].state = "none" /\ \A t \in 1 .. s - 1 : session[t].state # "none"
  /\ session' = [session EXCEPT ![s].state = "running"]
  /\ starting' = TRUE
  /\ UNCHANGED <<onGadgets, sessions, polls, refreshes, refreshed, selectedSession, effect, shown>>

Newest == CHOOSE s \in Ids :
  session[s].state # "none" /\ \A t \in Ids : t > s => session[t].state = "none"

TraceStarted ==
  /\ starting
  /\ starting' = FALSE
  /\ selectedSession' = Newest
  /\ Refresh(Newest)
  /\ UNCHANGED <<onGadgets, session, sessions, polls, effect, shown>>

StartFails ==
  /\ starting
  /\ starting' = FALSE
  /\ UNCHANGED <<onGadgets, session, sessions, polls, refreshes, refreshed, selectedSession,
                 effect, shown>>

(* Stop overwrites whatever state the session has by now, and MarkRunning  *)
(* a stop that was faster; the refresh that follows prefers the selection  *)
(* of the render that showed the button.                                   *)
StopTrace(s) ==
  /\ sessions[s] = "running"
  /\ \/ session' = [session EXCEPT ![s].state = "stopped"]
     \/ session[s].state = "running" /\ session[s].n = 0 /\ UNCHANGED session
  /\ Refresh(selectedSession)
  /\ UNCHANGED <<onGadgets, sessions, polls, starting, selectedSession, effect, shown>>

(* Effects run right after the render that calls for them.                 *)
Next ==
  /\ onGadgets
  /\ \/ Effects
     \/ /\ Settled
        /\ \/ \E s \in Ids : \/ Trace(s) \/ Complete(s)
                             \/ ClickSession(s) \/ StartTrace(s) \/ StopTrace(s)
           \/ LoadArrives
           \/ Poll \/ \E i \in DOMAIN polls : PollArrives(i)
           \/ ClickRefresh
           \/ \E r \in refreshes : RefreshLists(r) \/ RefreshEvents(r)
           \/ TraceStarted \/ StartFails

Spec == Init /\ [][Next]_vars

-----------------------------------------------------------------------------
(* Unless a refresh or a failed load has come in between, the events shown *)
(* are those of the selected session, and when the session is listed as    *)
(* completed or failed they are its latest ones, up to the page's limit:   *)
(* the load that shows them was asked for after the end (App.tsx:55-58,    *)
(* 116-129).  Of a stopped session the events that came after the load     *)
(* are missing: its state does not change again when it ends.              *)
CompletedIsShownToTheEnd ==
  Settled /\ load = Nothing /\ ~disturbed /\ selectedSession # 0 =>
    /\ events # Nothing /\ events.of = selectedSession
    /\ sessions[selectedSession] = "completed" =>
         /\ events.last = session[selectedSession].n
         /\ \A n \in 1 .. events.last : n >= events.first <=> n + PageLimit > events.last
=============================================================================
