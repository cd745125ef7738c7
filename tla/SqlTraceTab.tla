----------------------------- MODULE SqlTraceTab -----------------------------
(***************************************************************************)
(* The Trace tab of the sql-server plugin (pages/TraceTab.tsx): it starts, *)
(* stops and deletes traces and streams the events of the active one.  An  *)
(* effect opens the stream and its cleanup aborts it, so that for a moment *)
(* after another trace became active the stream of the last one goes on.   *)
(* The server's side is module TraceSessions.                              *)
(***************************************************************************)
EXTENDS Naturals, Sequences, FiniteSets

CONSTANTS MaxTraces,   \* bound on the traces; they are numbered
          MaxRecorded, \* bound on the events of a trace
          MaxStreams,  \* bound on the streams
          MaxDeletes   \* bound on the deletes that wait for their answers

TraceTabAssumption == {MaxTraces, MaxRecorded, MaxStreams, MaxDeletes} \subseteq Nat

VARIABLES
  onTrace,        \* the App shows this tab
  traces,         \* number of traces on the server
  recorded,       \* recorded[t]: number of events of trace t
  activeTraceID,  \* a trace, or 0
  followed,       \* the active trace that the effect has seen
  streams,        \* the streams that were opened; whole (history): see Started
  events,         \* the events shown: their stream and position in it
  starting,       \* startMut: "idle", "sent" or, when the trace exists, "made"
  deleting        \* the deletes under way: trace, whether deleteMut still
                  \* follows it, and else the active trace its onSuccess knows

vars == <<onTrace, traces, recorded, activeTraceID, followed, streams, events, starting, deleting>>

Traces == 1 .. MaxTraces

TypeOK ==
  /\ onTrace \in BOOLEAN
  /\ traces \in 0 .. MaxTraces
  /\ recorded \in [Traces -> 0 .. MaxRecorded]
  /\ activeTraceID \in 0 .. MaxTraces
  /\ followed \in 0 .. MaxTraces
  /\ Len(streams) <= MaxStreams
  /\ \A k \in DOMAIN streams :
       streams[k] \in [trace : Traces, sent : 0 .. MaxRecorded,
                       state : {"open", "aborted", "closed"}, whole : BOOLEAN]
  /\ \A i \in DOMAIN events :
       events[i] \in [stream : DOMAIN streams, n : 1 .. MaxRecorded]
  /\ starting \in {"idle", "sent", "made"}
  /\ deleting \subseteq [id : Traces, current : BOOLEAN, active : 0 .. MaxTraces]

Init ==
  /\ onTrace \in BOOLEAN
  /\ traces = 0
  /\ recorded = [t \in Traces |-> 0]
  /\ activeTraceID = 0
  /\ followed = 0
  /\ streams = <<>>
  /\ events = <<>>
  /\ starting = "idle"
  /\ deleting = {}

(* Mutant: the cleanup is missing.                                         *)
StreamsAfterEffects_NoCleanup(S) ==
  IF followed = activeTraceID \/ activeTraceID = 0 THEN S
  ELSE Append(S, [trace |-> activeTraceID, sent |-> 0, state |-> "open", whole |-> TRUE])

(* The effect of the last render: abort the stream of the trace followed   *)
(* so far and open one for the active trace.                               *)
StreamsAfterEffects(S) ==
  LET aborted == IF followed # 0 /\ S[Len(S)].state = "open"
                 THEN [S EXCEPT ![Len(S)].state = "aborted"] ELSE S
  IN IF followed = activeTraceID THEN S
     ELSE IF activeTraceID = 0 THEN aborted
     ELSE Append(aborted, [trace |-> activeTraceID, sent |-> 0, state |-> "open", whole |-> TRUE])

CanOpen == Len(streams) < MaxStreams \/ followed = activeTraceID

Rerender(S) ==
  /\ CanOpen
  /\ followed' = activeTraceID
  /\ streams' = StreamsAfterEffects(S)

Effects ==
  /\ followed # activeTraceID
  /\ Rerender(streams)
  /\ UNCHANGED <<onTrace, traces, recorded, activeTraceID, events, starting, deleting>>

ClickRow(t) ==
  /\ t # activeTraceID
  /\ activeTraceID' = t
  /\ Rerender(streams)
  /\ UNCHANGED <<onTrace, traces, recorded, events, starting, deleting>>

Start ==
  /\ starting = "idle" /\ traces < MaxTraces
  /\ starting' = "sent"
  /\ Rerender(streams)
  /\ UNCHANGED <<onTrace, traces, recorded, activeTraceID, events, deleting>>

(* The list may show the new trace, and the operator pick it, before the   *)
(* answer of trace-start comes; its first events are then wiped out.       *)
Started ==
  /\ starting = "made"
  /\ starting' = "idle"
  /\ activeTraceID' = traces
  /\ events' = <<>>
  /\ Rerender(IF activeTraceID = traces /\ followed = traces
              THEN [streams EXCEPT ![Len(streams)].whole = FALSE] ELSE streams)
  /\ UNCHANGED <<onTrace, traces, recorded, deleting>>

StartFailed ==
  /\ starting # "idle"
  /\ starting' = "idle"
  /\ Rerender(streams)
  /\ UNCHANGED <<onTrace, traces, recorded, activeTraceID, events, deleting>>

(* The buttons stay enabled: another mutate() leaves an earlier delete     *)
(* with the onSuccess of the last render whose effects have run.           *)
Delete(t) ==
  /\ Cardinality(deleting) < MaxDeletes
  /\ \E known \in {followed, activeTraceID} :
       deleting' = {IF d.current THEN [d EXCEPT !.current = FALSE, !.active = known] ELSE d :
                     d \in deleting}
                   \union {[id |-> t, current |-> TRUE, active |-> 0]}
  /\ Rerender(streams)
  /\ UNCHANGED <<onTrace, traces, recorded, activeTraceID, events, starting>>

(* `activeTraceID === deleteMut.variables` of the onSuccess of d, which    *)
(* every render renews while deleteMut follows d.                          *)
DeletesActive(d) == d.id = IF d.current THEN followed ELSE d.active

(* Mutant: deleting any trace clears the events.                           *)
Deleted_ClearsAlways(d) ==
  /\ deleting' = deleting \ {d}
  /\ events' = <<>>
  /\ activeTraceID' = IF DeletesActive(d) THEN 0 ELSE activeTraceID
  /\ Rerender(streams)
  /\ UNCHANGED <<onTrace, traces, recorded, starting>>

Deleted(d) ==
  /\ deleting' = deleting \ {d}
  /\ IF DeletesActive(d) THEN activeTraceID' = 0 /\ events' = <<>>
     ELSE UNCHANGED <<activeTraceID, events>>
  /\ Rerender(streams)
  /\ UNCHANGED <<onTrace, traces, recorded, starting>>

DeleteFailed(d) ==
  /\ deleting' = deleting \ {d}
  /\ Rerender(streams)
  /\ UNCHANGED <<onTrace, traces, recorded, activeTraceID, events, starting>>

-----------------------------------------------------------------------------
(* The server, and openTraceStream of lib/api.ts. *)

MakeTrace ==
  /\ starting = "sent"
  /\ starting' = "made"
  /\ traces' = traces + 1
  /\ UNCHANGED <<onTrace, recorded, activeTraceID, followed, streams, events, deleting>>

Record(t) ==
  /\ t <= traces /\ recorded[t] < MaxRecorded
  /\ recorded' = [recorded EXCEPT ![t] = @ + 1]
  /\ UNCHANGED <<onTrace, traces, activeTraceID, followed, streams, events, starting, deleting>>

(* An event that was read before the abort is still delivered.             *)
Deliver(k) ==
  /\ streams[k].state \in {"open", "aborted"}
  /\ streams[k].sent < recorded[streams[k].trace]
  /\ events' = Append(events, [stream |-> k, n |-> streams[k].sent + 1])
  /\ Rerender([streams EXCEPT ![k].sent = @ + 1,
                              ![k].state = IF @ = "open" THEN "open" ELSE "closed"])
  /\ UNCHANGED <<onTrace, traces, recorded, activeTraceID, starting, deleting>>

(* "done", an error, or the end of an aborted stream.                      *)
StreamEnds(k) ==
  /\ streams[k].state \in {"open", "aborted"}
  /\ streams' = [streams EXCEPT ![k].state = "closed"]
  /\ UNCHANGED <<onTrace, traces, recorded, activeTraceID, followed, events, starting, deleting>>

Next ==
  /\ onTrace
  /\ \/ Effects
     \/ \E t \in 1 .. traces : ClickRow(t) \/ Delete(t) \/ Record(t)
     \/ Start \/ MakeTrace \/ Started \/ StartFailed
     \/ \E d \in deleting : Deleted(d) \/ DeleteFailed(d)
     \/ \E k \in DOMAIN streams : Deliver(k) \/ StreamEnds(k)

Spec == Init /\ [][Next]_vars

-----------------------------------------------------------------------------
(* Streams do not pile up: at most one is open, and once the effects have  *)
(* run it is the one of the active trace, whatever the order of clicks and *)
(* answers was (TraceTab.tsx:237-253).                                     *)
OneStreamFollowed ==
  /\ Cardinality({k \in DOMAIN streams : streams[k].state = "open"}) <= 1
  /\ followed = activeTraceID =>
       \A k \in DOMAIN streams : streams[k].state = "open" => streams[k].trace = activeTraceID

(* The events that the open stream has delivered are all shown, in their   *)
(* order: no answer to a start or a delete wipes them out, except the one  *)
(* described at Started (TraceTab.tsx:216-235, 243).                       *)
StreamIsShown ==
  followed = activeTraceID =>
    \A k \in DOMAIN streams : streams[k].state = "open" /\ streams[k].whole =>
      LET shown == {i \in DOMAIN events : events[i].stream = k}
      IN /\ {events[i].n : i \in shown} = 1 .. streams[k].sent
         /\ \A i, j \in shown : i < j => events[i].n < events[j].n
=============================================================================
