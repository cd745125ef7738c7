--------------------------- MODULE TraceSessions ---------------------------
(***************************************************************************)
(* The sql-server plugin's live traces: the registry of Extended Events    *)
(* sessions (sql-server/internal/sqltrace/registry.go), the goroutine that *)
(* drains each session's ring buffer (internal/xetrace/drain.go) and the   *)
(* SSE stream that tails a trace (sql-server/http.go).                     *)
(*                                                                         *)
(* A trace is named by the trace-start call that creates it.  An action is *)
(* one section under Registry.mu or ActiveTrace.mu, or one statement sent  *)
(* to the server.  Captured events are numbered; the number is what        *)
(* Event.Key tells apart.                                                  *)
(***************************************************************************)
EXTENDS Naturals, FiniteSets, Sequences, SequencesExt

CONSTANTS Traces,       \* calls of trace-start
          Clients,      \* calls of trace-stop and trace-delete
          Streams,      \* requests of /trace-stream
          NoTrace,
          RingSize,     \* CreateOptions.MaxEvents: what the ring buffer holds
          MaxCaptured,  \* bound on the events the server captures per trace
          MaxFaults     \* bound on statements that fail by themselves

ASSUME NoTraceAssumption == NoTrace \notin Traces
ASSUME RingSizeAssumption == RingSize \in Nat \ {0}
ASSUME MaxCapturedAssumption == MaxCaptured \in Nat

VARIABLES
  timed,      \* traces started with a Duration
  starter,    \* starter[t]: where Registry.Start of t is
  session,    \* session[t]: the event session on the server
  ring,       \* ring[t]: its ring buffer
  captured,   \* captured[t]: how many events it captured
  traces,     \* Registry.traces
  cancelled,  \* traces whose drain context is done
  drainer,    \* drainer[t]: where runDrain of t is
  polled,     \* polled[t]: polled events that are not delivered yet
  events,     \* events[t]: ActiveTrace.events
  stage,      \* stage[t]: how far the body of stopOnce is
  running,    \* traces with ActiveTrace.running
  call,       \* call[k]: the trace that client k stops, and how far it is
  stream,     \* stream[s]: trace, position and state of the SSE request s
  lastRing,   \* lastRing[t]: the ring buffer when the context was done (history)
  doubtful,   \* traces for which a CREATE or DROP failed (history)
  faults

vars == <<timed, starter, session, ring, captured, traces, cancelled, drainer, polled,
          events, stage, running, call, stream, lastRing, doubtful, faults>>
server == <<session, ring, captured>>
history == <<lastRing, doubtful>>

Keys == 1 .. MaxCaptured
StreamStates == [trace : Traces \union {NoTrace}, since : Nat, sent : Seq(Keys),
                 at : {"idle", "drain", "check", "wait", "done", "gone"}]

TypeOK ==
  /\ timed \in SUBSET Traces
  /\ starter \in [Traces -> {"idle", "alter", "register", "done"}]
  /\ session \in [Traces -> {"none", "created", "started"}]
  /\ ring \in [Traces -> Seq(Keys)]
  /\ captured \in [Traces -> Nat]
  /\ traces \in SUBSET Traces
  /\ cancelled \in SUBSET Traces
  /\ drainer \in [Traces -> {"none", "wait", "deliver", "last", "stop", "done"}]
  /\ polled \in [Traces -> Seq(Keys)]
  /\ events \in [Traces -> Seq(Keys)]
  /\ stage \in [Traces -> {"free", "drop", "mark", "done"}]
  /\ running \in SUBSET Traces
  /\ call \in [Clients -> [trace : Traces \union {NoTrace},
                           at : {"idle", "stop", "done"}, result : Seq(Keys)]]
  /\ stream \in [Streams -> StreamStates]
  /\ lastRing \in [Traces -> SUBSET Keys]
  /\ doubtful \in SUBSET Traces
  /\ faults \in Nat

Init ==
  /\ timed \in SUBSET Traces
  /\ starter = [t \in Traces |-> "idle"]
  /\ session = [t \in Traces |-> "none"]
  /\ ring = [t \in Traces |-> <<>>]
  /\ captured = [t \in Traces |-> 0]
  /\ traces = {}
  /\ cancelled = {}
  /\ drainer = [t \in Traces |-> "none"]
  /\ polled = [t \in Traces |-> <<>>]
  /\ events = [t \in Traces |-> <<>>]
  /\ stage = [t \in Traces |-> "free"]
  /\ running = {}
  /\ call = [k \in Clients |-> [trace |-> NoTrace, at |-> "idle", result |-> <<>>]]
  /\ stream = [s \in Streams |-> [trace |-> NoTrace, since |-> 0, sent |-> <<>>, at |-> "idle"]]
  /\ lastRing = [t \in Traces |-> {}]
  /\ doubtful = {}
  /\ faults = 0

Fault == faults < MaxFaults /\ faults' = faults + 1

-----------------------------------------------------------------------------
(* Registry.Start and xetrace.Create. *)

(* CREATE EVENT SESSION; an error ends the call, whatever the server did.  *)
CreateSession(t) ==
  /\ starter[t] = "idle"
  /\ \/ /\ session' = [session EXCEPT ![t] = "created"]
        /\ starter' = [starter EXCEPT ![t] = "alter"]
        /\ UNCHANGED <<doubtful, faults>>
     \/ /\ Fault
        /\ session' \in {session, [session EXCEPT ![t] = "created"]}
        /\ starter' = [starter EXCEPT ![t] = "done"]
        /\ doubtful' = doubtful \union {t}
  /\ UNCHANGED <<timed, ring, captured, traces, cancelled, drainer, polled, events, stage,
                 running, call, stream, lastRing>>

(* ALTER EVENT SESSION ... START; after an error the half-built session is *)
(* dropped, and an error of that is ignored.                               *)
StartSession(t) ==
  /\ starter[t] = "alter"
  /\ \/ /\ session' = [session EXCEPT ![t] = "started"]
        /\ starter' = [starter EXCEPT ![t] = "register"]
        /\ UNCHANGED <<doubtful, faults>>
     \/ /\ Fault
        /\ starter' = [starter EXCEPT ![t] = "done"]
        /\ \/ session' = [session EXCEPT ![t] = "none"] /\ UNCHANGED doubtful
           \/ session' \in {session, [session EXCEPT ![t] = "started"]} /\ doubtful' = doubtful \union {t}
  /\ UNCHANGED <<timed, ring, captured, traces, cancelled, drainer, polled, events, stage,
                 running, call, stream, lastRing>>

(* The trace enters the registry and runDrain starts.                      *)
Register(t) ==
  /\ starter[t] = "register"
  /\ starter' = [starter EXCEPT ![t] = "done"]
  /\ traces' = traces \union {t}
  /\ running' = running \union {t}
  /\ drainer' = [drainer EXCEPT ![t] = "wait"]
  /\ UNCHANGED <<timed, server, cancelled, polled, events, stage, call, stream, history, faults>>

-----------------------------------------------------------------------------
(* runDrain and xetrace.Drain. *)

(* The context is done: by its Duration, or by stop.                       *)
Cancel(t) ==
  /\ cancelled' = cancelled \union {t}
  /\ lastRing' = IF t \in cancelled THEN lastRing
                 ELSE [lastRing EXCEPT ![t] = ToSet(ring[t])]

Expire(t) ==
  /\ t \in timed
  /\ drainer[t] # "none"
  /\ t \notin cancelled
  /\ Cancel(t)
  /\ UNCHANGED <<timed, starter, server, traces, drainer, polled, events, stage, running,
                 call, stream, doubtful, faults>>

PollReturns(t, next) ==
  /\ session[t] = "started"
  /\ polled' = [polled EXCEPT ![t] = ring[t]]
  /\ drainer' = [drainer EXCEPT ![t] = next]
  /\ UNCHANGED faults

(* Mutant: the drain returns on an error without stopping the trace.       *)
PollFails_NoStop(t) ==
  /\ drainer' = [drainer EXCEPT ![t] = "done"]
  /\ Fault \/ (session[t] # "started" /\ UNCHANGED faults)
  /\ UNCHANGED polled

(* A poll fails by itself or because the session is gone; either ends the  *)
(* drain.                                                                  *)
PollFails(t) ==
  /\ drainer' = [drainer EXCEPT ![t] = "stop"]
  /\ Fault \/ (session[t] # "started" /\ UNCHANGED faults)
  /\ UNCHANGED polled

(* A tick.  When the context is done too, select may still take the tick,  *)
(* and the poll fails with the context.                                    *)
Poll(t) ==
  /\ drainer[t] = "wait"
  /\ \/ t \notin cancelled /\ PollReturns(t, "deliver")
     \/ PollFails(t)
     \/ /\ t \in cancelled
        /\ drainer' = [drainer EXCEPT ![t] = "stop"]
        /\ UNCHANGED <<polled, faults>>
  /\ UNCHANGED <<timed, starter, server, traces, cancelled, events, stage, running, call,
                 stream, history>>

(* The final drain has a context of its own.                               *)
FinalPoll(t) ==
  /\ drainer[t] = "wait"
  /\ t \in cancelled
  /\ PollReturns(t, "last") \/ PollFails(t)
  /\ UNCHANGED <<timed, starter, server, traces, cancelled, events, stage, running, call,
                 stream, history>>

(* Mutant: overlapping polls are delivered as they are.                    *)
Seen_Nothing(t) == {}

(* The keys in Drain's map of the events it has handed to onEvent.         *)
Seen(t) == ToSet(events[t])

(* The next of the polled events: dropped if it was seen before; onEvent   *)
(* takes the lock for each other one.                                      *)
Deliver(t) ==
  /\ drainer[t] \in {"deliver", "last"}
  /\ IF polled[t] = <<>>
     THEN /\ drainer' = [drainer EXCEPT ![t] = IF @ = "last" THEN "stop" ELSE "wait"]
          /\ UNCHANGED <<polled, events>>
     ELSE /\ events' = IF Head(polled[t]) \in Seen(t) THEN events
                       ELSE [events EXCEPT ![t] = Append(@, Head(polled[t]))]
          /\ polled' = [polled EXCEPT ![t] = Tail(@)]
          /\ UNCHANGED drainer
  /\ UNCHANGED <<timed, starter, server, traces, cancelled, stage, running, call, stream,
                 history, faults>>

DrainReturns(t) ==
  /\ drainer[t] = "stop"
  /\ stage[t] = "done"
  /\ drainer' = [drainer EXCEPT ![t] = "done"]
  /\ UNCHANGED <<timed, starter, server, traces, cancelled, polled, events, stage, running,
                 call, stream, history, faults>>

-----------------------------------------------------------------------------
(* ActiveTrace.stop: the first of its callers runs the body of stopOnce,   *)
(* the others wait until it has.                                           *)

StopBegins(t) ==
  /\ stage[t] = "free"
  /\ drainer[t] = "stop" \/ \E k \in Clients : call[k].trace = t /\ call[k].at = "stop"
  /\ stage' = [stage EXCEPT ![t] = "drop"]
  /\ Cancel(t)
  /\ UNCHANGED <<timed, starter, server, traces, drainer, polled, events, running, call,
                 stream, doubtful, faults>>

(* Session.Drop *)
DropSession(t) ==
  /\ stage[t] = "drop"
  /\ stage' = [stage EXCEPT ![t] = "mark"]
  /\ \/ /\ session' = [session EXCEPT ![t] = "none"]
        /\ ring' = [ring EXCEPT ![t] = <<>>]
        /\ UNCHANGED <<doubtful, faults>>
     \/ /\ Fault
        /\ doubtful' = doubtful \union {t}
        /\ UNCHANGED <<session, ring>>
  /\ UNCHANGED <<timed, starter, captured, traces, cancelled, drainer, polled, events,
                 running, call, stream, lastRing>>

MarkStopped(t) ==
  /\ stage[t] = "mark"
  /\ stage' = [stage EXCEPT ![t] = "done"]
  /\ running' = running \ {t}
  /\ UNCHANGED <<timed, starter, server, traces, cancelled, drainer, polled, events, call,
                 stream, history, faults>>

-----------------------------------------------------------------------------
(* trace-stop, trace-delete and trace-list. *)

StopTrace(k, t) ==
  /\ call[k].at = "idle"
  /\ t \in traces
  /\ call' = [call EXCEPT ![k].trace = t, ![k].at = "stop"]
  /\ UNCHANGED <<timed, starter, server, traces, cancelled, drainer, polled, events, stage,
                 running, stream, history, faults>>

(* DeleteForConfig forgets the trace first and stops it then.              *)
DeleteTrace(k, t) ==
  /\ call[k].at = "idle"
  /\ t \in traces
  /\ traces' = traces \ {t}
  /\ call' = [call EXCEPT ![k].trace = t, ![k].at = "stop"]
  /\ UNCHANGED <<timed, starter, server, cancelled, drainer, polled, events, stage,
                 running, stream, history, faults>>

(* Mutant: no result is returned.                                          *)
StopReturns_NoResult(k) ==
  /\ call[k].at = "stop"
  /\ stage[call[k].trace] = "done"
  /\ call' = [call EXCEPT ![k].at = "done", ![k].result = NoTrace]
  /\ UNCHANGED <<timed, starter, server, traces, cancelled, drainer, polled, events, stage,
                 running, stream, history, faults>>

(* ActiveTrace.Result, which trace-stop returns.                           *)
StopReturns(k) ==
  /\ call[k].at = "stop"
  /\ stage[call[k].trace] = "done"
  /\ call' = [call EXCEPT ![k].at = "done", ![k].result = events[call[k].trace]]
  /\ UNCHANGED <<timed, starter, server, traces, cancelled, drainer, polled, events, stage,
                 running, stream, history, faults>>

(* Registry.GC; which of the stopped traces are old enough is left open.   *)
GC ==
  /\ \E old \in (SUBSET {t \in traces : t \notin running}) \ {{}} : traces' = traces \ old
  /\ UNCHANGED <<timed, starter, server, cancelled, drainer, polled, events, stage, running,
                 call, stream, history, faults>>

-----------------------------------------------------------------------------
(* httpTraceStream. *)

(* Mutant: the event with the key is sent again.                           *)
EventsSince_Inclusive(t, key) ==
  LET found == {i \in DOMAIN events[t] : events[t][i] = key}
  IN IF found = {} THEN events[t]
     ELSE SubSeq(events[t], CHOOSE i \in found : TRUE, Len(events[t]))

(* EventsSince: what follows the event with the key, everything when there *)
(* is no such event.                                                       *)
EventsSince(t, key) ==
  LET found == {i \in DOMAIN events[t] : events[t][i] = key}
  IN IF found = {} THEN events[t]
     ELSE SubSeq(events[t], (CHOOSE i \in found : TRUE) + 1, Len(events[t]))

(* A client that saw some events already asks for those since.             *)
OpenStream(s, t) ==
  /\ stream[s].at = "idle"
  /\ t \in traces
  /\ \E key \in {0} \union ToSet(events[t]) :
       stream' = [stream EXCEPT ![s].trace = t, ![s].since = key, ![s].at = "drain"]
  /\ UNCHANGED <<timed, starter, server, traces, cancelled, drainer, polled, events, stage,
                 running, call, history, faults>>

LastKey(s) == IF stream[s].sent = <<>> THEN stream[s].since ELSE Last(stream[s].sent)

SendEvents(s) ==
  /\ stream[s].at = "drain"
  /\ stream' = [stream EXCEPT ![s].sent = @ \o EventsSince(stream[s].trace, LastKey(s)),
                              ![s].at = "check"]
  /\ UNCHANGED <<timed, starter, server, traces, cancelled, drainer, polled, events, stage,
                 running, call, history, faults>>

(* Mutant: the stream does not ask whether the trace runs.                 *)
CheckRunning_Never(s) ==
  /\ stream[s].at = "check"
  /\ stream' = [stream EXCEPT ![s].at = "wait"]
  /\ UNCHANGED <<timed, starter, server, traces, cancelled, drainer, polled, events, stage,
                 running, call, history, faults>>

(* Running takes the lock anew; a trace that is not running is done.       *)
CheckRunning(s) ==
  /\ stream[s].at = "check"
  /\ stream' = [stream EXCEPT ![s].at = IF stream[s].trace \in running THEN "wait" ELSE "done"]
  /\ UNCHANGED <<timed, starter, server, traces, cancelled, drainer, polled, events, stage,
                 running, call, history, faults>>

StreamTick(s) ==
  /\ stream[s].at = "wait"
  /\ stream' = [stream EXCEPT ![s].at = "drain"]
  /\ UNCHANGED <<timed, starter, server, traces, cancelled, drainer, polled, events, stage,
                 running, call, history, faults>>

Disconnect(s) ==
  /\ stream[s].at = "wait"
  /\ stream' = [stream EXCEPT ![s].at = "gone"]
  /\ UNCHANGED <<timed, starter, server, traces, cancelled, drainer, polled, events, stage,
                 running, call, history, faults>>

-----------------------------------------------------------------------------
(* External: the server captures an event; the ring buffer forgets the     *)
(* oldest.                                                                 *)
Capture(t) ==
  /\ session[t] = "started"
  /\ captured[t] < MaxCaptured
  /\ captured' = [captured EXCEPT ![t] = @ + 1]
  /\ LET full == Append(ring[t], captured[t] + 1)
     IN ring' = [ring EXCEPT ![t] = IF Len(full) > RingSize THEN Tail(full) ELSE full]
  /\ UNCHANGED <<timed, starter, session, traces, cancelled, drainer, polled, events, stage,
                 running, call, stream, history, faults>>

Starter(t) == CreateSession(t) \/ StartSession(t) \/ Register(t)
Drainer(t) == Poll(t) \/ FinalPoll(t) \/ Deliver(t) \/ DrainReturns(t)
Stopping(t) == StopBegins(t) \/ DropSession(t) \/ MarkStopped(t)
Tailing(s) == SendEvents(s) \/ CheckRunning(s) \/ StreamTick(s)

Next ==
  \/ \E t \in Traces : Starter(t) \/ Drainer(t) \/ Stopping(t) \/ Expire(t) \/ Capture(t)
  \/ \E k \in Clients : StopReturns(k) \/ \E t \in Traces : StopTrace(k, t) \/ DeleteTrace(k, t)
  \/ \E s \in Streams : Tailing(s) \/ Disconnect(s) \/ \E t \in Traces : OpenStream(s, t)
  \/ GC

Spec == Init /\ [][Next]_vars

(* Timers fire, goroutines and handlers run, statements return: Drop and   *)
(* the polls have a timeout of ten seconds.                                *)
Fairness ==
  /\ \A t \in Traces :
       WF_vars(Drainer(t)) /\ WF_vars(Stopping(t)) /\ WF_vars(Expire(t))
  /\ \A s \in Streams : WF_vars(Tailing(s))

FairSpec == Spec /\ Fairness

-----------------------------------------------------------------------------
(* No event session is left behind on the server: it belongs to a start    *)
(* that goes on or to a trace whose drain or stop will drop it, whatever   *)
(* the order of stop, delete, GC, expiry and the end of the drain, unless  *)
(* the server refused or cut off the very CREATE or DROP (registry.go:      *)
(* 105-122, 207-212, 272-286, xetrace.go:62-64).                           *)
SessionHasOwner ==
  \A t \in Traces :
    session[t] # "none" =>
      \/ starter[t] \in {"alter", "register"}
      \/ t \in running /\ drainer[t] # "done" /\ stage[t] # "mark"
      \/ t \in doubtful

(* Every event is kept once and in the order of its capture, although the  *)
(* polls of the ring buffer overlap (drain.go:14-39).                      *)
EventsInOrder ==
  \A t \in Traces : \A i, j \in DOMAIN events[t] : i < j => events[t][i] < events[t][j]

(* What a stream sends is a gapless part of the buffer, from the event     *)
(* after the one it was asked for: nothing is sent twice or skipped while  *)
(* the drain appends (registry.go:66-84, http.go:79-98).                   *)
StreamIsGapless ==
  \A s \in Streams : stream[s].trace # NoTrace =>
    LET buffer == events[stream[s].trace]
        start == Cardinality({i \in DOMAIN buffer : buffer[i] <= stream[s].since})
    IN IsPrefix(stream[s].sent, SubSeq(buffer, start + 1, Len(buffer)))

(* A trace that was started with a Duration stops by itself, and so does   *)
(* any trace, timed or not, whose drain has ended: by a poll that failed,  *)
(* for one (registry.go:207-223).                                          *)
TimedTraceStops ==
  \A t \in Traces :
    (drainer[t] # "none" /\ t \in timed) \/ drainer[t] \in {"stop", "done"}
      ~> drainer[t] = "done" /\ t \notin running

(* A stream of a stopped trace ends.                                       *)
StreamEnds ==
  \A s \in Streams :
    stream[s].at # "idle" /\ stream[s].trace \notin running ~> stream[s].at \in {"done", "gone"}

(* drain.go:14-17: "It keeps running until ctx is cancelled, then performs *)
(* a final drain so late-arriving events captured right before             *)
(* cancellation are not lost."                                             *)
LateEventsAreKept ==
  \A t \in Traces : drainer[t] = "done" => lastRing[t] \subseteq ToSet(events[t])
=============================================================================
