--------------------------- MODULE GadgetSessions ---------------------------
(***************************************************************************)
(* The inspektor-gadget plugin: trace sessions (inspektor-gadget/ops.go,   *)
(* session.go, runner_grpc.go, http.go).  trace-start registers a session  *)
(* whose goroutine runs the gadget on one node after the other; a receiver *)
(* goroutine per node puts the events into a bounded buffer and a bounded  *)
(* channel, which streams read; trace-stop cancels the run's context.      *)
(*                                                                         *)
(* Actions are the critical sections of the session's and the registry's   *)
(* mutex, the operations on channels and the calls to the gadget service.  *)
(* An event is named by its sequence number; those that eventMatchesTarget *)
(* filters out have no effect and are left out.                            *)
(***************************************************************************)
EXTENDS Naturals, Sequences, FiniteSets, SequencesExt

CONSTANTS Sessions,     \* calls of trace-start
          Streams,      \* HTTP requests for a session's events
          Nodes,        \* nodes a session's target has pods on
          MaxSessions,  \* settings.MaxSessions
          MaxEvents,    \* settings.MaxEvents, the bound of the buffer
          Capacity,     \* capacity of the events channel (256 in the code)
          MaxEmitted,   \* bound on the events a session receives
          NoSession

ASSUME BoundsAssumption ==
  /\ Nodes \in Nat \ {0} /\ MaxEvents \in Nat \ {0}
  /\ {MaxSessions, Capacity, MaxEmitted} \subseteq Nat

VARIABLES
  starter,     \* starter[s]: the handler of trace-start
  state,       \* TraceSession.State; "none" before the session is added
  cancelling,  \* sessions that a trace-stop has marked and not yet cancelled
  ctxDone,     \* ctxDone[s]: the run's context is done
  worker,      \* worker[s]: where the goroutine of session s is
  node,        \* node[s]: the node it is at
  failed,      \* failed[s]: runGadgetOnTarget returned an error
  receiver,    \* receiver[s]: where receiveGadgetEvents is on that node
  answer,      \* answer[s]: the done channel of that node
  seq,         \* TraceSession.seq
  buffer,      \* TraceSession.buffer
  channel,     \* TraceSession.events
  closed,      \* closed[s]: the channel is closed
  stream,      \* stream[k]: the stream k reads
  panicked,    \* a send on a closed channel has ended the process
  overflow,    \* events dropped because the channel was full (history)
  gaveUp,      \* sessions whose stop was not confirmed in time (history)
  traced       \* traced[s]: the nodes whose gadget ended well (history)

registry == <<starter, state, cancelling>>
run == <<ctxDone, worker, node, failed>>
grpc == <<receiver, answer>>
events == <<seq, buffer, channel, closed>>
history == <<overflow, gaveUp, traced>>
vars == <<starter, state, cancelling, ctxDone, worker, node, failed, receiver, answer,
          seq, buffer, channel, closed, stream, panicked, overflow, gaveUp, traced>>

States == {"none", "starting", "running", "stopped", "completed", "failed"}
WorkerPoints == {"none", "spawned", "list", "dial", "trace", "stopping", "mark", "done"}

TypeOK ==
  /\ starter \in [Sessions -> {"idle", "admitted", "done"}]
  /\ state \in [Sessions -> States]
  /\ cancelling \in SUBSET Sessions
  /\ ctxDone \in [Sessions -> BOOLEAN]
  /\ worker \in [Sessions -> WorkerPoints]
  /\ node \in [Sessions -> 1 .. Nodes]
  /\ failed \in [Sessions -> BOOLEAN]
  /\ receiver \in [Sessions -> {"none", "recv", "got", "send"}]
  /\ answer \in [Sessions -> {"none", "ok", "error"}]
  /\ seq \in [Sessions -> Nat]
  /\ buffer \in [Sessions -> Seq(Nat)]
  /\ channel \in [Sessions -> Seq(Nat)]
  /\ closed \in [Sessions -> BOOLEAN]
  /\ stream \in [Streams -> [session : Sessions \union {NoSession}, snapshot : Seq(Nat),
                             live : Seq(Nat), at : {"idle", "live", "done", "gone"}]]
  /\ panicked \in BOOLEAN
  /\ overflow \in [Sessions -> SUBSET Nat]
  /\ gaveUp \in SUBSET Sessions
  /\ traced \in [Sessions -> SUBSET (1 .. Nodes)]
  /\ \A s \in Sessions : Len(buffer[s]) <= MaxEvents /\ Len(channel[s]) <= Capacity

Init ==
  /\ starter = [s \in Sessions |-> "idle"]
  /\ state = [s \in Sessions |-> "none"]
  /\ cancelling = {}
  /\ ctxDone = [s \in Sessions |-> FALSE]
  /\ worker = [s \in Sessions |-> "none"]
  /\ node = [s \in Sessions |-> 1]
  /\ failed = [s \in Sessions |-> FALSE]
  /\ receiver = [s \in Sessions |-> "none"]
  /\ answer = [s \in Sessions |-> "none"]
  /\ seq = [s \in Sessions |-> 0]
  /\ buffer = [s \in Sessions |-> <<>>]
  /\ channel = [s \in Sessions |-> <<>>]
  /\ closed = [s \in Sessions |-> FALSE]
  /\ stream = [k \in Streams |-> [session |-> NoSession, snapshot |-> <<>>, live |-> <<>>,
                                  at |-> "idle"]]
  /\ panicked = FALSE
  /\ overflow = [s \in Sessions |-> {}]
  /\ gaveUp = {}
  /\ traced = [s \in Sessions |-> {}]

Goto(s, p) == worker' = [worker EXCEPT ![s] = p]

-----------------------------------------------------------------------------
(* trace-start. *)

(* RunningCount counts the sessions that are starting or running.          *)
Counted == {s \in Sessions : state[s] \in {"starting", "running"}}

(* The limit is checked before the target is resolved, which may fail.     *)
Admit(s) ==
  /\ starter[s] = "idle"
  /\ starter' = [starter EXCEPT ![s] = IF Cardinality(Counted) < MaxSessions THEN "admitted"
                                       ELSE "done"]
  /\ UNCHANGED <<state, cancelling, run, grpc, events, stream, history>>

Refuse(s) ==
  /\ starter[s] = "admitted"
  /\ starter' = [starter EXCEPT ![s] = "done"]
  /\ UNCHANGED <<state, cancelling, run, grpc, events, stream, history>>

AddSession(s) ==
  /\ starter[s] = "admitted"
  /\ starter' = [starter EXCEPT ![s] = "done"]
  /\ state' = [state EXCEPT ![s] = "starting"]
  /\ Goto(s, "spawned")
  /\ UNCHANGED <<cancelling, ctxDone, node, failed, grpc, events, stream, history>>

-----------------------------------------------------------------------------
(* trace-stop: Stop sets the state under the lock and cancels then. *)

StopMarks(s) ==
  /\ state[s] # "none"
  /\ state' = [state EXCEPT ![s] = "stopped"]
  /\ cancelling' = cancelling \union {s}
  /\ UNCHANGED <<starter, run, grpc, events, stream, history>>

StopCancels(s) ==
  /\ s \in cancelling
  /\ cancelling' = cancelling \ {s}
  /\ ctxDone' = [ctxDone EXCEPT ![s] = TRUE]
  /\ UNCHANGED <<starter, state, worker, node, failed, grpc, events, stream, history>>

(* The timeout of the requested duration, which the goroutine sets.        *)
Expire(s) ==
  /\ worker[s] \notin {"none", "spawned", "done"}
  /\ ~ctxDone[s]
  /\ ctxDone' = [ctxDone EXCEPT ![s] = TRUE]
  /\ UNCHANGED <<registry, worker, node, failed, grpc, events, stream, history>>

-----------------------------------------------------------------------------
(* The goroutine of a session: MarkRunning, Run, MarkDone. *)

MarkRunning(s) ==
  /\ worker[s] = "spawned"
  /\ state' = [state EXCEPT ![s] = "running"]
  /\ Goto(s, "list")
  /\ UNCHANGED <<starter, cancelling, ctxDone, node, failed, grpc, events, stream, history>>

(* gadgetServiceTargets: one pod of the gadget service on each node.       *)
ListTargets(s) ==
  /\ worker[s] = "list"
  /\ \/ ~ctxDone[s] /\ Goto(s, "dial") /\ UNCHANGED failed
     \/ Goto(s, "mark") /\ failed' = [failed EXCEPT ![s] = TRUE]
  /\ UNCHANGED <<registry, ctxDone, node, grpc, events, stream, history>>

(* Mutant: an error ends the run without being returned.                   *)
NextNode_LosesError(s, error) ==
  /\ IF node[s] < Nodes
     THEN Goto(s, "dial") /\ node' = [node EXCEPT ![s] = @ + 1]
     ELSE Goto(s, "mark") /\ UNCHANGED node
  /\ failed' = [failed EXCEPT ![s] = error]

(* Run goes on with the next node, whatever happened on this one.          *)
NextNode(s, error) ==
  /\ IF node[s] < Nodes
     THEN Goto(s, "dial") /\ node' = [node EXCEPT ![s] = @ + 1]
     ELSE Goto(s, "mark") /\ UNCHANGED node
  /\ failed' = [failed EXCEPT ![s] = @ \/ error]

(* dialGadgetService, RunGadget and the run request; the dial fails when   *)
(* the context is done.                                                    *)
OpenStream(s) ==
  /\ worker[s] = "dial"
  /\ \/ /\ ~ctxDone[s]
        /\ Goto(s, "trace")
        /\ receiver' = [receiver EXCEPT ![s] = "recv"]
        /\ answer' = [answer EXCEPT ![s] = "none"]
        /\ UNCHANGED <<node, failed>>
     \/ NextNode(s, TRUE) /\ UNCHANGED grpc
  /\ UNCHANGED <<registry, ctxDone, events, stream, history>>

(* The receiver has sent its verdict.                                      *)
Answered(s) ==
  /\ worker[s] \in {"trace", "stopping"}
  /\ answer[s] # "none"
  /\ NextNode(s, answer[s] = "error")
  /\ traced' = IF answer[s] = "ok" THEN [traced EXCEPT ![s] = @ \union {node[s]}] ELSE traced
  /\ UNCHANGED <<registry, ctxDone, grpc, events, stream, overflow, gaveUp>>

(* Mutant: the run does not wait for the stop to be confirmed.             *)
RequestStop_NoWait(s) ==
  /\ worker[s] = "trace"
  /\ ctxDone[s]
  /\ NextNode(s, FALSE)
  /\ UNCHANGED <<registry, ctxDone, grpc, events, stream, history>>

(* The context is done: the gadget service is asked to stop.               *)
RequestStop(s) ==
  /\ worker[s] = "trace"
  /\ ctxDone[s]
  /\ Goto(s, "stopping")
  /\ UNCHANGED <<registry, ctxDone, node, failed, grpc, events, stream, history>>

(* Mutant: no limit on the wait.                                           *)
GiveUp_Never(s) == FALSE /\ worker[s] = "stopping"

(* gadgetStopWaitLimit                                                     *)
GiveUp(s) ==
  /\ worker[s] = "stopping"
  /\ answer[s] = "none"
  /\ NextNode(s, TRUE)
  /\ gaveUp' = gaveUp \union {s}
  /\ UNCHANGED <<registry, ctxDone, grpc, events, stream, overflow, traced>>

(* Mutant: a stopped session keeps its channel open.                       *)
MarkDone_NoClose(s) ==
  /\ worker[s] = "mark"
  /\ Goto(s, "done")
  /\ state' = [state EXCEPT ![s] = IF failed[s] THEN "failed"
                                   ELSE IF @ = "stopped" THEN @ ELSE "completed"]
  /\ closed' = [closed EXCEPT ![s] = state[s] # "stopped"]
  /\ UNCHANGED <<starter, cancelling, ctxDone, node, failed, grpc, seq, buffer, channel,
                 stream, history>>

(* Mutant: MarkDone returns when the state is no longer running.           *)
MarkDone_KeepsState(s) ==
  /\ worker[s] = "mark"
  /\ Goto(s, "done")
  /\ state' = [state EXCEPT ![s] = IF ctxDone[s] THEN @ ELSE "completed"]
  /\ closed' = [closed EXCEPT ![s] = TRUE]
  /\ UNCHANGED <<starter, cancelling, ctxDone, node, failed, grpc, seq, buffer, channel,
                 stream, history>>

MarkDone(s) ==
  /\ worker[s] = "mark"
  /\ Goto(s, "done")
  /\ state' = [state EXCEPT ![s] = IF failed[s] THEN "failed"
                                   ELSE IF @ = "stopped" THEN @ ELSE "completed"]
  /\ closed' = [closed EXCEPT ![s] = TRUE]
  /\ UNCHANGED <<starter, cancelling, ctxDone, node, failed, grpc, seq, buffer, channel,
                 stream, history>>

-----------------------------------------------------------------------------
(* receiveGadgetEvents and AddEvent. *)

(* The stream is closed when runGadgetOnTarget has returned.               *)
StreamOpen(s) == worker[s] \in {"trace", "stopping"}

(* Recv returns an event.                                                  *)
Receive(s) ==
  /\ receiver[s] = "recv"
  /\ StreamOpen(s)
  /\ seq[s] < MaxEmitted
  /\ receiver' = [receiver EXCEPT ![s] = "got"]
  /\ UNCHANGED <<registry, run, answer, events, stream, history>>

(* Recv returns the end of the gadget, or an error, which it does at the   *)
(* latest when the stream is closed.  The verdict goes to a channel that   *)
(* nobody reads any more in that case.                                     *)
ReceiverEnds(s) ==
  /\ receiver[s] = "recv"
  /\ receiver' = [receiver EXCEPT ![s] = "none"]
  /\ IF StreamOpen(s) THEN \E v \in {"ok", "error"} : answer' = [answer EXCEPT ![s] = v]
     ELSE UNCHANGED answer
  /\ UNCHANGED <<registry, run, events, stream, history>>

(* Mutant: the window is trimmed one event too late.                       *)
Trim_Late(q) == IF Len(q) > MaxEvents + 1 THEN SubSeq(q, Len(q) - MaxEvents + 1, Len(q)) ELSE q

(* Mutant: the oldest events are kept instead of the newest.               *)
Trim_Newest(q) == SubSeq(q, 1, IF Len(q) > MaxEvents THEN MaxEvents ELSE Len(q))

(* The last MaxEvents events.                                              *)
Trim(q) == IF Len(q) > MaxEvents THEN SubSeq(q, Len(q) - MaxEvents + 1, Len(q)) ELSE q

(* AddEvent, under the lock: number the event and buffer it.               *)
Buffer(s) ==
  /\ receiver[s] = "got"
  /\ seq' = [seq EXCEPT ![s] = @ + 1]
  /\ buffer' = [buffer EXCEPT ![s] = Trim(Append(@, seq[s] + 1))]
  /\ receiver' = [receiver EXCEPT ![s] = "send"]
  /\ UNCHANGED <<registry, run, answer, channel, closed, stream, history>>

(* A packet may hold several events; then Recv is called again.            *)
AfterSend(s) ==
  \/ receiver' = [receiver EXCEPT ![s] = "recv"]
  \/ seq[s] < MaxEmitted /\ receiver' = [receiver EXCEPT ![s] = "got"]

(* Mutant: an event replaces the oldest one of a full channel.             *)
Send_ReplacesOldest(s) ==
  /\ receiver[s] = "send"
  /\ AfterSend(s)
  /\ panicked' = closed[s]
  /\ channel' = IF closed[s] THEN channel
                ELSE IF Len(channel[s]) < Capacity THEN [channel EXCEPT ![s] = Append(@, seq[s])]
                ELSE [channel EXCEPT ![s] = Append(Tail(@), seq[s])]
  /\ UNCHANGED <<registry, run, answer, seq, buffer, closed, stream, history>>

(* AddEvent, without the lock: a full channel drops the event, a closed    *)
(* one ends the process.                                                   *)
Send(s) ==
  /\ receiver[s] = "send"
  /\ AfterSend(s)
  /\ panicked' = closed[s]
  /\ \/ closed[s] /\ UNCHANGED <<channel, overflow>>
     \/ /\ ~closed[s] /\ Len(channel[s]) < Capacity
        /\ channel' = [channel EXCEPT ![s] = Append(@, seq[s])]
        /\ UNCHANGED overflow
     \/ /\ ~closed[s] /\ Len(channel[s]) = Capacity
        /\ overflow' = [overflow EXCEPT ![s] = @ \union {seq[s]}]
        /\ UNCHANGED channel
  /\ UNCHANGED <<registry, run, answer, seq, buffer, closed, stream, gaveUp, traced>>

-----------------------------------------------------------------------------
(* streamSessionEvents: the buffer first, the channel then. *)

OpenEvents(k, s) ==
  /\ stream[k].at = "idle"
  /\ state[s] # "none"
  /\ stream' = [stream EXCEPT ![k] = [session |-> s, snapshot |-> buffer[s], live |-> <<>>,
                                      at |-> "live"]]
  /\ UNCHANGED <<registry, run, grpc, events, history>>

TakeEvent(k) ==
  /\ stream[k].at = "live"
  /\ LET s == stream[k].session
     IN /\ channel[s] # <<>>
        /\ stream' = [stream EXCEPT ![k].live = Append(@, Head(channel[s]))]
        /\ channel' = [channel EXCEPT ![s] = Tail(@)]
  /\ UNCHANGED <<registry, run, grpc, seq, buffer, closed, history>>

(* Mutant: the stream ends as soon as the channel is closed.               *)
StreamDone_Early(k) ==
  /\ stream[k].at = "live"
  /\ closed[stream[k].session]
  /\ stream' = [stream EXCEPT ![k].at = "done"]
  /\ UNCHANGED <<registry, run, grpc, events, history>>

(* A closed channel is read to its end first.                              *)
StreamDone(k) ==
  /\ stream[k].at = "live"
  /\ closed[stream[k].session]
  /\ channel[stream[k].session] = <<>>
  /\ stream' = [stream EXCEPT ![k].at = "done"]
  /\ UNCHANGED <<registry, run, grpc, events, history>>

Disconnect(k) ==
  /\ stream[k].at = "live"
  /\ stream' = [stream EXCEPT ![k].at = "gone"]
  /\ UNCHANGED <<registry, run, grpc, events, history>>

-----------------------------------------------------------------------------
Starter(s) == Admit(s) \/ Refuse(s) \/ AddSession(s)
Runner(s) ==
  \/ MarkRunning(s) \/ ListTargets(s) \/ OpenStream(s) \/ Answered(s)
  \/ RequestStop(s) \/ GiveUp(s) \/ MarkDone(s)
Receiver(s) == Receive(s) \/ ReceiverEnds(s) \/ Buffer(s)
Reader(k) == TakeEvent(k) \/ StreamDone(k)

(* A panic in any goroutine ends the process.                              *)
Next ==
  /\ ~panicked
  /\ \/ \E s \in Sessions : Send(s)
     \/ /\ UNCHANGED panicked
        /\ \/ \E s \in Sessions :
                Starter(s) \/ StopMarks(s) \/ StopCancels(s) \/ Expire(s) \/ Runner(s) \/ Receiver(s)
           \/ \E k \in Streams :
                Reader(k) \/ Disconnect(k) \/ \E s \in Sessions : OpenEvents(k, s)

Spec == Init /\ [][Next]_vars

(* The scheduler runs every goroutine and the timers fire.  The gadget     *)
(* service need not send or confirm anything, but its stream ends when the *)
(* run has closed it.  No client is obliged to call.                       *)
Fairness ==
  /\ \A s \in Sessions :
       /\ WF_vars(Runner(s) /\ UNCHANGED panicked)
       /\ WF_vars(Expire(s) /\ UNCHANGED panicked)
       /\ WF_vars(StopCancels(s) /\ UNCHANGED panicked)
       /\ WF_vars((Buffer(s) \/ (~StreamOpen(s) /\ ReceiverEnds(s))) /\ UNCHANGED panicked)
       /\ WF_vars(Send(s))
  /\ \A k \in Streams : WF_vars(Reader(k) /\ UNCHANGED panicked)

FairSpec == Spec /\ Fairness

-----------------------------------------------------------------------------
(* Properties *)

(* The limit is not used up by dead sessions: one that is counted against  *)
(* MaxSessions still has the goroutine that will end it, also when a stop  *)
(* came before MarkRunning or between its error and MarkDone               *)
(* (session.go:169-196, 245-256).                                          *)
CountedSessionIsLive == \A s \in Counted : worker[s] \notin {"none", "done"}

(* The buffer holds the latest events, without a gap, up to the bound      *)
(* ("keeps only the bounded event window", session.go:109-128).            *)
BufferIsWindow ==
  \A s \in Sessions :
    LET size == IF seq[s] < MaxEvents THEN seq[s] ELSE MaxEvents
    IN buffer[s] = [i \in 1 .. size |-> seq[s] - size + i]

(* A stream that says it is done has sent every event of the session that  *)
(* was not dropped at a full channel or taken by another stream, whenever  *)
(* it was opened (http.go:106-120).                                        *)
DoneStreamIsAccounted ==
  \A k \in Streams : stream[k].at = "done" /\ ~panicked =>
    LET s == stream[k].session
        taken == UNION {ToSet(stream[j].live) : j \in {i \in Streams : stream[i].session = s}}
    IN \A e \in 1 .. seq[s] :
         \/ e \in ToSet(stream[k].snapshot) \union taken \union overflow[s]
         \/ e = seq[s] /\ receiver[s] = "send"

(* The channel is closed under a sender only when the gadget service did   *)
(* not confirm a stop in time: otherwise the receiver has ended before     *)
(* MarkDone closes the channel (runner_grpc.go:118-131, session.go:186).   *)
PanicNeedsGiveUp == panicked => gaveUp # {}

(* A session is reported as completed only when its gadget ran to a good   *)
(* end on every node: the errors of the nodes are joined, and a run that   *)
(* was cut off fails on the nodes it did not reach (runner_grpc.go:76-82). *)
CompletedTracedAllNodes ==
  \A s \in Sessions : state[s] = "completed" => traced[s] = 1 .. Nodes

(* A trace is bounded: the goroutine of a session ends, whatever the       *)
(* gadget service does (ops.go:140-152, gadgetStopWaitLimit), and then the  *)
(* streams that follow the session say that it is done (http.go:114-118).   *)
WorkEnds ==
  /\ \A s \in Sessions : worker[s] = "spawned" ~> worker[s] = "done" \/ panicked
  /\ \A k \in Streams :
       stream[k].at = "live" ~> stream[k].at \in {"done", "gone"} \/ panicked
=============================================================================
