------------------------- MODULE GadgetSessions_proofs -------------------------
(***************************************************************************)
(* Proofs about GadgetSessions for every number of sessions, streams and   *)
(* nodes and every bound: counted sessions are live, the buffer is the     *)
(* window of the latest events, a finished stream has accounted for every  *)
(* event, a completed session traced every node, and only a stop that was  *)
(* not confirmed in time can lead to a send on a closed channel.           *)
(***************************************************************************)
EXTENDS GadgetSessions, SequenceFacts, FiniteSetTheorems, SequenceTheorems, TLAPS

-----------------------------------------------------------------------------
(* The inductive invariant. *)

(* A session's state follows its goroutine, and a stop its context.        *)
LifeOf(s) ==
  /\ starter[s] # "done" => worker[s] = "none"
  /\ (state[s] = "none" <=> worker[s] = "none")
  /\ state[s] \in {"starting", "running"} => worker[s] # "done"
  /\ closed[s] => worker[s] = "done"
  /\ worker[s] = "stopping" \/ s \in gaveUp => ctxDone[s]

(* The receiver of a node ends before the run leaves the node, unless the  *)
(* run gave up on it.                                                      *)
ReceiverOf(s) ==
  receiver[s] # "none" =>
    s \in gaveUp \/ (StreamOpen(s) /\ answer[s] = "none")

(* A run without an error has traced the nodes it has left.                *)
NodesOf(s) ==
  /\ worker[s] \in {"none", "spawned", "list"} => node[s] = 1 /\ traced[s] = {} /\ ~failed[s]
  /\ worker[s] \in {"dial", "trace", "stopping"} /\ ~failed[s] => traced[s] = 1 .. node[s] - 1
  /\ worker[s] = "mark" /\ ~failed[s] => traced[s] = 1 .. Nodes
  /\ state[s] = "completed" => worker[s] = "done" /\ traced[s] = 1 .. Nodes

Window(n) ==
  LET size == IF n < MaxEvents THEN n ELSE MaxEvents
  IN [i \in 1 .. size |-> n - size + i]

(* An event is in the channel, was taken or dropped, or is about to be     *)
(* sent.                                                                   *)
Taken(s) == UNION {ToSet(stream[k].live) : k \in {j \in Streams : stream[j].session = s}}
EventsOf(s) ==
  ~panicked =>
    \A e \in 1 .. seq[s] :
      \/ e \in ToSet(channel[s]) \union Taken(s) \union overflow[s]
      \/ e = seq[s] /\ receiver[s] = "send"

(* A stream that is done has emptied a channel that was closed.            *)
StreamOf(k) ==
  /\ stream[k].at = "idle" => stream[k].live = <<>>
  /\ stream[k].at # "idle" => stream[k].session \in Sessions
  /\ stream[k].at = "done" =>
       closed[stream[k].session] /\ channel[stream[k].session] = <<>>

SessionInv(s) == LifeOf(s) /\ ReceiverOf(s) /\ NodesOf(s) /\ buffer[s] = Window(seq[s]) /\ EventsOf(s)

IInv ==
  /\ TypeOK
  /\ \A s \in Sessions : SessionInv(s)
  /\ \A k \in Streams : StreamOf(k)
  /\ PanicNeedsGiveUp

LEMMA ToSetIsElements == \A q : ToSet(q) = Elements(q)
BY DEF ToSet, Elements

-----------------------------------------------------------------------------
(* The bounded window. *)

LEMMA WindowIsNewest ==
  ASSUME NEW n \in Nat
  PROVE  Window(n) = Newest([i \in Nat |-> i], MaxEvents, n)
<1> DEFINE size == IF n < MaxEvents THEN n ELSE MaxEvents
<1>1. size \in Nat /\ size <= n BY BoundsAssumption
<1> HIDE DEF size
<1>2. \A i \in 1 .. size : n - size + i \in Nat BY <1>1
<1>3. [i \in 1 .. size |-> n - size + i] = [i \in 1 .. size |-> [j \in Nat |-> j][n - size + i]]
  BY <1>2
<1>4. QED BY <1>3 DEF Window, Newest, size

LEMMA WindowIsSeq ==
  ASSUME NEW n \in Nat
  PROVE  /\ Window(n) \in Seq(Nat) /\ Len(Window(n)) = IF n < MaxEvents THEN n ELSE MaxEvents
         /\ \A i \in 1 .. Len(Window(n)) : Window(n)[i] = n - Len(Window(n)) + i
<1> DEFINE f == [i \in Nat |-> i]
           w == Newest(f, MaxEvents, n)
<1>1. f \in [Nat -> Nat] /\ \A i \in Nat : f[i] = i OBVIOUS
<1> HIDE DEF f
<1>2. MaxEvents \in Nat \ {0} BY BoundsAssumption
<1>3. /\ w \in Seq(Nat) /\ Len(w) = IF n < MaxEvents THEN n ELSE MaxEvents
      /\ \A i \in 1 .. Len(w) : w[i] = f[n - Len(w) + i]
  BY <1>1, <1>2, NewestIsSeq, NewestPlaces
<1> HIDE DEF w
<1>4. \A i \in 1 .. Len(w) : n - Len(w) + i \in Nat BY <1>2, <1>3
<1>5. QED BY <1>1, <1>3, <1>4, WindowIsNewest DEF f, w

(* Appending the next event and trimming gives the next window.            *)
LEMMA WindowMoves ==
  ASSUME NEW n \in Nat
  PROVE  Trim(Append(Window(n), n + 1)) = Window(n + 1)
<1> DEFINE f == [i \in Nat |-> i]
<1>1. f \in [Nat -> Nat] /\ f[n + 1] = n + 1 /\ n + 1 \in Nat OBVIOUS
<1>2. Window(n) = Newest(f, MaxEvents, n) /\ Window(n + 1) = Newest(f, MaxEvents, n + 1)
  BY <1>1, WindowIsNewest
<1> HIDE DEF f
<1>3. \A q : Trim(q) = KeepNewest(q, MaxEvents) BY DEF Trim, KeepNewest
<1>4. KeepNewest(Append(Newest(f, MaxEvents, n), f[n + 1]), MaxEvents) = Newest(f, MaxEvents, n + 1)
  <2>1. MaxEvents \in Nat \ {0} BY BoundsAssumption
  <2>2. QED BY <1>1, <2>1, NewestMoves, Zenon
<1>5. QED BY <1>1, <1>2, <1>3, <1>4

-----------------------------------------------------------------------------
(* The inductive invariant holds initially; what a session's step leaves   *)
(* alone.                                                                  *)

LEMMA InitIInv == Init => IInv
<1> SUFFICES ASSUME Init PROVE IInv
  OBVIOUS
<1>1. Nodes \in Nat \ {0} /\ MaxEvents \in Nat \ {0} /\ Capacity \in Nat
  BY BoundsAssumption
<1>2. \A K : <<>> \in Seq(K) /\ Len(<<>>) = 0 BY EmptySeq
<1>3. TypeOK
  <2>1. /\ node \in [Sessions -> 1 .. Nodes]
        /\ \A s \in Sessions : Len(buffer[s]) <= MaxEvents /\ Len(channel[s]) <= Capacity
    BY <1>1, <1>2 DEF Init
  <2>2. buffer \in [Sessions -> Seq(Nat)] /\ channel \in [Sessions -> Seq(Nat)]
    BY <1>2 DEF Init
  <2>3. stream \in [Streams -> [session : Sessions \union {NoSession}, snapshot : Seq(Nat),
                                live : Seq(Nat), at : {"idle", "live", "done", "gone"}]]
    BY <1>2 DEF Init
  <2>4. QED BY <2>1, <2>2, <2>3 DEF Init, TypeOK, States, WorkerPoints
<1>4. ASSUME NEW s \in Sessions PROVE SessionInv(s)
  <2>1. LifeOf(s) /\ ReceiverOf(s) /\ NodesOf(s)
    BY DEF Init, LifeOf, ReceiverOf, NodesOf
  <2>2. buffer[s] = Window(seq[s])
    <3>1. Window(0) \in Seq(Nat) /\ Len(Window(0)) = 0 BY <1>1, WindowIsSeq
    <3>2. Window(0) = <<>> BY <3>1, EmptySeq
    <3>3. QED BY <3>2 DEF Init
  <2>3. EventsOf(s) BY DEF Init, EventsOf
  <2>4. QED BY <2>1, <2>2, <2>3 DEF SessionInv
<1>5. ASSUME NEW k \in Streams PROVE StreamOf(k) BY DEF Init, StreamOf
<1>6. QED BY <1>3, <1>4, <1>5 DEF IInv, Init, PanicNeedsGiveUp

Same(u) ==
  /\ starter'[u] = starter[u] /\ state'[u] = state[u] /\ ctxDone'[u] = ctxDone[u]
  /\ worker'[u] = worker[u] /\ node'[u] = node[u] /\ failed'[u] = failed[u]
  /\ receiver'[u] = receiver[u] /\ answer'[u] = answer[u]
  /\ seq'[u] = seq[u] /\ buffer'[u] = buffer[u]
  /\ closed'[u] = closed[u] /\ traced'[u] = traced[u] /\ overflow'[u] = overflow[u]
  /\ (u \in gaveUp' <=> u \in gaveUp)

LEMMA OtherSession ==
  ASSUME IInv, ~panicked, NEW u \in Sessions, Same(u),
         ToSet(channel[u]) \union Taken(u) \subseteq ToSet(channel'[u]) \union Taken(u)'
  PROVE  SessionInv(u)'
<1>1. SessionInv(u) BY DEF IInv
<1>2. LifeOf(u)' /\ ReceiverOf(u)' /\ NodesOf(u)' /\ (buffer[u] = Window(seq[u]))'
  BY <1>1 DEF SessionInv, Same, LifeOf, ReceiverOf, StreamOpen, NodesOf, Window
<1>3. EventsOf(u)' BY <1>1 DEF SessionInv, Same, EventsOf
<1>4. QED BY <1>2, <1>3 DEF SessionInv

(* Of a step of a session's goroutines it is left to show the session's    *)
(* own part, if what was closed stays closed and gets no event.            *)
LEMMA SessionStepIInv ==
  ASSUME IInv, ~panicked, NEW s \in Sessions, TypeOK', SessionInv(s)', PanicNeedsGiveUp',
         \A u \in Sessions \ {s} : Same(u) /\ channel'[u] = channel[u],
         UNCHANGED stream, closed[s] => closed'[s] /\ channel'[s] = channel[s]
  PROVE  IInv'
<1>1. \A u \in Sessions : Taken(u)' = Taken(u) BY DEF Taken
<1>2. \A u \in Sessions \ {s} : SessionInv(u)' BY <1>1, OtherSession
<1>3. ASSUME NEW k \in Streams PROVE StreamOf(k)'
  <2>1. StreamOf(k) BY DEF IInv
  <2>2. QED BY <2>1 DEF StreamOf, Same
<1>4. QED BY <1>2, <1>3 DEF IInv

-----------------------------------------------------------------------------
(* The calls. *)

LEMMA StarterIInv ==
  ASSUME IInv, ~panicked, UNCHANGED panicked, NEW s \in Sessions, Starter(s)
  PROVE  IInv'
<1>1. TypeOK /\ SessionInv(s) BY DEF IInv
<1>2. PICK x \in {"admitted", "done"} : starter' = [starter EXCEPT ![s] = x]
  BY DEF Starter, Admit, Refuse, AddSession
<1>3. /\ starter[s] # "done" /\ worker[s] = "none" /\ state[s] = "none" /\ node[s] = 1
      /\ traced[s] = {} /\ ~failed[s] /\ ~closed[s]
  BY <1>1 DEF Starter, Admit, Refuse, AddSession, SessionInv, LifeOf, NodesOf
<1>4. \/ UNCHANGED <<state, worker>>
      \/ /\ state' = [state EXCEPT ![s] = "starting"]
         /\ worker' = [worker EXCEPT ![s] = "spawned"]
         /\ x = "done"
  BY <1>1, <1>2 DEF TypeOK, Starter, Admit, Refuse, AddSession, Goto, registry, run
<1>5. UNCHANGED <<cancelling, ctxDone, node, failed, receiver, answer, seq, buffer, channel, closed,
                  stream, overflow, gaveUp, traced>>
  BY DEF Starter, Admit, Refuse, AddSession, run, grpc, events, history
<1>6. TypeOK'
  <2>1. starter' \in [Sessions -> {"idle", "admitted", "done"}] BY <1>1, <1>2 DEF TypeOK
  <2>2. CASE UNCHANGED <<state, worker>> BY <1>1, <1>5, <2>1, <2>2 DEF TypeOK
  <2>3. CASE /\ state' = [state EXCEPT ![s] = "starting"]
             /\ worker' = [worker EXCEPT ![s] = "spawned"]
    BY <1>1, <1>5, <2>1, <2>3 DEF TypeOK, States, WorkerPoints
  <2>4. QED BY <1>4, <2>2, <2>3
<1>7. SessionInv(s)'
  <2>1. LifeOf(s)'
    BY <1>1, <1>2, <1>3, <1>4, <1>5 DEF TypeOK, SessionInv, LifeOf
  <2>2. ReceiverOf(s)' /\ NodesOf(s)'
    BY <1>1, <1>3, <1>4, <1>5 DEF TypeOK, SessionInv, ReceiverOf, StreamOpen, NodesOf
  <2>3. (buffer[s] = Window(seq[s]))' BY <1>1, <1>5 DEF SessionInv, Window
  <2>4. EventsOf(s)' BY <1>1, <1>5 DEF SessionInv, EventsOf, Taken
  <2>5. QED BY <2>1, <2>2, <2>3, <2>4 DEF SessionInv
<1>8. \A u \in Sessions \ {s} : Same(u)
  BY <1>1, <1>2, <1>4, <1>5 DEF TypeOK, Same
<1>9. PanicNeedsGiveUp' BY DEF PanicNeedsGiveUp
<1>10. QED BY <1>5, <1>6, <1>7, <1>8, <1>9, SessionStepIInv

LEMMA StopIInv ==
  ASSUME IInv, ~panicked, UNCHANGED panicked, NEW s \in Sessions,
         StopMarks(s) \/ StopCancels(s) \/ Expire(s)
  PROVE  IInv'
<1>1. TypeOK /\ SessionInv(s) BY DEF IInv
<1>2. /\ UNCHANGED <<starter, worker, node, failed, receiver, answer, seq, buffer, channel, closed,
                     stream, overflow, gaveUp, traced>>
      /\ cancelling' \subseteq cancelling \union {s}
  BY DEF StopMarks, StopCancels, Expire, registry, run, grpc, events, history
<1>3. \/ /\ state[s] # "none" /\ UNCHANGED ctxDone
         /\ state' = [state EXCEPT ![s] = "stopped"]
      \/ UNCHANGED state /\ ctxDone' = [ctxDone EXCEPT ![s] = TRUE]
  BY DEF StopMarks, StopCancels, Expire, registry, run
<1>4. CASE UNCHANGED ctxDone /\ state[s] # "none" /\ state' = [state EXCEPT ![s] = "stopped"]
  <2>1. TypeOK' BY <1>1, <1>2, <1>4 DEF TypeOK, States
  <2>2. SessionInv(s)'
    <3>1. state'[s] = "stopped" BY <1>1, <1>4 DEF TypeOK
    <3>2. LifeOf(s)' /\ ReceiverOf(s)' /\ NodesOf(s)'
      BY <1>1, <1>2, <1>4, <3>1 DEF SessionInv, LifeOf, ReceiverOf, StreamOpen, NodesOf
    <3>3. (buffer[s] = Window(seq[s]))' BY <1>1, <1>2 DEF SessionInv, Window
    <3>4. EventsOf(s)' BY <1>1, <1>2 DEF SessionInv, EventsOf, Taken
    <3>5. QED BY <3>2, <3>3, <3>4 DEF SessionInv
  <2>3. \A u \in Sessions \ {s} : Same(u) BY <1>1, <1>2, <1>4 DEF TypeOK, Same
  <2>4. PanicNeedsGiveUp' BY DEF PanicNeedsGiveUp
  <2>5. QED BY <1>2, <2>1, <2>2, <2>3, <2>4, SessionStepIInv
<1>5. CASE UNCHANGED state /\ ctxDone' = [ctxDone EXCEPT ![s] = TRUE]
  <2>1. TypeOK' BY <1>1, <1>2, <1>5 DEF TypeOK
  <2>2. SessionInv(s)'
    <3>1. ctxDone'[s] BY <1>1, <1>5 DEF TypeOK
    <3>2. LifeOf(s)' /\ ReceiverOf(s)' /\ NodesOf(s)'
      BY <1>1, <1>2, <1>5, <3>1 DEF SessionInv, LifeOf, ReceiverOf, StreamOpen, NodesOf
    <3>3. (buffer[s] = Window(seq[s]))' BY <1>1, <1>2 DEF SessionInv, Window
    <3>4. EventsOf(s)' BY <1>1, <1>2 DEF SessionInv, EventsOf, Taken
    <3>5. QED BY <3>2, <3>3, <3>4 DEF SessionInv
  <2>3. \A u \in Sessions \ {s} : Same(u) BY <1>1, <1>2, <1>5 DEF TypeOK, Same
  <2>4. PanicNeedsGiveUp' BY DEF PanicNeedsGiveUp
  <2>5. QED BY <1>2, <2>1, <2>2, <2>3, <2>4, SessionStepIInv
<1>6. QED BY <1>3, <1>4, <1>5

-----------------------------------------------------------------------------
(* The goroutine that runs the gadget. *)

LEMMA RunnerStepIInv ==
  ASSUME IInv, ~panicked, UNCHANGED panicked, NEW s \in Sessions,
         UNCHANGED <<starter, cancelling, ctxDone, seq, buffer, channel, stream, overflow>>,
         TypeOK', LifeOf(s)', ReceiverOf(s)', NodesOf(s)',
         receiver[s] = "send" => receiver'[s] = "send", closed[s] => closed'[s],
         \A u \in Sessions \ {s} : Same(u)
  PROVE  IInv'
<1>1. SessionInv(s) BY DEF IInv
<1>2. (buffer[s] = Window(seq[s]))' BY <1>1 DEF SessionInv, Window
<1>3. EventsOf(s)' BY <1>1 DEF SessionInv, EventsOf, Taken
<1>4. PanicNeedsGiveUp' BY DEF PanicNeedsGiveUp
<1>5. QED BY <1>2, <1>3, <1>4, SessionStepIInv DEF SessionInv

LEMMA NextNodeEffect ==
  ASSUME TypeOK, NEW s \in Sessions, NEW error \in BOOLEAN, NextNode(s, error)
  PROVE  /\ worker' \in [Sessions -> WorkerPoints] /\ node' \in [Sessions -> 1 .. Nodes]
         /\ failed' \in [Sessions -> BOOLEAN]
         /\ \A u \in Sessions \ {s} :
              worker'[u] = worker[u] /\ node'[u] = node[u] /\ failed'[u] = failed[u]
         /\ (failed'[s] <=> failed[s] \/ error)
         /\ \/ worker'[s] = "dial" /\ node'[s] = node[s] + 1
            \/ worker'[s] = "mark" /\ node[s] = Nodes /\ node'[s] = Nodes
<1>1. /\ failed' \in [Sessions -> BOOLEAN] /\ (failed'[s] <=> failed[s] \/ error)
      /\ \A u \in Sessions \ {s} : failed'[u] = failed[u]
  BY DEF TypeOK, NextNode
<1>2. Nodes \in Nat /\ node[s] \in 1 .. Nodes BY BoundsAssumption DEF TypeOK
<1>3. CASE node[s] < Nodes
  <2>1. worker' = [worker EXCEPT ![s] = "dial"] /\ node' = [node EXCEPT ![s] = node[s] + 1]
    BY <1>3 DEF NextNode, Goto
  <2>2. node[s] + 1 \in 1 .. Nodes BY <1>2, <1>3
  <2>3. QED BY <1>1, <2>1, <2>2 DEF TypeOK, WorkerPoints
<1>4. CASE ~(node[s] < Nodes)
  <2>1. worker' = [worker EXCEPT ![s] = "mark"] /\ node' = node
    BY <1>4 DEF NextNode, Goto
  <2>2. node[s] = Nodes BY <1>2, <1>4
  <2>3. QED BY <1>1, <2>1, <2>2 DEF TypeOK, WorkerPoints
<1>5. QED BY <1>3, <1>4

LEMMA RunnerIInv ==
  ASSUME IInv, ~panicked, UNCHANGED panicked, NEW s \in Sessions, Runner(s)
  PROVE  IInv'
<1>1. TypeOK /\ LifeOf(s) /\ ReceiverOf(s) /\ NodesOf(s) BY DEF IInv, SessionInv
<1>2. UNCHANGED <<starter, cancelling, ctxDone, seq, buffer, channel, stream, overflow>>
  BY DEF Runner, MarkRunning, ListTargets, OpenStream, Answered, RequestStop, GiveUp, MarkDone,
         registry, events, history
<1>3. CASE MarkRunning(s)
  <2>1. /\ worker[s] = "spawned" /\ state' = [state EXCEPT ![s] = "running"]
        /\ worker' = [worker EXCEPT ![s] = "list"]
        /\ UNCHANGED <<node, failed, receiver, answer, closed, gaveUp, traced>>
    BY <1>3 DEF MarkRunning, Goto, grpc, events, history
  <2>2. TypeOK' BY <1>1, <1>2, <2>1 DEF TypeOK, States, WorkerPoints
  <2>3. LifeOf(s)' /\ ReceiverOf(s)' /\ NodesOf(s)'
    BY <1>1, <1>2, <2>1 DEF TypeOK, LifeOf, ReceiverOf, StreamOpen, NodesOf
  <2>4. \A u \in Sessions \ {s} : Same(u) BY <1>1, <1>2, <2>1 DEF TypeOK, Same
  <2>5. QED BY <1>2, <2>1, <2>2, <2>3, <2>4, RunnerStepIInv
<1>4. CASE ListTargets(s)
  <2>1. /\ worker[s] = "list"
        /\ \/ worker' = [worker EXCEPT ![s] = "dial"] /\ failed' = failed
           \/ worker' = [worker EXCEPT ![s] = "mark"] /\ failed' = [failed EXCEPT ![s] = TRUE]
        /\ UNCHANGED <<state, node, receiver, answer, closed, gaveUp, traced>>
    BY <1>4 DEF ListTargets, Goto, registry, grpc, events, history
  <2>2. CASE worker' = [worker EXCEPT ![s] = "dial"] /\ failed' = failed
    <3>1. TypeOK' BY <1>1, <1>2, <2>1, <2>2 DEF TypeOK, WorkerPoints
    <3>2. LifeOf(s)' /\ ReceiverOf(s)' BY <1>1, <1>2, <2>1, <2>2 DEF TypeOK, LifeOf, ReceiverOf, StreamOpen
    <3>3. NodesOf(s)' BY <1>1, <2>1, <2>2 DEF TypeOK, NodesOf
    <3>4. \A u \in Sessions \ {s} : Same(u) BY <1>1, <1>2, <2>1, <2>2 DEF TypeOK, Same
    <3>5. QED BY <1>2, <2>1, <3>1, <3>2, <3>3, <3>4, RunnerStepIInv
  <2>3. CASE worker' = [worker EXCEPT ![s] = "mark"] /\ failed' = [failed EXCEPT ![s] = TRUE]
    <3>1. TypeOK' BY <1>1, <1>2, <2>1, <2>3 DEF TypeOK, WorkerPoints
    <3>2. LifeOf(s)' /\ ReceiverOf(s)' BY <1>1, <1>2, <2>1, <2>3 DEF TypeOK, LifeOf, ReceiverOf, StreamOpen
    <3>3. NodesOf(s)' BY <1>1, <2>1, <2>3 DEF TypeOK, NodesOf
    <3>4. \A u \in Sessions \ {s} : Same(u) BY <1>1, <1>2, <2>1, <2>3 DEF TypeOK, Same
    <3>5. QED BY <1>2, <2>1, <3>1, <3>2, <3>3, <3>4, RunnerStepIInv
  <2>4. QED BY <2>1, <2>2, <2>3
<1>5. CASE /\ OpenStream(s) /\ ~ctxDone[s]
           /\ worker' = [worker EXCEPT ![s] = "trace"]
           /\ receiver' = [receiver EXCEPT ![s] = "recv"]
           /\ answer' = [answer EXCEPT ![s] = "none"]
           /\ UNCHANGED <<node, failed>>
  <2>1. worker[s] = "dial" /\ UNCHANGED <<state, closed, gaveUp, traced>>
    BY <1>5 DEF OpenStream, registry, events, history
  <2>2. TypeOK' BY <1>1, <1>2, <1>5, <2>1 DEF TypeOK, WorkerPoints
  <2>3. receiver[s] = "none" BY <1>1, <1>5, <2>1 DEF TypeOK, LifeOf, ReceiverOf, StreamOpen
  <2>4. LifeOf(s)' /\ ReceiverOf(s)' /\ NodesOf(s)'
    BY <1>1, <1>2, <1>5, <2>1 DEF TypeOK, LifeOf, ReceiverOf, StreamOpen, NodesOf
  <2>5. \A u \in Sessions \ {s} : Same(u) BY <1>1, <1>2, <1>5, <2>1 DEF TypeOK, Same
  <2>6. QED BY <1>2, <2>1, <2>2, <2>3, <2>4, <2>5, RunnerStepIInv
<1>6. ASSUME NEW error \in BOOLEAN, NextNode(s, error),
             worker[s] \in {"dial", "trace", "stopping"},
             UNCHANGED <<state, receiver, answer, closed>>,
             \A u \in Sessions \ {s} : traced'[u] = traced[u] /\ (u \in gaveUp' <=> u \in gaveUp),
             traced' \in [Sessions -> SUBSET (1 .. Nodes)], gaveUp' \in SUBSET Sessions,
             s \in gaveUp => s \in gaveUp',
             s \in gaveUp' => ctxDone[s],
             ReceiverOf(s)',
             ~error => traced'[s] = traced[s] \union {node[s]}
      PROVE  IInv'
  <2>1. /\ worker' \in [Sessions -> WorkerPoints] /\ node' \in [Sessions -> 1 .. Nodes]
        /\ failed' \in [Sessions -> BOOLEAN]
        /\ \A u \in Sessions \ {s} :
             worker'[u] = worker[u] /\ node'[u] = node[u] /\ failed'[u] = failed[u]
        /\ (failed'[s] <=> failed[s] \/ error)
        /\ \/ worker'[s] = "dial" /\ node'[s] = node[s] + 1
           \/ worker'[s] = "mark" /\ node[s] = Nodes /\ node'[s] = Nodes
    BY <1>1, <1>6, NextNodeEffect
  <2>2. TypeOK' BY <1>1, <1>2, <1>6, <2>1 DEF TypeOK
  <2>3. LifeOf(s)' BY <1>1, <1>2, <1>6, <2>1 DEF LifeOf
  <2>4. NodesOf(s)'
    <3>1. node[s] \in Nat \ {0} BY <1>1, BoundsAssumption DEF TypeOK
    <3>2. (1 .. node[s] - 1) \union {node[s]} = 1 .. node[s] BY <3>1
    <3>3. ~failed'[s] => traced'[s] = 1 .. node[s]
      BY <1>1, <1>6, <2>1, <3>2 DEF NodesOf
    <3>4. state[s] # "completed" BY <1>1, <1>6 DEF NodesOf
    <3>5. node[s] + 1 - 1 = node[s] BY <3>1
    <3>6. state'[s] # "completed" BY <1>6, <3>4
    <3>7. CASE worker'[s] = "dial" /\ node'[s] = node[s] + 1
      <4>1. ~failed'[s] => traced'[s] = 1 .. node'[s] - 1 BY <3>1, <3>3, <3>7
      <4>2. QED BY <3>6, <3>7, <4>1 DEF NodesOf
    <3>8. CASE worker'[s] = "mark" /\ node[s] = Nodes
      <4>1. ~failed'[s] => traced'[s] = 1 .. Nodes BY <3>3, <3>8
      <4>2. QED BY <3>6, <3>8, <4>1 DEF NodesOf
    <3>9. QED BY <2>1, <3>7, <3>8
  <2>5. \A u \in Sessions \ {s} : Same(u) BY <1>2, <1>6, <2>1 DEF Same
  <2>6. QED BY <1>2, <1>6, <2>2, <2>3, <2>4, <2>5, RunnerStepIInv
<1>7. CASE OpenStream(s) /\ NextNode(s, TRUE) /\ UNCHANGED grpc
  <2>1. worker[s] = "dial" /\ UNCHANGED <<state, receiver, answer, closed, gaveUp, traced>>
    BY <1>7 DEF OpenStream, registry, grpc, events, history
  <2>2. ReceiverOf(s)' BY <1>1, <2>1 DEF ReceiverOf, StreamOpen
  <2>3. QED BY <1>1, <1>6, <1>7, <2>1, <2>2 DEF TypeOK, LifeOf
<1>8. CASE Answered(s)
  <2>1. /\ worker[s] \in {"trace", "stopping"} /\ answer[s] # "none"
        /\ NextNode(s, answer[s] = "error")
        /\ UNCHANGED <<state, receiver, answer, closed, gaveUp>>
        /\ traced' = IF answer[s] = "ok" THEN [traced EXCEPT ![s] = @ \union {node[s]}] ELSE traced
    BY <1>8 DEF Answered, registry, grpc, events
  <2>2. ReceiverOf(s)' BY <1>1, <2>1 DEF ReceiverOf
  <2>3. CASE answer[s] = "ok"
    <3>1. traced' \in [Sessions -> SUBSET (1 .. Nodes)] /\ traced'[s] = traced[s] \union {node[s]}
          /\ \A u \in Sessions \ {s} : traced'[u] = traced[u]
      BY <1>1, <2>1, <2>3 DEF TypeOK
    <3>2. QED BY <1>1, <1>6, <2>1, <2>2, <3>1 DEF LifeOf, TypeOK
  <2>4. CASE answer[s] = "error"
    <3>1. traced' = traced BY <2>1, <2>4
    <3>2. QED BY <1>1, <1>6, <2>1, <2>2, <2>4, <3>1 DEF TypeOK, LifeOf
  <2>5. QED BY <1>1, <2>1, <2>3, <2>4 DEF TypeOK
<1>9. CASE RequestStop(s)
  <2>1. /\ worker[s] = "trace" /\ ctxDone[s] /\ worker' = [worker EXCEPT ![s] = "stopping"]
        /\ UNCHANGED <<state, node, failed, receiver, answer, closed, gaveUp, traced>>
    BY <1>9 DEF RequestStop, Goto, registry, grpc, events, history
  <2>2. TypeOK' BY <1>1, <1>2, <2>1 DEF TypeOK, WorkerPoints
  <2>3. LifeOf(s)' /\ ReceiverOf(s)' /\ NodesOf(s)'
    BY <1>1, <1>2, <2>1 DEF TypeOK, LifeOf, ReceiverOf, StreamOpen, NodesOf
  <2>4. \A u \in Sessions \ {s} : Same(u) BY <1>1, <1>2, <2>1 DEF TypeOK, Same
  <2>5. QED BY <1>2, <2>1, <2>2, <2>3, <2>4, RunnerStepIInv
<1>10. CASE GiveUp(s)
  <2>1. /\ worker[s] = "stopping" /\ NextNode(s, TRUE) /\ gaveUp' = gaveUp \union {s}
        /\ UNCHANGED <<state, receiver, answer, closed, traced>>
    BY <1>10 DEF GiveUp, registry, grpc, events
  <2>2. ReceiverOf(s)' /\ ctxDone[s] BY <1>1, <2>1 DEF ReceiverOf, LifeOf
  <2>3. QED BY <1>1, <1>6, <2>1, <2>2 DEF TypeOK
<1>11. CASE MarkDone(s)
  <2>1. PICK x \in {"failed", "stopped", "completed"} :
          /\ state' = [state EXCEPT ![s] = x]
          /\ x = "completed" => ~failed[s]
    BY <1>1, <1>11 DEF MarkDone, TypeOK
  <2>2. /\ worker[s] = "mark" /\ worker' = [worker EXCEPT ![s] = "done"]
        /\ closed' = [closed EXCEPT ![s] = TRUE]
        /\ UNCHANGED <<node, failed, receiver, answer, gaveUp, traced>>
    BY <1>11 DEF MarkDone, Goto, grpc, history
  <2>3. TypeOK' BY <1>1, <1>2, <2>1, <2>2 DEF TypeOK, WorkerPoints, States
  <2>4. LifeOf(s)' /\ ReceiverOf(s)' /\ NodesOf(s)'
    BY <1>1, <1>2, <2>1, <2>2 DEF TypeOK, LifeOf, ReceiverOf, StreamOpen, NodesOf
  <2>5. \A u \in Sessions \ {s} : Same(u) BY <1>1, <1>2, <2>1, <2>2 DEF TypeOK, Same
  <2>6. closed'[s] BY <1>1, <2>2 DEF TypeOK
  <2>7. QED BY <1>2, <2>2, <2>3, <2>4, <2>5, <2>6, RunnerStepIInv
<1>12. QED
  BY <1>3, <1>4, <1>5, <1>7, <1>8, <1>9, <1>10, <1>11 DEF Runner, OpenStream, Goto

-----------------------------------------------------------------------------
(* The receiver of a node. *)

LEMMA ReceiverIInv ==
  ASSUME IInv, ~panicked, UNCHANGED panicked, NEW s \in Sessions, Receive(s) \/ ReceiverEnds(s)
  PROVE  IInv'
<1>1. TypeOK /\ LifeOf(s) /\ ReceiverOf(s) /\ NodesOf(s) BY DEF IInv, SessionInv
<1>2. UNCHANGED <<starter, cancelling, state, ctxDone, worker, node, failed, seq, buffer, channel,
                  closed, stream, overflow, gaveUp, traced>>
  BY DEF Receive, ReceiverEnds, registry, run, events, history
<1>3. PICK x \in {"none", "got"} : receiver' = [receiver EXCEPT ![s] = x]
  BY DEF Receive, ReceiverEnds
<1>4. receiver[s] = "recv" BY DEF Receive, ReceiverEnds
<1>5. receiver'[s] = x /\ \A u \in Sessions \ {s} : receiver'[u] = receiver[u]
  BY <1>1, <1>3 DEF TypeOK
<1>6. \/ UNCHANGED answer
      \/ x = "none" /\ \E v \in {"ok", "error"} : answer' = [answer EXCEPT ![s] = v]
  <2>1. CASE Receive(s) BY <2>1 DEF Receive
  <2>2. CASE ReceiverEnds(s)
    <3>1. receiver' = [receiver EXCEPT ![s] = "none"] BY <2>2 DEF ReceiverEnds
    <3>2. x = "none" BY <1>1, <1>5, <3>1 DEF TypeOK
    <3>3. QED BY <2>2, <3>2 DEF ReceiverEnds
  <2>3. QED BY <2>1, <2>2
<1>7. /\ answer' \in [Sessions -> {"none", "ok", "error"}]
      /\ \A u \in Sessions \ {s} : answer'[u] = answer[u]
      /\ x = "got" => UNCHANGED answer
  BY <1>1, <1>6 DEF TypeOK
<1>8. receiver' \in [Sessions -> {"none", "recv", "got", "send"}] BY <1>1, <1>3 DEF TypeOK
<1>9. TypeOK' BY <1>1, <1>2, <1>7, <1>8 DEF TypeOK
<1>10. LifeOf(s)' /\ NodesOf(s)' BY <1>1, <1>2 DEF LifeOf, NodesOf
<1>11. ReceiverOf(s)' BY <1>1, <1>2, <1>4, <1>5, <1>7 DEF ReceiverOf, StreamOpen
<1>12. \A u \in Sessions \ {s} : Same(u) BY <1>2, <1>5, <1>7 DEF Same
<1>13. QED BY <1>2, <1>4, <1>9, <1>10, <1>11, <1>12, RunnerStepIInv

LEMMA BufferIInv ==
  ASSUME IInv, ~panicked, UNCHANGED panicked, NEW s \in Sessions, Buffer(s)
  PROVE  IInv'
<1> DEFINE n == seq[s]
<1>1. /\ TypeOK /\ LifeOf(s) /\ ReceiverOf(s) /\ NodesOf(s) /\ buffer[s] = Window(n)
      /\ EventsOf(s) /\ n \in Nat
  BY DEF IInv, SessionInv, TypeOK
<1>2. /\ receiver[s] = "got"
      /\ UNCHANGED <<starter, cancelling, state, ctxDone, worker, node, failed, answer, channel,
                     closed, stream, overflow, gaveUp, traced>>
  BY DEF Buffer, registry, run, history
<1>3. /\ receiver' \in [Sessions -> {"none", "recv", "got", "send"}] /\ receiver'[s] = "send"
      /\ \A u \in Sessions \ {s} : receiver'[u] = receiver[u]
  BY <1>1 DEF Buffer, TypeOK
<1>4. /\ seq' \in [Sessions -> Nat] /\ seq'[s] = n + 1
      /\ \A u \in Sessions \ {s} : seq'[u] = seq[u]
  BY <1>1 DEF Buffer, TypeOK
<1>5. PICK w : w = Window(n + 1) OBVIOUS
<1>6. w \in Seq(Nat) /\ Len(w) <= MaxEvents
  <2>1. n + 1 \in Nat BY <1>1
  <2>2. w \in Seq(Nat) /\ Len(w) = IF n + 1 < MaxEvents THEN n + 1 ELSE MaxEvents
    BY <1>5, <2>1, WindowIsSeq
  <2>3. QED BY <1>1, <2>2, BoundsAssumption
<1>7. buffer' = [buffer EXCEPT ![s] = w]
  <2>1. w = Trim(Append(Window(n), n + 1)) BY <1>1, <1>5, WindowMoves
  <2>2. QED BY <1>1, <2>1 DEF Buffer
<1>8. /\ buffer' \in [Sessions -> Seq(Nat)] /\ buffer'[s] = w
      /\ \A u \in Sessions \ {s} : buffer'[u] = buffer[u]
  BY <1>1, <1>6, <1>7 DEF TypeOK
<1>9. TypeOK'
  <2>1. ASSUME NEW u \in Sessions PROVE Len(buffer'[u]) <= MaxEvents /\ Len(channel'[u]) <= Capacity
    <3>1. Len(buffer[u]) <= MaxEvents /\ Len(channel[u]) <= Capacity BY <1>1 DEF TypeOK
    <3>2. CASE u = s BY <1>2, <1>6, <1>8, <3>1, <3>2
    <3>3. CASE u # s BY <1>2, <1>8, <3>1, <3>3
    <3>4. QED BY <3>2, <3>3
  <2>2. QED BY <1>1, <1>2, <1>3, <1>4, <1>8, <2>1 DEF TypeOK
<1>10. SessionInv(s)'
  <2>1. LifeOf(s)' /\ NodesOf(s)' BY <1>1, <1>2 DEF LifeOf, NodesOf
  <2>2. ReceiverOf(s)' BY <1>1, <1>2 DEF ReceiverOf, StreamOpen
  <2>3. (buffer[s] = Window(seq[s]))'
    <3>1. Window(seq[s])' = Window(n + 1) BY <1>4 DEF Window
    <3>2. QED BY <1>5, <1>8, <3>1
  <2>4. EventsOf(s)'
    <3>1. Taken(s)' = Taken(s) BY <1>2 DEF Taken
    <3>2. \A e \in 1 .. n : e \in ToSet(channel[s]) \union Taken(s) \union overflow[s]
      BY <1>1, <1>2 DEF EventsOf
    <3>3. \A e \in 1 .. n + 1 : e \in 1 .. n \/ e = n + 1 BY <1>1
    <3>4. QED BY <1>2, <1>3, <1>4, <3>1, <3>2, <3>3 DEF EventsOf
  <2>5. QED BY <2>1, <2>2, <2>3, <2>4 DEF SessionInv
<1>11. \A u \in Sessions \ {s} : Same(u) BY <1>2, <1>3, <1>4, <1>8 DEF Same
<1>12. PanicNeedsGiveUp' BY DEF PanicNeedsGiveUp
<1>13. QED BY <1>2, <1>9, <1>10, <1>11, <1>12, SessionStepIInv

(* A closed channel has lost its receiver, unless the run gave up on it.   *)
LEMMA SendIInv ==
  ASSUME IInv, ~panicked, NEW s \in Sessions, Send(s)
  PROVE  IInv'
<1> DEFINE n == seq[s]
<1>1. /\ TypeOK /\ LifeOf(s) /\ ReceiverOf(s) /\ NodesOf(s) /\ buffer[s] = Window(n)
      /\ EventsOf(s) /\ n \in Nat
  BY DEF IInv, SessionInv, TypeOK
<1>2. /\ receiver[s] = "send"
      /\ UNCHANGED <<starter, cancelling, state, ctxDone, worker, node, failed, answer, seq, buffer,
                     closed, stream, gaveUp, traced>>
  BY DEF Send, registry, run
<1>3. PICK x \in {"recv", "got"} : receiver' = [receiver EXCEPT ![s] = x]
  BY DEF Send, AfterSend
<1>4. /\ receiver' \in [Sessions -> {"none", "recv", "got", "send"}]
      /\ \A u \in Sessions \ {s} : receiver'[u] = receiver[u]
  BY <1>1, <1>3 DEF TypeOK
<1>5. panicked' \in BOOLEAN /\ (panicked' <=> closed[s]) BY <1>1 DEF Send, TypeOK
<1>6. PanicNeedsGiveUp'
  <2>1. closed[s] => s \in gaveUp BY <1>1, <1>2 DEF LifeOf, ReceiverOf, StreamOpen
  <2>2. QED BY <1>2, <1>5, <2>1 DEF PanicNeedsGiveUp
<1>7. LifeOf(s)' /\ ReceiverOf(s)' /\ NodesOf(s)' /\ (buffer[s] = Window(seq[s]))'
  BY <1>1, <1>2 DEF LifeOf, ReceiverOf, StreamOpen, NodesOf, Window
<1>8. Taken(s)' = Taken(s) BY <1>2 DEF Taken
<1>9. \A e \in 1 .. n : e # n => e \in ToSet(channel[s]) \union Taken(s) \union overflow[s]
  BY <1>1 DEF EventsOf
<1>10. CASE closed[s] /\ UNCHANGED <<channel, overflow>>
  <2>1. TypeOK' BY <1>1, <1>2, <1>4, <1>5, <1>10 DEF TypeOK
  <2>2. EventsOf(s)' BY <1>5, <1>10 DEF EventsOf
  <2>3. SessionInv(s)' BY <1>7, <2>2 DEF SessionInv
  <2>4. \A u \in Sessions \ {s} : Same(u) BY <1>2, <1>4, <1>10 DEF Same
  <2>5. QED BY <1>2, <1>6, <1>10, <2>1, <2>3, <2>4, SessionStepIInv
<1>11. CASE /\ ~closed[s] /\ Len(channel[s]) < Capacity /\ UNCHANGED overflow
            /\ channel' = [channel EXCEPT ![s] = Append(channel[s], n)]
  <2>1. channel[s] \in Seq(Nat) BY <1>1 DEF TypeOK
  <2>2. PICK q : q = Append(channel[s], n) OBVIOUS
  <2>3. /\ q \in Seq(Nat) /\ Len(q) = Len(channel[s]) + 1 /\ Len(channel[s]) \in Nat
        /\ ToSet(q) = ToSet(channel[s]) \union {n}
    BY <1>1, <2>1, <2>2, AppendFacts, ToSetIsElements
  <2>4. channel' = [channel EXCEPT ![s] = q] BY <1>11, <2>2
  <2>5. /\ channel' \in [Sessions -> Seq(Nat)] /\ channel'[s] = q
        /\ \A u \in Sessions \ {s} : channel'[u] = channel[u]
    BY <1>1, <2>3, <2>4 DEF TypeOK
  <2>6. Len(q) <= Capacity BY <1>11, <2>3, BoundsAssumption
  <2>7. TypeOK'
    <3>1. ASSUME NEW u \in Sessions
          PROVE  Len(buffer'[u]) <= MaxEvents /\ Len(channel'[u]) <= Capacity
      <4>1. Len(buffer[u]) <= MaxEvents /\ Len(channel[u]) <= Capacity BY <1>1 DEF TypeOK
      <4>2. CASE u = s BY <1>2, <2>5, <2>6, <4>1, <4>2
      <4>3. CASE u # s BY <1>2, <2>5, <4>1, <4>3
      <4>4. QED BY <4>2, <4>3
    <3>2. QED BY <1>1, <1>2, <1>4, <1>5, <1>11, <2>5, <3>1 DEF TypeOK
  <2>8. EventsOf(s)' BY <1>2, <1>8, <1>9, <1>11, <2>3, <2>5 DEF EventsOf
  <2>9. SessionInv(s)' BY <1>7, <2>8 DEF SessionInv
  <2>10. \A u \in Sessions \ {s} : Same(u) /\ channel'[u] = channel[u]
    BY <1>2, <1>4, <1>11, <2>5 DEF Same
  <2>11. QED BY <1>2, <1>6, <1>11, <2>7, <2>9, <2>10, SessionStepIInv
<1>12. CASE /\ ~closed[s] /\ UNCHANGED channel
            /\ overflow' = [overflow EXCEPT ![s] = overflow[s] \union {n}]
  <2>1. /\ overflow' \in [Sessions -> SUBSET Nat] /\ overflow'[s] = overflow[s] \union {n}
        /\ \A u \in Sessions \ {s} : overflow'[u] = overflow[u]
    BY <1>1, <1>12 DEF TypeOK
  <2>2. TypeOK' BY <1>1, <1>2, <1>4, <1>5, <1>12, <2>1 DEF TypeOK
  <2>3. EventsOf(s)' BY <1>2, <1>8, <1>9, <1>12, <2>1 DEF EventsOf
  <2>4. SessionInv(s)' BY <1>7, <2>3 DEF SessionInv
  <2>5. \A u \in Sessions \ {s} : Same(u) BY <1>2, <1>4, <1>12, <2>1 DEF Same
  <2>6. QED BY <1>2, <1>6, <1>12, <2>2, <2>4, <2>5, SessionStepIInv
<1>13. QED BY <1>10, <1>11, <1>12 DEF Send

-----------------------------------------------------------------------------
(* The streams. *)

(* A stream's step loses no event and keeps the other streams.             *)
LEMMA StreamStepIInv ==
  ASSUME IInv, ~panicked, UNCHANGED <<registry, run, grpc, seq, buffer, closed, panicked, history>>,
         TypeOK', NEW k \in Streams, StreamOf(k)',
         \A j \in Streams \ {k} : stream'[j] = stream[j],
         \A u \in Sessions : \A e \in ToSet(channel[u]) \union Taken(u) :
           e \in ToSet(channel'[u]) \union Taken(u)',
         \A u \in Sessions : channel[u] = <<>> => channel'[u] = <<>>
  PROVE  IInv'
<1>1. \A u \in Sessions : Same(u) BY DEF Same, registry, run, grpc, history
<1>2. \A u \in Sessions : SessionInv(u)' BY <1>1, OtherSession
<1>3. ASSUME NEW j \in Streams \ {k} PROVE StreamOf(j)'
  <2>1. StreamOf(j) BY DEF IInv
  <2>2. QED BY <2>1 DEF StreamOf
<1>4. PanicNeedsGiveUp' BY DEF PanicNeedsGiveUp
<1>5. QED BY <1>2, <1>3, <1>4 DEF IInv

LEMMA OpenIInv ==
  ASSUME IInv, ~panicked, UNCHANGED panicked, NEW k \in Streams, NEW s \in Sessions, OpenEvents(k, s)
  PROVE  IInv'
<1>1. TypeOK /\ StreamOf(k) BY DEF IInv
<1>2. PICK r : r = [session |-> s, snapshot |-> buffer[s], live |-> <<>>, at |-> "live"] OBVIOUS
<1>3. r \in [session : Sessions \union {NoSession}, snapshot : Seq(Nat), live : Seq(Nat),
             at : {"idle", "live", "done", "gone"}]
  <2>1. buffer[s] \in Seq(Nat) /\ <<>> \in Seq(Nat) BY <1>1, EmptySeq DEF TypeOK
  <2>2. QED BY <1>2, <2>1
<1>4. stream[k].at = "idle" /\ stream' = [stream EXCEPT ![k] = r] BY <1>2 DEF OpenEvents
<1>5. /\ UNCHANGED <<registry, run, grpc, seq, buffer, closed, channel, panicked, history>>
      /\ stream[k].live = <<>>
  BY <1>1, <1>4 DEF OpenEvents, events, StreamOf
<1>6. stream'[k] = r /\ \A j \in Streams \ {k} : stream'[j] = stream[j]
  BY <1>1, <1>4 DEF TypeOK
<1>7. TypeOK'
  <2>1. stream' \in [Streams -> [session : Sessions \union {NoSession}, snapshot : Seq(Nat),
                                 live : Seq(Nat), at : {"idle", "live", "done", "gone"}]]
    BY <1>1, <1>3, <1>4 DEF TypeOK
  <2>2. QED BY <1>1, <1>5, <2>1 DEF TypeOK, registry, run, grpc, history
<1>8. StreamOf(k)' BY <1>2, <1>6 DEF StreamOf
<1>9. ASSUME NEW u \in Sessions, NEW e \in ToSet(channel[u]) \union Taken(u)
      PROVE  e \in ToSet(channel'[u]) \union Taken(u)'
  <2>1. CASE e \in ToSet(channel[u]) BY <1>5, <2>1
  <2>2. CASE e \in Taken(u)
    <3>1. PICK j \in Streams : stream[j].session = u /\ e \in ToSet(stream[j].live)
      BY <2>2 DEF Taken
    <3>2. j # k
      <4>1. ToSet(<<>>) = {} BY DEF ToSet
      <4>2. QED BY <1>5, <3>1, <4>1
    <3>3. QED BY <1>6, <3>1, <3>2 DEF Taken
  <2>3. QED BY <2>1, <2>2
<1>10. QED BY <1>5, <1>6, <1>7, <1>8, <1>9, StreamStepIInv

LEMMA TakeIInv ==
  ASSUME IInv, ~panicked, UNCHANGED panicked, NEW k \in Streams, TakeEvent(k)
  PROVE  IInv'
<1>1. TypeOK /\ StreamOf(k) /\ stream[k].at = "live" BY DEF IInv, TakeEvent
<1>2. PICK s \in Sessions : s = stream[k].session BY <1>1 DEF StreamOf
<1>3. /\ channel[s] # <<>> /\ channel[s] \in Seq(Nat)
      /\ stream[k].live \in Seq(Nat) /\ stream[k].snapshot \in Seq(Nat)
  BY <1>1, <1>2 DEF TakeEvent, TypeOK
<1>4. /\ Tail(channel[s]) \in Seq(Nat) /\ Head(channel[s]) \in Nat
      /\ Len(channel[s]) \in Nat \ {0} /\ Len(Tail(channel[s])) = Len(channel[s]) - 1
      /\ ToSet(channel[s]) = {Head(channel[s])} \union ToSet(Tail(channel[s]))
  BY <1>3, TailFacts, ToSetIsElements
<1>5. PICK h, t, q : /\ h = Head(channel[s]) /\ h \in Nat
                     /\ t = Tail(channel[s]) /\ t \in Seq(Nat)
                     /\ q = Append(stream[k].live, h)
  BY <1>4
<1>6. q \in Seq(Nat) /\ ToSet(q) = ToSet(stream[k].live) \union {h}
  BY <1>3, <1>5, AppendFacts, ToSetIsElements
<1>7. /\ stream' = [stream EXCEPT ![k].live = q]
      /\ channel' = [channel EXCEPT ![s] = t]
      /\ UNCHANGED <<registry, run, grpc, seq, buffer, closed, panicked, history>>
  BY <1>2, <1>5 DEF TakeEvent
<1>8. /\ stream'[k] = [stream[k] EXCEPT !.live = q]
      /\ \A j \in Streams \ {k} : stream'[j] = stream[j]
  BY <1>1, <1>7 DEF TypeOK
<1>9. /\ stream'[k].live = q /\ stream'[k].at = "live" /\ stream'[k].session = s
      /\ stream'[k].snapshot = stream[k].snapshot
  BY <1>1, <1>2, <1>8 DEF TypeOK
<1>10. /\ channel' \in [Sessions -> Seq(Nat)] /\ channel'[s] = t
       /\ \A u \in Sessions \ {s} : channel'[u] = channel[u]
  BY <1>1, <1>5, <1>7 DEF TypeOK
<1>11. TypeOK'
  <2> DEFINE Rec == [session : Sessions \union {NoSession}, snapshot : Seq(Nat),
                     live : Seq(Nat), at : {"idle", "live", "done", "gone"}]
  <2>1. stream \in [Streams -> Rec] BY <1>1 DEF TypeOK
  <2>2. stream'[k] \in Rec BY <1>6, <1>8, <2>1
  <2>3. stream' \in [Streams -> Rec] BY <1>7, <1>8, <2>1, <2>2
  <2>4. ASSUME NEW u \in Sessions PROVE Len(buffer'[u]) <= MaxEvents /\ Len(channel'[u]) <= Capacity
    <3>1. Len(buffer[u]) <= MaxEvents /\ Len(channel[u]) <= Capacity BY <1>1 DEF TypeOK
    <3>2. CASE u = s
      <4>1. Len(t) = Len(channel[s]) - 1 BY <1>4, <1>5
      <4>2. Len(t) <= Capacity BY <1>4, <3>1, <3>2, <4>1, BoundsAssumption
      <4>3. QED BY <1>7, <1>10, <3>1, <3>2, <4>2
    <3>3. CASE u # s BY <1>7, <1>10, <3>1, <3>3
    <3>4. QED BY <3>2, <3>3
  <2>5. QED BY <1>1, <1>7, <1>10, <2>3, <2>4 DEF TypeOK, registry, run, grpc, history
<1>12. StreamOf(k)' BY <1>9 DEF StreamOf
<1>13. ASSUME NEW u \in Sessions, NEW e \in ToSet(channel[u]) \union Taken(u)
       PROVE  e \in ToSet(channel'[u]) \union Taken(u)'
  <2>1. CASE e \in Taken(u)
    <3>1. PICK j \in Streams : stream[j].session = u /\ e \in ToSet(stream[j].live)
      BY <2>1 DEF Taken
    <3>2. stream'[j].session = u /\ e \in ToSet(stream'[j].live)
      BY <1>2, <1>6, <1>8, <1>9, <3>1
    <3>3. QED BY <3>2 DEF Taken
  <2>2. CASE e \in ToSet(channel[u]) /\ u # s BY <1>10, <2>2
  <2>3. CASE e \in ToSet(channel[u]) /\ u = s
    <3>1. e = h \/ e \in ToSet(t) BY <1>4, <1>5, <2>3
    <3>2. CASE e = h
      <4>1. e \in ToSet(stream'[k].live) BY <1>6, <1>9, <3>2
      <4>2. QED BY <1>9, <2>3, <4>1 DEF Taken
    <3>3. CASE e \in ToSet(t) BY <1>10, <2>3, <3>3
    <3>4. QED BY <3>1, <3>2, <3>3
  <2>4. QED BY <2>1, <2>2, <2>3
<1>14. \A u \in Sessions : channel[u] = <<>> => channel'[u] = <<>> BY <1>3, <1>10
<1>15. QED BY <1>7, <1>8, <1>11, <1>12, <1>13, <1>14, StreamStepIInv

LEMMA EndIInv ==
  ASSUME IInv, ~panicked, UNCHANGED panicked, NEW k \in Streams, StreamDone(k) \/ Disconnect(k)
  PROVE  IInv'
<1>1. TypeOK /\ StreamOf(k) /\ stream[k].at = "live" BY DEF IInv, StreamDone, Disconnect
<1>2. PICK x \in {"done", "gone"} :
        /\ stream' = [stream EXCEPT ![k].at = x]
        /\ x = "done" => closed[stream[k].session] /\ channel[stream[k].session] = <<>>
  BY DEF StreamDone, Disconnect
<1>3. UNCHANGED <<registry, run, grpc, seq, buffer, closed, channel, panicked, history>>
  BY DEF StreamDone, Disconnect, events
<1>4. /\ stream'[k] = [stream[k] EXCEPT !.at = x]
      /\ \A j \in Streams \ {k} : stream'[j] = stream[j]
  BY <1>1, <1>2 DEF TypeOK
<1>5. /\ stream'[k].live = stream[k].live /\ stream'[k].at = x
      /\ stream'[k].session = stream[k].session
  BY <1>1, <1>4 DEF TypeOK
<1>6. TypeOK'
  <2> DEFINE Rec == [session : Sessions \union {NoSession}, snapshot : Seq(Nat),
                     live : Seq(Nat), at : {"idle", "live", "done", "gone"}]
  <2>1. stream \in [Streams -> Rec] BY <1>1 DEF TypeOK
  <2>2. stream'[k] \in Rec BY <1>4, <2>1
  <2>3. stream' \in [Streams -> Rec] BY <1>2, <1>4, <2>1, <2>2
  <2>4. QED BY <1>1, <1>3, <2>3 DEF TypeOK, registry, run, grpc, history
<1>7. StreamOf(k)' BY <1>1, <1>2, <1>3, <1>5 DEF StreamOf
<1>8. ASSUME NEW u \in Sessions, NEW e \in ToSet(channel[u]) \union Taken(u)
      PROVE  e \in ToSet(channel'[u]) \union Taken(u)'
  <2>1. \A j \in Streams : stream'[j].session = stream[j].session /\ stream'[j].live = stream[j].live
    BY <1>4, <1>5
  <2>2. Taken(u)' = Taken(u) BY <2>1 DEF Taken
  <2>3. QED BY <1>3, <2>2
<1>9. QED BY <1>3, <1>4, <1>6, <1>7, <1>8, StreamStepIInv

-----------------------------------------------------------------------------
(* The theorems. *)

LEMMA NextIInv == IInv /\ [Next]_vars => IInv'
<1> SUFFICES ASSUME IInv, [Next]_vars PROVE IInv'
  OBVIOUS
<1>1. CASE UNCHANGED vars
  BY <1>1 DEF vars, IInv, TypeOK, SessionInv, LifeOf, ReceiverOf, StreamOpen, NodesOf, Window,
              EventsOf, Taken, StreamOf, PanicNeedsGiveUp
<1>2. ASSUME ~panicked, NEW s \in Sessions, Send(s) PROVE IInv'
  BY <1>2, SendIInv
<1>3. ASSUME ~panicked, UNCHANGED panicked, NEW s \in Sessions,
             Starter(s) \/ StopMarks(s) \/ StopCancels(s) \/ Expire(s) \/ Runner(s) \/ Receiver(s)
      PROVE  IInv'
  BY <1>3, StarterIInv, StopIInv, RunnerIInv, ReceiverIInv, BufferIInv DEF Receiver
<1>4. ASSUME ~panicked, UNCHANGED panicked, NEW k \in Streams,
             Reader(k) \/ Disconnect(k) \/ \E s \in Sessions : OpenEvents(k, s)
      PROVE  IInv'
  BY <1>4, OpenIInv, TakeIInv, EndIInv DEF Reader
<1>5. QED BY <1>1, <1>2, <1>3, <1>4 DEF Next

LEMMA Invariant == Spec => []IInv
BY InitIInv, NextIInv, PTL DEF Spec

(* Every variable keeps its type; buffer and channel keep their bounds.    *)
THEOREM TypeCorrect == Spec => []TypeOK
<1>1. IInv => TypeOK BY DEF IInv
<1>2. QED BY <1>1, Invariant, PTL

(* A session that counts against the limit has a goroutine that will end   *)
(* it (RunningCount, MarkRunning, MarkDone, session.go:169-256).           *)
THEOREM CountedSessionsAreLive == Spec => []CountedSessionIsLive
<1>1. IInv => CountedSessionIsLive
  BY DEF IInv, SessionInv, LifeOf, CountedSessionIsLive, Counted
<1>2. QED BY <1>1, Invariant, PTL

(* AddEvent keeps exactly the window of the latest events.                 *)
THEOREM BufferIsAWindow == Spec => []BufferIsWindow
<1>1. IInv => BufferIsWindow BY DEF IInv, SessionInv, BufferIsWindow, Window
<1>2. QED BY <1>1, Invariant, PTL

(* A stream that says it is done leaves no event unaccounted for, however  *)
(* many streams of however many sessions take events from the channels     *)
(* (streamSessionEvents, http.go:106-120).                                 *)
THEOREM StreamsAccount == Spec => []DoneStreamIsAccounted
<1>1. IInv => DoneStreamIsAccounted
  <2> SUFFICES ASSUME IInv, ~panicked, NEW k \in Streams, stream[k].at = "done",
                      NEW e \in 1 .. seq[stream[k].session]
               PROVE  \/ e \in ToSet(stream[k].snapshot)
                               \union Taken(stream[k].session) \union overflow[stream[k].session]
                      \/ e = seq[stream[k].session] /\ receiver[stream[k].session] = "send"
    BY DEF DoneStreamIsAccounted, Taken
  <2>1. PICK s \in Sessions : s = stream[k].session BY DEF IInv, StreamOf
  <2>2. channel[s] = <<>> BY <2>1 DEF IInv, StreamOf
  <2>3. ToSet(channel[s]) = {} BY <2>2 DEF ToSet
  <2>4. EventsOf(s) BY DEF IInv, SessionInv
  <2>5. QED BY <2>1, <2>3, <2>4 DEF EventsOf
<1>2. QED BY <1>1, Invariant, PTL

(* Without a stop that was given up on there is no send on a closed        *)
(* channel (runGadgetOnTarget, runner_grpc.go:118-131).                    *)
THEOREM PanicsNeedGiveUp == Spec => []PanicNeedsGiveUp
<1>1. IInv => PanicNeedsGiveUp BY DEF IInv
<1>2. QED BY <1>1, Invariant, PTL

(* A completed session has traced every node of its target (Run joins the  *)
(* errors of the nodes, runner_grpc.go:76-82).                             *)
THEOREM CompletedIsTraced == Spec => []CompletedTracedAllNodes
<1>1. IInv => CompletedTracedAllNodes BY DEF IInv, SessionInv, NodesOf, CompletedTracedAllNodes
<1>2. QED BY <1>1, Invariant, PTL
=============================================================================
