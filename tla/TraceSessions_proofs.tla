------------------------- MODULE TraceSessions_proofs -------------------------
(***************************************************************************)
(* Proofs about TraceSessions for every number of traces, clients and      *)
(* streams and every size of the ring buffer: an event session that is     *)
(* left on the server has an owner or a failed statement to blame, events  *)
(* are kept once and in order, and a stream neither repeats nor skips any. *)
(***************************************************************************)
EXTENDS TraceSessions, SequenceFacts, FiniteSetTheorems, SequenceTheorems, TLAPS

-----------------------------------------------------------------------------
(* The inductive invariant. *)

(* How far a trace's start, drain and stop are go together.                *)
LifeOf(t) ==
  /\ starter[t] = "idle" => session[t] = "none"
  /\ starter[t] # "done" => drainer[t] = "none"
  /\ drainer[t] = "none" => stage[t] = "free" /\ t \notin traces
  /\ t \in running <=> drainer[t] # "none" /\ stage[t] # "done"
  /\ drainer[t] = "done" => stage[t] = "done"
  /\ (starter[t] = "done" /\ drainer[t] = "none") \/ stage[t] \in {"mark", "done"} =>
       session[t] = "none" \/ t \in doubtful

(* A stop, a delete and a stream are about a trace that was registered.    *)
CallOf(k) ==
  call[k].at # "idle" => call[k].trace \in Traces /\ drainer[call[k].trace] # "none"

Increasing(q) == \A i, j \in DOMAIN q : i < j => q[i] < q[j]

(* The server's order survives the polls: an event that Drain has still to *)
(* deliver, or to poll, was seen or comes after all that was.              *)
OrderOf(t) ==
  /\ Increasing(ring[t]) /\ Increasing(polled[t]) /\ Increasing(events[t])
  /\ \A e \in ToSet(ring[t]) \union ToSet(polled[t]) \union Seen(t) : e <= captured[t]
  /\ \A e \in ToSet(ring[t]) \union ToSet(polled[t]) :
       e \in Seen(t) \/ (\A x \in Seen(t) : x < e)
  /\ \A e \in ToSet(ring[t]) : \A p \in ToSet(polled[t]) :
       e < p => e \in Seen(t) \union ToSet(polled[t])

(* A stream has sent what follows the event it was asked for.              *)
From(s, a) ==
  LET buffer == events[stream[s].trace]
      sent == stream[s].sent
  IN /\ IF a = 0 THEN stream[s].since = 0 ELSE stream[s].since = buffer[a]
     /\ a + Len(sent) <= Len(buffer)
     /\ \A i \in 1 .. Len(sent) : sent[i] = buffer[a + i]

StreamOf(s) ==
  IF stream[s].at = "idle"
  THEN stream[s].trace = NoTrace /\ stream[s].sent = <<>>
  ELSE /\ stream[s].trace \in Traces
       /\ \E a \in 0 .. Len(events[stream[s].trace]) : From(s, a)

IInv ==
  /\ TypeOK
  /\ \A t \in Traces : LifeOf(t) /\ OrderOf(t)
  /\ \A k \in Clients : CallOf(k)
  /\ \A s \in Streams : StreamOf(s)

LEMMA ToSetIsElements == \A q : ToSet(q) = Elements(q)
BY DEF ToSet, Elements

-----------------------------------------------------------------------------
(* Sequences of keys. *)

LEMMA ElementsAreNumbers ==
  ASSUME NEW q \in Seq(Keys)
  PROVE  \A e \in ToSet(q) : e \in Keys /\ e \in Nat
<1>1. \A i \in DOMAIN q : q[i] \in Keys BY ElementOfSeq, LenProperties
<1>2. QED BY <1>1 DEF ToSet, Keys

LEMMA KeysAreNumbers ==
  ASSUME NEW q \in Seq(Keys)
  PROVE  q \in Seq(Nat)
<1>1. PICK n \in Nat : q \in [1 .. n -> Keys] BY SeqDef
<1>2. q \in [1 .. n -> Nat] BY <1>1 DEF Keys
<1>3. QED BY <1>2, SeqDef

(* An increasing sequence stays one without its head, and with an element  *)
(* that is greater than all.                                               *)
LEMMA IncreasingTail ==
  ASSUME NEW q \in Seq(Nat), q # <<>>, Increasing(q)
  PROVE  Increasing(Tail(q)) /\ \A e \in ToSet(Tail(q)) : Head(q) < e
<1> DEFINE r == Tail(q)
<1>1. /\ Len(q) \in Nat \ {0} /\ DOMAIN r = 1 .. Len(q) - 1 /\ DOMAIN q = 1 .. Len(q)
      /\ \A i \in 1 .. Len(q) - 1 : r[i] = q[i + 1]
      /\ Head(q) = q[1]
  BY TailFacts, ToSetIsElements
<1> HIDE DEF r
<1>2. \A i, j \in DOMAIN q : i < j => q[i] < q[j] BY DEF Increasing
<1>3. \A i, j \in DOMAIN r : i < j => r[i] < r[j]
  <2> SUFFICES ASSUME NEW i \in DOMAIN r, NEW j \in DOMAIN r, i < j PROVE r[i] < r[j]
    OBVIOUS
  <2>1. i + 1 \in DOMAIN q /\ j + 1 \in DOMAIN q /\ i + 1 < j + 1 BY <1>1
  <2>2. r[i] = q[i + 1] /\ r[j] = q[j + 1] BY <1>1
  <2>3. QED BY <1>2, <2>1, <2>2
<1>4. \A i \in DOMAIN r : q[1] < r[i]
  <2> SUFFICES ASSUME NEW i \in DOMAIN r PROVE q[1] < r[i]
    OBVIOUS
  <2>1. 1 \in DOMAIN q /\ i + 1 \in DOMAIN q /\ 1 < i + 1 /\ r[i] = q[i + 1] BY <1>1
  <2>2. QED BY <1>2, <2>1
<1>5. QED BY <1>1, <1>3, <1>4 DEF Increasing, ToSet, r

LEMMA IncreasingAppend ==
  ASSUME NEW q \in Seq(Nat), NEW e \in Nat, Increasing(q), \A x \in ToSet(q) : x < e
  PROVE  Increasing(Append(q, e))
<1> DEFINE r == Append(q, e)
<1>1. /\ Len(q) \in Nat /\ DOMAIN r = 1 .. Len(q) + 1 /\ DOMAIN q = 1 .. Len(q)
      /\ r[Len(q) + 1] = e /\ \A i \in 1 .. Len(q) : r[i] = q[i]
  BY AppendFacts, ToSetIsElements
<1> HIDE DEF r
<1>2. \A i \in DOMAIN q : q[i] < e BY DEF ToSet
<1>3. \A i, j \in DOMAIN r : i < j => r[i] < r[j]
  <2> SUFFICES ASSUME NEW i \in DOMAIN r, NEW j \in DOMAIN r, i < j PROVE r[i] < r[j]
    OBVIOUS
  <2>1. i \in DOMAIN q /\ r[i] = q[i] BY <1>1
  <2>2. CASE j = Len(q) + 1 BY <1>1, <1>2, <2>1, <2>2
  <2>3. CASE j \in DOMAIN q BY <1>1, <2>1, <2>3 DEF Increasing
  <2>4. QED BY <1>1, <2>2, <2>3
<1>4. QED BY <1>3 DEF Increasing, r

-----------------------------------------------------------------------------
(* What a stream sends. *)

(* EventsSince of the key of event n is what follows event n.              *)
LEMMA EventsSinceSuffix ==
  ASSUME TypeOK, NEW t \in Traces, Increasing(events[t]), NEW n \in 0 .. Len(events[t]),
         NEW key, IF n = 0 THEN key = 0 ELSE key = events[t][n]
  PROVE  /\ EventsSince(t, key) = SubSeq(events[t], n + 1, Len(events[t]))
         /\ EventsSince(t, key) \in Seq(Keys)
         /\ Len(EventsSince(t, key)) = Len(events[t]) - n
         /\ \A i \in 1 .. Len(events[t]) - n : EventsSince(t, key)[i] = events[t][n + i]
<1> DEFINE buffer == events[t]
           found == {i \in DOMAIN buffer : buffer[i] = key}
<1>1. buffer \in Seq(Keys) BY DEF TypeOK
<1>2. DOMAIN buffer = 1 .. Len(buffer) /\ Len(buffer) \in Nat BY <1>1, LenProperties
<1>3. \A i \in 1 .. Len(buffer) : buffer[i] \in Keys BY <1>1, ElementOfSeq
<1>4. EventsSince(t, key) = SubSeq(buffer, n + 1, Len(buffer))
  <2>1. CASE n = 0
    <3>1. found = {} BY <1>2, <1>3, <2>1 DEF Keys
    <3>2. EventsSince(t, key) = buffer BY <3>1 DEF EventsSince
    <3>3. QED BY <1>1, <2>1, <3>2, SubSeqFull
  <2>2. CASE n # 0
    <3>1. n \in DOMAIN buffer /\ key = buffer[n] BY <1>2, <2>2
    <3>2. \A i \in DOMAIN buffer : i # n => buffer[i] # buffer[n]
      <4> SUFFICES ASSUME NEW i \in DOMAIN buffer, i # n PROVE buffer[i] # buffer[n]
        OBVIOUS
      <4>1. i < n \/ n < i BY <1>2
      <4>2. buffer[i] < buffer[n] \/ buffer[n] < buffer[i] BY <3>1, <4>1 DEF Increasing
      <4>3. buffer[i] \in Nat /\ buffer[n] \in Nat BY <1>2, <1>3, <3>1 DEF Keys
      <4>4. QED BY <4>2, <4>3
    <3>3. found = {n} BY <3>1, <3>2
    <3>4. (CHOOSE i \in found : TRUE) = n BY <3>3
    <3>5. QED BY <3>3, <3>4 DEF EventsSince
  <2>3. QED BY <2>1, <2>2
<1>5. /\ SubSeq(buffer, n + 1, Len(buffer)) \in Seq(Keys)
      /\ Len(SubSeq(buffer, n + 1, Len(buffer))) = Len(buffer) - n
      /\ \A i \in 1 .. Len(buffer) - n : SubSeq(buffer, n + 1, Len(buffer))[i] = buffer[n + i]
  <2>1. /\ n + 1 \in Int /\ Len(buffer) \in Int
        /\ \A i \in n + 1 .. Len(buffer) : buffer[i] \in Keys
    BY <1>2, <1>3
  <2> HIDE DEF buffer
  <2>2. /\ SubSeq(buffer, n + 1, Len(buffer)) \in Seq(Keys)
        /\ Len(SubSeq(buffer, n + 1, Len(buffer))) =
             IF n + 1 <= Len(buffer) THEN Len(buffer) - (n + 1) + 1 ELSE 0
        /\ \A i \in 1 .. Len(buffer) - (n + 1) + 1 :
             SubSeq(buffer, n + 1, Len(buffer))[i] = buffer[n + 1 + i - 1]
    BY <2>1, SubSeqProperties
  <2>3. QED BY <1>2, <2>2 DEF buffer
<1>6. QED BY <1>4, <1>5

(* The key that a stream asks with is that of the last event it sent.      *)
LEMMA LastKeyIsPosition ==
  ASSUME TypeOK, NEW s \in Streams, stream[s].trace \in Traces,
         NEW a \in 0 .. Len(events[stream[s].trace]), From(s, a)
  PROVE  LET n == a + Len(stream[s].sent)
         IN  /\ n \in 0 .. Len(events[stream[s].trace])
             /\ LastKey(s) = IF n = 0 THEN 0 ELSE events[stream[s].trace][n]
<1> DEFINE sent == stream[s].sent
           buffer == events[stream[s].trace]
<1>1. sent \in Seq(Keys) /\ Len(sent) \in Nat /\ buffer \in Seq(Keys) /\ Len(buffer) \in Nat
  BY LenProperties DEF TypeOK, StreamStates
<1>2. a + Len(sent) \in 0 .. Len(buffer) BY <1>1 DEF From
<1>3. CASE sent = <<>>
  BY <1>2, <1>3, EmptySeq DEF From, LastKey
<1>4. CASE sent # <<>>
  <2>1. Len(sent) # 0 BY <1>1, <1>4, EmptySeq
  <2>2. LastKey(s) = sent[Len(sent)] BY <1>4 DEF LastKey, Last
  <2>3. sent[Len(sent)] = buffer[a + Len(sent)] BY <1>1, <2>1 DEF From
  <2>4. QED BY <1>1, <1>2, <2>1, <2>2, <2>3
<1>5. QED BY <1>3, <1>4

-----------------------------------------------------------------------------
(* The inductive invariant holds initially, and each of its parts is kept. *)

LEMMA InitIInv == Init => IInv
<1> SUFFICES ASSUME Init PROVE IInv
  OBVIOUS
<1>1. \A K : <<>> \in Seq(K) /\ Len(<<>>) = 0 /\ DOMAIN <<>> = {} BY EmptySeq
<1>2. TypeOK BY <1>1 DEF Init, TypeOK, StreamStates
<1>3. ASSUME NEW t \in Traces PROVE LifeOf(t) BY DEF Init, LifeOf
<1>4. ASSUME NEW t \in Traces PROVE OrderOf(t)
  <2>1. ring[t] = <<>> /\ polled[t] = <<>> /\ events[t] = <<>> BY DEF Init
  <2>2. ToSet(<<>>) = {} /\ Increasing(<<>>) BY <1>1 DEF ToSet, Increasing
  <2>3. QED BY <2>1, <2>2 DEF OrderOf, Seen
<1>5. ASSUME NEW k \in Clients PROVE CallOf(k) BY DEF Init, CallOf
<1>6. ASSUME NEW s \in Streams PROVE StreamOf(s) BY DEF Init, StreamOf
<1>7. QED BY <1>2, <1>3, <1>4, <1>5, <1>6 DEF IInv

LEMMA TraceStepType ==
  ASSUME IInv, NEW t \in Traces,
         Starter(t) \/ Drainer(t) \/ Stopping(t) \/ Expire(t) \/ Capture(t)
  PROVE  TypeOK'
<1>1. TypeOK BY DEF IInv
<1>2. CASE CreateSession(t) \/ StartSession(t)
  <2>1. PICK x \in {"none", "created", "started"} :
          session' = session \/ session' = [session EXCEPT ![t] = x]
    BY <1>2 DEF CreateSession, StartSession
  <2>2. session' \in [Traces -> {"none", "created", "started"}] BY <1>1, <2>1 DEF TypeOK
  <2>3. PICK y \in {"alter", "register", "done"} : starter' = [starter EXCEPT ![t] = y]
    BY <1>2 DEF CreateSession, StartSession
  <2>4. starter' \in [Traces -> {"idle", "alter", "register", "done"}]
    BY <1>1, <2>3 DEF TypeOK
  <2>5. doubtful' \in SUBSET Traces /\ faults' \in Nat
    BY <1>1, <1>2 DEF TypeOK, CreateSession, StartSession, Fault
  <2>6. UNCHANGED <<timed, ring, captured, traces, cancelled, drainer, polled, events, stage,
                    running, call, stream, lastRing>>
    BY <1>2 DEF CreateSession, StartSession
  <2>7. QED BY <1>1, <2>2, <2>4, <2>5, <2>6 DEF TypeOK
<1>4. CASE Register(t) BY <1>1, <1>4 DEF TypeOK, Register, server, history
<1>5. CASE Poll(t) \/ FinalPoll(t)
  <2>1. polled' \in {polled, [polled EXCEPT ![t] = ring[t]]}
    BY <1>5 DEF Poll, FinalPoll, PollReturns, PollFails
  <2>2. polled' \in [Traces -> Seq(Keys)]
    <3>1. polled \in [Traces -> Seq(Keys)] /\ ring[t] \in Seq(Keys) BY <1>1 DEF TypeOK
    <3>2. CASE polled' = polled BY <3>1, <3>2
    <3>3. CASE polled' = [polled EXCEPT ![t] = ring[t]] BY <3>1, <3>3
    <3>4. QED BY <2>1, <3>2, <3>3
  <2>3. drainer' \in [Traces -> {"none", "wait", "deliver", "last", "stop", "done"}]
    <3>1. PICK d \in {"deliver", "last", "stop"} : drainer' = [drainer EXCEPT ![t] = d]
      BY <1>5 DEF Poll, FinalPoll, PollReturns, PollFails
    <3>2. QED BY <1>1, <3>1 DEF TypeOK
  <2>4. faults' \in Nat
    <3>1. faults' = faults \/ Fault
      BY <1>5 DEF Poll, FinalPoll, PollReturns, PollFails
    <3>2. QED BY <1>1, <3>1 DEF TypeOK, Fault
  <2>5. UNCHANGED <<starter, timed, session, ring, captured, traces, cancelled, events, stage,
                    running, call, stream, doubtful, lastRing>>
    BY <1>5 DEF Poll, FinalPoll, server, history
  <2>6. QED BY <1>1, <2>2, <2>3, <2>4, <2>5 DEF TypeOK
<1>6. CASE Deliver(t)
  <2>1. polled[t] \in Seq(Keys) /\ events[t] \in Seq(Keys) BY <1>1 DEF TypeOK
  <2>2. polled' \in [Traces -> Seq(Keys)]
    <3>1. polled' = polled \/ (polled[t] # <<>> /\ polled' = [polled EXCEPT ![t] = Tail(@)])
      BY <1>6 DEF Deliver
    <3>2. polled[t] # <<>> => Tail(polled[t]) \in Seq(Keys) BY <2>1, TailFacts
    <3>3. QED BY <1>1, <3>1, <3>2 DEF TypeOK
  <2>3. events' \in [Traces -> Seq(Keys)]
    <3>1. \/ events' = events
          \/ /\ polled[t] # <<>>
             /\ events' = [events EXCEPT ![t] = Append(@, Head(polled[t]))]
      BY <1>6 DEF Deliver
    <3>2. polled[t] # <<>> => Append(events[t], Head(polled[t])) \in Seq(Keys)
      BY <2>1, TailFacts, AppendFacts
    <3>3. QED BY <1>1, <3>1, <3>2 DEF TypeOK
  <2>4. drainer' \in [Traces -> {"none", "wait", "deliver", "last", "stop", "done"}]
    <3>1. \E p \in {"stop", "wait"} : drainer' \in {drainer, [drainer EXCEPT ![t] = p]}
      BY <1>6 DEF Deliver
    <3>2. QED BY <1>1, <3>1 DEF TypeOK
  <2>5. QED BY <1>1, <1>6, <2>2, <2>3, <2>4 DEF TypeOK, Deliver, server, history
<1>7. CASE DrainReturns(t) BY <1>1, <1>7 DEF TypeOK, DrainReturns, server, history
<1>8. CASE StopBegins(t) \/ Expire(t)
  <2>1. ring[t] \in Seq(Keys) BY <1>1 DEF TypeOK
  <2>2. ToSet(ring[t]) \in SUBSET Keys BY <2>1, ElementOfSeq, LenProperties DEF ToSet
  <2>3. lastRing' \in [Traces -> SUBSET Keys] /\ cancelled' \in SUBSET Traces
    <3>1. /\ cancelled' = cancelled \union {t}
          /\ lastRing' = lastRing \/ lastRing' = [lastRing EXCEPT ![t] = ToSet(ring[t])]
      BY <1>8 DEF StopBegins, Expire, Cancel
    <3>2. CASE lastRing' = lastRing BY <1>1, <3>1, <3>2 DEF TypeOK
    <3>3. CASE lastRing' = [lastRing EXCEPT ![t] = ToSet(ring[t])]
      BY <1>1, <2>2, <3>1, <3>3 DEF TypeOK
    <3>4. QED BY <3>1, <3>2, <3>3
  <2>4. stage' \in [Traces -> {"free", "drop", "mark", "done"}]
    <3>1. stage' = stage \/ stage' = [stage EXCEPT ![t] = "drop"]
      BY <1>8 DEF StopBegins, Expire
    <3>2. QED BY <1>1, <3>1 DEF TypeOK
  <2>5. UNCHANGED <<timed, starter, session, ring, captured, traces, drainer, polled, events,
                    running, call, stream, doubtful, faults>>
    BY <1>8 DEF StopBegins, Expire, server
  <2>6. QED BY <1>1, <2>3, <2>4, <2>5 DEF TypeOK
<1>9. CASE DropSession(t)
  <2>1. <<>> \in Seq(Keys) BY EmptySeq
  <2>2. session' \in [Traces -> {"none", "created", "started"}] /\ ring' \in [Traces -> Seq(Keys)]
    <3>1. \/ /\ session' = [session EXCEPT ![t] = "none"]
             /\ ring' = [ring EXCEPT ![t] = <<>>]
          \/ session' = session /\ ring' = ring
      BY <1>9 DEF DropSession
    <3>2. CASE session' = [session EXCEPT ![t] = "none"] /\ ring' = [ring EXCEPT ![t] = <<>>]
      BY <1>1, <2>1, <3>2 DEF TypeOK
    <3>3. CASE session' = session /\ ring' = ring BY <1>1, <3>3 DEF TypeOK
    <3>4. QED BY <3>1, <3>2, <3>3
  <2>3. stage' \in [Traces -> {"free", "drop", "mark", "done"}]
    BY <1>1, <1>9 DEF TypeOK, DropSession
  <2>4. doubtful' \in SUBSET Traces /\ faults' \in Nat
    BY <1>1, <1>9 DEF TypeOK, DropSession, Fault
  <2>5. QED BY <1>1, <1>9, <2>2, <2>3, <2>4 DEF TypeOK, DropSession
<1>10. CASE MarkStopped(t) BY <1>1, <1>10 DEF TypeOK, MarkStopped, server, history
<1>11. CASE Capture(t)
  <2> DEFINE full == Append(ring[t], captured[t] + 1)
  <2>1. captured[t] + 1 \in Keys /\ ring[t] \in Seq(Keys)
    BY <1>1, <1>11, MaxCapturedAssumption DEF TypeOK, Capture, Keys
  <2>2. full \in Seq(Keys) /\ full # <<>> BY <2>1, AppendFacts, EmptySeq
  <2>3. Tail(full) \in Seq(Keys) BY <2>2, TailFacts
  <2>4. ring' \in {[ring EXCEPT ![t] = full], [ring EXCEPT ![t] = Tail(full)]}
    BY <1>11 DEF Capture
  <2>5. ring' \in [Traces -> Seq(Keys)] BY <1>1, <2>2, <2>3, <2>4 DEF TypeOK
  <2>6. captured' \in [Traces -> Nat] BY <1>1, <1>11 DEF TypeOK, Capture
  <2>7. QED BY <1>1, <1>11, <2>5, <2>6 DEF TypeOK, Capture, history
<1>12. QED
  BY <1>2, <1>4, <1>5, <1>6, <1>7, <1>8, <1>9, <1>10, <1>11 DEF Starter, Drainer, Stopping

LEMMA CallStepType ==
  ASSUME IInv, NEW k \in Clients,
         StopReturns(k) \/ \E t \in Traces : StopTrace(k, t) \/ DeleteTrace(k, t)
  PROVE  TypeOK'
<1>1. TypeOK BY DEF IInv
<1>2. CASE StopReturns(k)
  <2>1. events[call[k].trace] \in Seq(Keys) BY <1>1, <1>2 DEF TypeOK, StopReturns, IInv, CallOf
  <2>2. call' = [call EXCEPT ![k].at = "done", ![k].result = events[call[k].trace]]
    BY <1>2 DEF StopReturns
  <2>3. call' \in [Clients -> [trace : Traces \union {NoTrace},
                               at : {"idle", "stop", "done"}, result : Seq(Keys)]]
    <3>1. call \in [Clients -> [trace : Traces \union {NoTrace},
                                at : {"idle", "stop", "done"}, result : Seq(Keys)]]
      BY <1>1 DEF TypeOK
    <3>2. \A j \in Clients : call'[j] \in [trace : Traces \union {NoTrace},
                                           at : {"idle", "stop", "done"}, result : Seq(Keys)]
      BY <2>1, <2>2, <3>1
    <3>3. QED BY <2>2, <3>1, <3>2
  <2>4. QED BY <1>1, <1>2, <2>3 DEF TypeOK, StopReturns, server, history
<1>3. ASSUME NEW t \in Traces, StopTrace(k, t) \/ DeleteTrace(k, t) PROVE TypeOK'
  <2>1. call' \in [Clients -> [trace : Traces \union {NoTrace},
                               at : {"idle", "stop", "done"}, result : Seq(Keys)]]
    <3>1. call' = [call EXCEPT ![k].trace = t, ![k].at = "stop"]
      BY <1>3 DEF StopTrace, DeleteTrace
    <3>2. call \in [Clients -> [trace : Traces \union {NoTrace},
                                at : {"idle", "stop", "done"}, result : Seq(Keys)]]
      BY <1>1 DEF TypeOK
    <3>3. \A j \in Clients : call'[j] \in [trace : Traces \union {NoTrace},
                                           at : {"idle", "stop", "done"}, result : Seq(Keys)]
      BY <3>1, <3>2
    <3>4. QED BY <3>1, <3>2, <3>3
  <2>2. traces' \in SUBSET Traces BY <1>1, <1>3 DEF TypeOK, StopTrace, DeleteTrace
  <2>3. QED BY <1>1, <1>3, <2>1, <2>2 DEF TypeOK, StopTrace, DeleteTrace, server, history
<1>4. QED BY <1>2, <1>3

LEMMA StreamStepType ==
  ASSUME IInv, NEW s \in Streams,
         Tailing(s) \/ Disconnect(s) \/ \E t \in Traces : OpenStream(s, t)
  PROVE  TypeOK'
<1>1. TypeOK BY DEF IInv
<1>2. CASE SendEvents(s)
  <2>1. PICK a \in 0 .. Len(events[stream[s].trace]) :
          stream[s].trace \in Traces /\ From(s, a)
    BY <1>2 DEF SendEvents, IInv, StreamOf
  <2>2. Increasing(events[stream[s].trace]) BY <2>1 DEF IInv, OrderOf
  <2> DEFINE n == a + Len(stream[s].sent)
             more == EventsSince(stream[s].trace, LastKey(s))
  <2>3. /\ n \in 0 .. Len(events[stream[s].trace])
        /\ LastKey(s) = IF n = 0 THEN 0 ELSE events[stream[s].trace][n]
    BY <1>1, <2>1, LastKeyIsPosition
  <2> HIDE DEF n
  <2>4. more \in Seq(Keys) BY <1>1, <2>1, <2>2, <2>3, EventsSinceSuffix
  <2>5. stream[s].sent \in Seq(Keys) BY <1>1 DEF TypeOK, StreamStates
  <2>6. stream[s].sent \o more \in Seq(Keys) BY <2>4, <2>5, ConcatProperties
  <2>7. stream' = [stream EXCEPT ![s].sent = stream[s].sent \o more, ![s].at = "check"]
    BY <1>2 DEF SendEvents
  <2> HIDE DEF more
  <2>8. stream' \in [Streams -> StreamStates]
    <3>1. stream \in [Streams -> StreamStates] BY <1>1 DEF TypeOK
    <3>2. \A j \in Streams : stream'[j] \in StreamStates BY <2>6, <2>7, <3>1 DEF StreamStates
    <3>3. QED BY <2>7, <3>1, <3>2
  <2>9. QED BY <1>1, <1>2, <2>8 DEF TypeOK, SendEvents, server, history
<1>3. CASE CheckRunning(s) \/ StreamTick(s) \/ Disconnect(s)
  <2>1. stream' \in [Streams -> StreamStates]
    <3>1. PICK x \in {"wait", "done", "drain", "gone"} : stream' = [stream EXCEPT ![s].at = x]
      BY <1>3 DEF CheckRunning, StreamTick, Disconnect
    <3>2. stream \in [Streams -> StreamStates] BY <1>1 DEF TypeOK
    <3>3. \A j \in Streams : stream'[j] \in StreamStates BY <3>1, <3>2 DEF StreamStates
    <3>4. QED BY <3>1, <3>2, <3>3
  <2>2. QED BY <1>1, <1>3, <2>1 DEF TypeOK, CheckRunning, StreamTick, Disconnect, server, history
<1>4. ASSUME NEW t \in Traces, OpenStream(s, t) PROVE TypeOK'
  <2>1. PICK key \in {0} \union ToSet(events[t]) :
          stream' = [stream EXCEPT ![s].trace = t, ![s].since = key, ![s].at = "drain"]
    BY <1>4 DEF OpenStream
  <2>2. events[t] \in Seq(Keys) BY <1>1 DEF TypeOK
  <2>3. ToSet(events[t]) \subseteq Keys BY <2>2, ElementOfSeq, LenProperties DEF ToSet
  <2>4. key \in Nat BY <2>3 DEF Keys
  <2>5. stream' \in [Streams -> StreamStates]
    <3>1. stream \in [Streams -> StreamStates] BY <1>1 DEF TypeOK
    <3>2. \A j \in Streams : stream'[j] \in StreamStates BY <2>1, <2>4, <3>1 DEF StreamStates
    <3>3. QED BY <2>1, <3>1, <3>2
  <2>6. QED BY <1>1, <1>4, <2>5 DEF TypeOK, OpenStream, server, history
<1>5. QED BY <1>2, <1>3, <1>4 DEF Tailing

LEMMA TraceStepLife ==
  ASSUME IInv, NEW t \in Traces, NEW u \in Traces,
         Starter(t) \/ Drainer(t) \/ Stopping(t) \/ Expire(t) \/ Capture(t)
  PROVE  LifeOf(u)'
<1>1. TypeOK /\ LifeOf(t) /\ LifeOf(u) BY DEF IInv
<1>2. CASE CreateSession(t) BY <1>1, <1>2 DEF TypeOK, LifeOf, CreateSession
<1>3. CASE StartSession(t) BY <1>1, <1>3 DEF TypeOK, LifeOf, StartSession
<1>4. CASE Register(t) BY <1>1, <1>4 DEF TypeOK, LifeOf, Register, server, history
<1>5. CASE Poll(t) \/ FinalPoll(t)
  <2>1. PICK p \in {"deliver", "last", "stop"} : drainer' = [drainer EXCEPT ![t] = p]
    BY <1>5 DEF Poll, FinalPoll, PollReturns, PollFails
  <2>2. drainer[t] = "wait" /\ UNCHANGED <<starter, session, traces, stage, running, doubtful>>
    BY <1>5 DEF Poll, FinalPoll, server, history
  <2>3. QED BY <1>1, <2>1, <2>2 DEF TypeOK, LifeOf
<1>6. CASE Deliver(t)
  <2>1. PICK p \in {"deliver", "last", "stop", "wait"} : drainer' = [drainer EXCEPT ![t] = p]
    <3>1. drainer' = drainer => drainer' = [drainer EXCEPT ![t] = drainer[t]]
      BY <1>1 DEF TypeOK
    <3>2. QED BY <1>6, <3>1 DEF Deliver
  <2>2. /\ drainer[t] \in {"deliver", "last"}
        /\ UNCHANGED <<starter, session, traces, stage, running, doubtful>>
    BY <1>6 DEF Deliver, server, history
  <2>3. QED BY <1>1, <2>1, <2>2 DEF TypeOK, LifeOf
<1>7. CASE DrainReturns(t) BY <1>1, <1>7 DEF TypeOK, LifeOf, DrainReturns, server, history
<1>8. CASE StopBegins(t)
  <2>1. drainer[t] # "none" BY <1>8 DEF StopBegins, IInv, CallOf
  <2>2. QED BY <1>1, <1>8, <2>1 DEF TypeOK, LifeOf, StopBegins, server
<1>9. CASE DropSession(t) BY <1>1, <1>9 DEF TypeOK, LifeOf, DropSession
<1>10. CASE MarkStopped(t)
  BY <1>1, <1>10 DEF TypeOK, LifeOf, MarkStopped, server, history
<1>11. CASE Expire(t) BY <1>1, <1>11 DEF LifeOf, Expire, server
<1>12. CASE Capture(t) BY <1>1, <1>12 DEF LifeOf, Capture, history
<1>13. QED
  BY <1>2, <1>3, <1>4, <1>5, <1>6, <1>7, <1>8, <1>9, <1>10, <1>11, <1>12
     DEF Starter, Drainer, Stopping

(* A drain that began never becomes one that has not.                      *)
LEMMA TraceStepCall ==
  ASSUME IInv, NEW t \in Traces, NEW k \in Clients,
         Starter(t) \/ Drainer(t) \/ Stopping(t) \/ Expire(t) \/ Capture(t)
  PROVE  CallOf(k)'
<1>1. call' = call
  BY DEF Starter, Drainer, Stopping, CreateSession, StartSession, Register, Poll, FinalPoll,
         Deliver, DrainReturns, StopBegins, DropSession, MarkStopped, Expire, Capture
<1>2. drainer' = drainer \/ \E p \in {"wait", "deliver", "last", "stop", "done"} :
                              drainer' = [drainer EXCEPT ![t] = p]
  BY DEF Starter, Drainer, Stopping, CreateSession, StartSession, Register, Poll, FinalPoll,
         Deliver, DrainReturns, StopBegins, DropSession, MarkStopped, Expire, Capture,
         PollReturns, PollFails
<1>3. \A u \in Traces : drainer[u] # "none" => drainer'[u] # "none"
  BY <1>2 DEF IInv, TypeOK
<1>4. QED BY <1>1, <1>3 DEF IInv, CallOf

(* Each event is polled in the server's order and delivered once.          *)
LEMMA TraceStepOrder ==
  ASSUME IInv, NEW t \in Traces, NEW u \in Traces,
         Starter(t) \/ Drainer(t) \/ Stopping(t) \/ Expire(t) \/ Capture(t)
  PROVE  OrderOf(u)'
<1>1. TypeOK /\ OrderOf(t) /\ OrderOf(u) BY DEF IInv
<1>2. ring[t] \in Seq(Keys) /\ polled[t] \in Seq(Keys) /\ events[t] \in Seq(Keys)
  BY <1>1 DEF TypeOK
<1>3. CASE UNCHANGED <<ring, polled, events, captured>>
  BY <1>1, <1>3 DEF OrderOf, Seen
<1>4. CASE polled' = [polled EXCEPT ![t] = ring[t]] /\ UNCHANGED <<ring, events, captured>>
  <2>1. CASE u # t BY <1>1, <1>4, <2>1 DEF TypeOK, OrderOf, Seen
  <2>2. CASE u = t
    <3>1. polled'[t] = ring[t] BY <1>1, <1>4 DEF TypeOK
    <3>2. QED BY <1>1, <1>4, <2>2, <3>1 DEF OrderOf, Seen
  <2>3. QED BY <2>1, <2>2
<1>5. CASE /\ polled[t] # <<>>
           /\ polled' = [polled EXCEPT ![t] = Tail(@)]
           /\ events' = IF Head(polled[t]) \in Seen(t) THEN events
                        ELSE [events EXCEPT ![t] = Append(@, Head(polled[t]))]
           /\ UNCHANGED <<ring, captured>>
  <2>1. CASE u # t
    <3>1. polled'[u] = polled[u] /\ events'[u] = events[u] BY <1>1, <1>5, <2>1 DEF TypeOK
    <3>2. QED BY <1>1, <1>5, <3>1 DEF OrderOf, Seen
  <2>2. CASE u = t
    <3> DEFINE h == Head(polled[t])
               r == Tail(polled[t])
    <3>1. h \in Keys /\ r \in Seq(Keys) /\ ToSet(polled[t]) = {h} \union ToSet(r)
      BY <1>2, <1>5, TailFacts, ToSetIsElements
    <3>2. Increasing(r) /\ \A e \in ToSet(r) : h < e
      BY <1>1, <1>2, <1>5, KeysAreNumbers, IncreasingTail DEF OrderOf
    <3>3. polled'[t] = r BY <1>1, <1>5 DEF TypeOK
    <3>4. Seen(t)' = Seen(t) \union {h} /\ Increasing(events'[t])
      <4>1. CASE h \in Seen(t)
        <5>1. events'[t] = events[t] BY <1>5, <4>1
        <5>2. QED BY <1>1, <4>1, <5>1 DEF OrderOf, Seen
      <4>2. CASE h \notin Seen(t)
        <5>1. events'[t] = Append(events[t], h) BY <1>1, <1>5, <4>2 DEF TypeOK
        <5>2. \A x \in ToSet(events[t]) : x < h
          BY <1>1, <3>1, <4>2 DEF OrderOf, Seen
        <5>3. events[t] \in Seq(Nat) /\ h \in Nat
          BY <1>2, <3>1, KeysAreNumbers DEF Keys
        <5>4. Increasing(Append(events[t], h))
          BY <1>1, <5>2, <5>3, IncreasingAppend DEF OrderOf
        <5>5. ToSet(Append(events[t], h)) = ToSet(events[t]) \union {h}
          BY <5>3, AppendFacts, ToSetIsElements
        <5>6. QED BY <5>1, <5>4, <5>5 DEF Seen
      <4>3. QED BY <4>1, <4>2
    <3>5. \A e \in ToSet(ring[t]) \union ToSet(r) : e \in Nat
      BY <1>2, <3>1, ElementsAreNumbers
    <3>6. h \in Nat BY <3>1 DEF Keys
    <3>7. ring'[t] = ring[t] /\ captured'[t] = captured[t] BY <1>5
    <3> HIDE DEF h, r
    <3>8. \A e \in ToSet(ring[t]) \union ToSet(r) :
            e \in Seen(t)' \/ (\A x \in Seen(t)' : x < e)
      <4> SUFFICES ASSUME NEW e \in ToSet(ring[t]) \union ToSet(r), e \notin Seen(t) \union {h}
                   PROVE  \A x \in Seen(t) \union {h} : x < e
        BY <3>4
      <4>1. \A x \in Seen(t) : x < e BY <1>1, <3>1 DEF OrderOf
      <4>2. h < e
        <5>1. CASE e \in ToSet(r) BY <3>2, <5>1
        <5>2. CASE e \in ToSet(ring[t]) /\ e \notin ToSet(r)
          <6>1. ~(e < h) BY <1>1, <3>1, <5>2 DEF OrderOf
          <6>2. QED BY <3>5, <3>6, <6>1
        <5>3. QED BY <5>1, <5>2
      <4>3. QED BY <4>1, <4>2
    <3>9. \A e \in ToSet(ring[t]) : \A p \in ToSet(r) : e < p => e \in Seen(t)' \union ToSet(r)
      BY <1>1, <3>1, <3>4 DEF OrderOf
    <3>10. \A e \in ToSet(ring[t]) \union ToSet(r) \union Seen(t)' : e <= captured[t]
      BY <1>1, <3>1, <3>4 DEF OrderOf
    <3>11. Increasing(ring'[t]) /\ Increasing(polled'[t]) /\ Increasing(events'[t])
      BY <1>1, <3>2, <3>3, <3>4, <3>7 DEF OrderOf
    <3>12. QED
      BY <1>1, <2>2, <3>2, <3>3, <3>4, <3>7, <3>8, <3>9, <3>10, <3>11 DEF OrderOf
  <2>3. QED BY <2>1, <2>2
<1>6. CASE DropSession(t)
  <2>1. UNCHANGED <<polled, events, captured>> /\ ring'[u] \in {ring[u], <<>>}
    BY <1>1, <1>6 DEF TypeOK, DropSession
  <2>2. ToSet(<<>>) = {} /\ Increasing(<<>>) BY EmptySeq DEF ToSet, Increasing
  <2>3. QED BY <1>1, <2>1, <2>2 DEF OrderOf, Seen
<1>7. CASE Capture(t)
  <2>1. CASE u # t BY <1>1, <1>7, <2>1 DEF TypeOK, OrderOf, Seen, Capture
  <2>2. CASE u = t
    <3> DEFINE new == captured[t] + 1
               full == Append(ring[t], new)
    <3>1. captured[t] \in Nat /\ new \in Keys /\ new \in Nat /\ ring[t] \in Seq(Nat)
      BY <1>1, <1>2, <1>7, MaxCapturedAssumption, KeysAreNumbers DEF TypeOK, Capture, Keys
    <3>2. /\ full \in Seq(Nat) /\ full # <<>>
          /\ ToSet(full) = ToSet(ring[t]) \union {new}
      <4> HIDE DEF new
      <4>1. full \in Seq(Nat) /\ Len(full) = Len(ring[t]) + 1 /\ Len(ring[t]) \in Nat
        BY <3>1, AppendFacts
      <4>1a. full # <<>> BY <4>1, EmptySeq
      <4>2. Elements(full) = Elements(ring[t]) \union {new} BY <3>1, AppendFacts
      <4>3. QED BY <4>1, <4>1a, <4>2, ToSetIsElements
    <3>3. \A e \in ToSet(ring[t]) : e \in Nat BY <1>2, ElementsAreNumbers
    <3>4. Increasing(full)
      <4>1. \A e \in ToSet(ring[t]) : e < new BY <1>1, <3>1, <3>3 DEF OrderOf
      <4>2. QED BY <1>1, <3>1, <4>1, IncreasingAppend DEF OrderOf
    <3>5. Increasing(Tail(full)) /\ ToSet(Tail(full)) \subseteq ToSet(full)
      <4> HIDE DEF full
      <4>1. Increasing(Tail(full)) BY <3>2, <3>4, IncreasingTail
      <4>2. ToSet(full) = {Head(full)} \union ToSet(Tail(full)) BY <3>2, TailFacts, ToSetIsElements
      <4>3. QED BY <4>1, <4>2
    <3>6. ring'[t] \in {full, Tail(full)} /\ captured'[t] = new
      BY <1>1, <1>7 DEF TypeOK, Capture
    <3>7. Increasing(ring'[t]) /\ ToSet(ring'[t]) \subseteq ToSet(ring[t]) \union {new}
      BY <3>2, <3>4, <3>5, <3>6
    <3>8. UNCHANGED <<polled, events>> /\ Seen(t)' = Seen(t) BY <1>7 DEF Capture, Seen
    <3>9. \A x \in Seen(t) \union ToSet(polled[t]) : x \in Nat
      BY <1>2, ElementsAreNumbers DEF Seen
    <3>10. \A x \in ToSet(ring[t]) \union Seen(t) \union ToSet(polled[t]) : x < new
      BY <1>1, <3>1, <3>3, <3>9 DEF OrderOf
    <3>11. new \notin ToSet(polled[t]) BY <3>1, <3>10
    <3> HIDE DEF new, full
    <3>12. \A e \in ToSet(ring'[t]) \union ToSet(polled[t]) \union Seen(t) : e <= new
      BY <3>1, <3>3, <3>7, <3>9, <3>10
    <3>13. \A e \in ToSet(ring'[t]) \union ToSet(polled[t]) :
             e \in Seen(t) \/ (\A x \in Seen(t) : x < e)
      BY <1>1, <3>7, <3>10 DEF OrderOf
    <3>14. \A e \in ToSet(ring'[t]) : \A p \in ToSet(polled[t]) :
             e < p => e \in Seen(t) \union ToSet(polled[t])
      <4>1. \A p \in ToSet(polled[t]) : ~(new < p) BY <3>1, <3>9, <3>10
      <4>2. QED BY <1>1, <3>7, <4>1 DEF OrderOf
    <3>15. QED
      BY <1>1, <2>2, <3>6, <3>7, <3>8, <3>12, <3>13, <3>14 DEF OrderOf
  <2>3. QED BY <2>1, <2>2
<1>8. QED
  BY <1>3, <1>4, <1>5, <1>6, <1>7
     DEF Starter, Drainer, Stopping, CreateSession, StartSession, Register, Poll, FinalPoll,
         Deliver, DrainReturns, StopBegins, MarkStopped, Expire, PollReturns, PollFails, server

(* The buffer of a trace only grows, so a stream's part of it stays where  *)
(* it is.                                                                  *)
LEMMA TraceStepStream ==
  ASSUME IInv, NEW t \in Traces, NEW s \in Streams,
         Starter(t) \/ Drainer(t) \/ Stopping(t) \/ Expire(t) \/ Capture(t)
  PROVE  StreamOf(s)'
<1>1. TypeOK /\ StreamOf(s) BY DEF IInv
<1>2. stream' = stream
  BY DEF Starter, Drainer, Stopping, CreateSession, StartSession, Register, Poll, FinalPoll,
         Deliver, DrainReturns, StopBegins, DropSession, MarkStopped, Expire, Capture
<1>3. \/ events' = events
      \/ /\ polled[t] # <<>>
         /\ events' = [events EXCEPT ![t] = Append(@, Head(polled[t]))]
  BY DEF Starter, Drainer, Stopping, CreateSession, StartSession, Register, Poll, FinalPoll,
         Deliver, DrainReturns, StopBegins, DropSession, MarkStopped, Expire, Capture
<1>4. ASSUME NEW u \in Traces
      PROVE  /\ Len(events[u]) \in Nat /\ Len(events'[u]) \in Nat
             /\ Len(events[u]) <= Len(events'[u])
             /\ \A i \in 1 .. Len(events[u]) : events'[u][i] = events[u][i]
  <2>1. events[u] \in Seq(Keys) /\ polled[t] \in Seq(Keys) BY <1>1 DEF TypeOK
  <2>2. Len(events[u]) \in Nat BY <2>1, LenProperties
  <2>3. CASE events'[u] = events[u] BY <2>2, <2>3
  <2>4. CASE polled[t] # <<>> /\ events'[u] = Append(events[u], Head(polled[t]))
    <3>1. Head(polled[t]) \in Keys BY <2>1, <2>4, TailFacts
    <3>2. QED BY <2>1, <2>4, <3>1, AppendFacts
  <2>5. QED BY <1>1, <1>3, <2>3, <2>4 DEF TypeOK
<1>5. CASE stream[s].at = "idle" BY <1>1, <1>2, <1>5 DEF StreamOf
<1>6. CASE stream[s].at # "idle"
  <2> DEFINE u == stream[s].trace
  <2>1. PICK a \in 0 .. Len(events[u]) : u \in Traces /\ From(s, a)
    BY <1>1, <1>6 DEF StreamOf
  <2>2. stream[s].sent \in Seq(Keys) /\ Len(stream[s].sent) \in Nat
    BY <1>1, LenProperties DEF TypeOK, StreamStates
  <2>3. a \in 0 .. Len(events'[u]) BY <1>4, <2>1
  <2>4. From(s, a)'
    <3>1. \A i \in 1 .. Len(stream[s].sent) : a + i \in 1 .. Len(events[u])
      BY <1>4, <2>1, <2>2 DEF From
    <3>2. a # 0 => a \in 1 .. Len(events[u]) BY <1>4, <2>1
    <3>3. a + Len(stream[s].sent) <= Len(events'[u]) BY <1>4, <2>1, <2>2 DEF From
    <3>4. QED BY <1>2, <1>4, <2>1, <3>1, <3>2, <3>3 DEF From
  <2>5. QED BY <1>2, <1>6, <2>1, <2>3, <2>4 DEF StreamOf
<1>7. QED BY <1>5, <1>6

LEMMA TraceStepIInv ==
  ASSUME IInv, NEW t \in Traces,
         Starter(t) \/ Drainer(t) \/ Stopping(t) \/ Expire(t) \/ Capture(t)
  PROVE  IInv'
BY TraceStepType, TraceStepLife, TraceStepCall, TraceStepOrder, TraceStepStream DEF IInv

LEMMA CallStepIInv ==
  ASSUME IInv, NEW k \in Clients,
         StopReturns(k) \/ \E t \in Traces : StopTrace(k, t) \/ DeleteTrace(k, t)
  PROVE  IInv'
<1>1. TypeOK BY DEF IInv
<1>2. /\ UNCHANGED <<starter, session, ring, captured, drainer, polled, events, stage, running,
                     stream, doubtful>>
      /\ traces' \subseteq traces
  BY DEF StopReturns, StopTrace, DeleteTrace, server, history
<1>3. ASSUME NEW t \in Traces PROVE LifeOf(t)' /\ OrderOf(t)'
  <2>1. LifeOf(t) /\ OrderOf(t) BY DEF IInv
  <2>2. LifeOf(t)' BY <1>2, <2>1 DEF LifeOf
  <2>3. OrderOf(t)' BY <1>2, <2>1 DEF OrderOf, Seen
  <2>4. QED BY <2>2, <2>3
<1>4. ASSUME NEW s \in Streams PROVE StreamOf(s)'
  <2>1. StreamOf(s) BY DEF IInv
  <2>2. QED BY <1>2, <2>1 DEF StreamOf, From
<1>5. ASSUME NEW j \in Clients PROVE CallOf(j)'
  <2>1. CallOf(j) /\ CallOf(k) BY DEF IInv
  <2>2. CASE StopReturns(k) BY <1>1, <1>2, <2>1, <2>2 DEF TypeOK, StopReturns, CallOf
  <2>3. ASSUME NEW t \in Traces, StopTrace(k, t) \/ DeleteTrace(k, t) PROVE CallOf(j)'
    <3>1. drainer[t] # "none" BY <2>3 DEF StopTrace, DeleteTrace, IInv, LifeOf
    <3>2. call' = [call EXCEPT ![k].trace = t, ![k].at = "stop"]
      BY <2>3 DEF StopTrace, DeleteTrace
    <3>3. QED BY <1>1, <1>2, <2>1, <3>1, <3>2 DEF TypeOK, CallOf
  <2>4. QED BY <2>2, <2>3
<1>6. TypeOK' BY CallStepType
<1>7. QED BY <1>3, <1>4, <1>5, <1>6 DEF IInv

(* A stream goes on where it was, and begins at the event it is asked for. *)
LEMMA StreamStepIInv ==
  ASSUME IInv, NEW s \in Streams,
         Tailing(s) \/ Disconnect(s) \/ \E t \in Traces : OpenStream(s, t)
  PROVE  IInv'
<1>1. TypeOK BY DEF IInv
<1>2. /\ UNCHANGED <<starter, session, ring, captured, traces, drainer, polled, events, stage,
                     running, call, doubtful>>
      /\ \A j \in Streams \ {s} : stream'[j] = stream[j]
  BY <1>1 DEF TypeOK, Tailing, SendEvents, CheckRunning, StreamTick, Disconnect, OpenStream,
              server, history
<1>3. ASSUME NEW t \in Traces PROVE LifeOf(t)' /\ OrderOf(t)'
  <2>1. LifeOf(t) /\ OrderOf(t) BY DEF IInv
  <2>2. LifeOf(t)' BY <1>2, <2>1 DEF LifeOf
  <2>3. OrderOf(t)' BY <1>2, <2>1 DEF OrderOf, Seen
  <2>4. QED BY <2>2, <2>3
<1>4. ASSUME NEW k \in Clients PROVE CallOf(k)' BY <1>2 DEF IInv, CallOf
<1>5. ASSUME NEW j \in Streams \ {s} PROVE StreamOf(j)'
  <2>1. StreamOf(j) BY DEF IInv
  <2>2. stream'[j] = stream[j] /\ events' = events BY <1>2
  <2>3. \A a : From(j, a) => From(j, a)' BY <2>2 DEF From
  <2>4. QED BY <2>1, <2>2, <2>3 DEF StreamOf
<1>6. StreamOf(s)'
  <2> DEFINE u == stream[s].trace
             buffer == events[u]
             sent == stream[s].sent
  <2>1. stream[s] \in StreamStates /\ StreamOf(s) BY DEF IInv, TypeOK
  <2>2. sent \in Seq(Keys) /\ Len(sent) \in Nat BY <2>1, LenProperties DEF StreamStates
  <2>3. CASE SendEvents(s)
    <3>1. PICK a \in 0 .. Len(buffer) : u \in Traces /\ From(s, a)
      BY <2>1, <2>3 DEF SendEvents, StreamOf
    <3>2. buffer \in Seq(Keys) /\ Len(buffer) \in Nat /\ Increasing(buffer)
      BY <3>1, LenProperties DEF IInv, TypeOK, OrderOf
    <3> DEFINE n == a + Len(sent)
               more == EventsSince(u, LastKey(s))
    <3>3. n \in 0 .. Len(buffer) /\ LastKey(s) = IF n = 0 THEN 0 ELSE buffer[n]
      BY <1>1, <3>1, LastKeyIsPosition
    <3> HIDE DEF n
    <3>4. /\ more \in Seq(Keys) /\ Len(more) = Len(buffer) - n
          /\ \A i \in 1 .. Len(buffer) - n : more[i] = buffer[n + i]
      BY <1>1, <3>1, <3>2, <3>3, EventsSinceSuffix
    <3> HIDE DEF more
    <3>5. /\ Len(sent \o more) = Len(sent) + Len(more)
          /\ \A i \in 1 .. Len(sent) + Len(more) :
               (sent \o more)[i] = IF i <= Len(sent) THEN sent[i] ELSE more[i - Len(sent)]
      BY <2>2, <3>4, ConcatProperties
    <3>6. /\ stream'[s].sent = sent \o more /\ stream'[s].trace = u
          /\ stream'[s].since = stream[s].since /\ stream'[s].at = "check"
      BY <1>1, <2>3 DEF SendEvents, TypeOK, StreamStates, more
    <3>7. a + Len(sent \o more) = Len(buffer)
      BY <2>2, <3>1, <3>2, <3>3, <3>4, <3>5 DEF n
    <3>8. ASSUME NEW i \in 1 .. Len(sent \o more) PROVE (sent \o more)[i] = buffer[a + i]
      <4>1. CASE i <= Len(sent) BY <2>2, <3>1, <3>5, <4>1 DEF From
      <4>2. CASE ~(i <= Len(sent))
        <5>1. i - Len(sent) \in 1 .. Len(buffer) - n /\ n + (i - Len(sent)) = a + i
          <6>1. i \in 1 .. Len(sent) + (Len(buffer) - n) BY <3>4, <3>5
          <6> HIDE DEF sent, buffer
          <6>2. QED BY <2>2, <3>2, <3>3, <4>2, <6>1 DEF n
        <5>2. QED BY <2>2, <3>2, <3>3, <3>4, <3>5, <4>2, <5>1
      <4>3. QED BY <4>1, <4>2
    <3>9. From(s, a)' BY <1>2, <3>1, <3>2, <3>6, <3>7, <3>8 DEF From
    <3>10. QED BY <1>2, <3>1, <3>6, <3>9 DEF StreamOf
  <2>4. CASE CheckRunning(s) \/ StreamTick(s) \/ Disconnect(s)
    <3>1. PICK x \in {"wait", "done", "drain", "gone"} : stream' = [stream EXCEPT ![s].at = x]
      BY <2>4 DEF CheckRunning, StreamTick, Disconnect
    <3>2. stream[s].at # "idle" BY <2>4 DEF CheckRunning, StreamTick, Disconnect
    <3>3. /\ stream'[s].sent = sent /\ stream'[s].trace = u
          /\ stream'[s].since = stream[s].since /\ stream'[s].at # "idle"
      BY <1>1, <2>1, <3>1 DEF TypeOK, StreamStates
    <3>4. QED BY <1>2, <2>1, <3>2, <3>3 DEF StreamOf, From
  <2>5. ASSUME NEW t \in Traces, OpenStream(s, t) PROVE StreamOf(s)'
    <3>1. PICK key \in {0} \union ToSet(events[t]) :
            stream' = [stream EXCEPT ![s].trace = t, ![s].since = key, ![s].at = "drain"]
      BY <2>5 DEF OpenStream
    <3>2. sent = <<>> BY <2>1, <2>5 DEF OpenStream, StreamOf
    <3>3. /\ stream'[s].sent = <<>> /\ stream'[s].trace = t
          /\ stream'[s].since = key /\ stream'[s].at = "drain"
      BY <1>1, <2>1, <3>1, <3>2 DEF TypeOK, StreamStates
    <3>4. events[t] \in Seq(Keys) /\ Len(events[t]) \in Nat /\ DOMAIN events[t] = 1 .. Len(events[t])
      BY <1>1, LenProperties DEF TypeOK
    <3>5. PICK a \in 0 .. Len(events[t]) : IF a = 0 THEN key = 0 ELSE key = events[t][a]
      <4>1. CASE key = 0 BY <3>4, <4>1
      <4>2. CASE key \in ToSet(events[t])
        <5>1. PICK i \in DOMAIN events[t] : key = events[t][i] BY <4>2 DEF ToSet
        <5>2. QED BY <3>4, <5>1
      <4>3. QED BY <4>1, <4>2
    <3>6. Len(<<>>) = 0 BY EmptySeq
    <3>7. From(s, a)' BY <1>2, <3>3, <3>4, <3>5, <3>6 DEF From
    <3>8. QED BY <1>2, <3>3, <3>5, <3>7 DEF StreamOf
  <2>6. QED BY <2>3, <2>4, <2>5 DEF Tailing
<1>7. TypeOK' BY StreamStepType
<1>8. QED BY <1>3, <1>4, <1>5, <1>6, <1>7 DEF IInv

LEMMA NextIInv ==
  ASSUME IInv, [Next]_vars
  PROVE  IInv'
<1>1. CASE GC
  <2>1. /\ UNCHANGED <<timed, starter, server, cancelled, drainer, polled, events, stage,
                       running, call, stream, history, faults>>
        /\ traces' \subseteq traces
    BY <1>1 DEF GC
  <2>2. TypeOK' BY <2>1 DEF IInv, TypeOK, server, history
  <2>3. ASSUME NEW t \in Traces PROVE LifeOf(t)' /\ OrderOf(t)'
    <3>1. LifeOf(t) /\ OrderOf(t) BY DEF IInv
    <3>2. LifeOf(t)' BY <2>1, <3>1 DEF LifeOf, server, history
    <3>3. OrderOf(t)' BY <2>1, <3>1 DEF OrderOf, Seen, server
    <3>4. QED BY <3>2, <3>3
  <2>4. QED BY <2>1, <2>2, <2>3 DEF IInv, CallOf, StreamOf, From
<1>2. CASE UNCHANGED vars
  BY <1>2 DEF vars, server, history, IInv, TypeOK, LifeOf, OrderOf, Seen, CallOf, StreamOf, From
<1>3. QED BY <1>1, <1>2, TraceStepIInv, CallStepIInv, StreamStepIInv DEF Next

LEMMA Invariant == Spec => []IInv
<1>1. IInv /\ [Next]_vars => IInv' BY NextIInv
<1>2. QED BY <1>1, InitIInv, PTL DEF Spec

-----------------------------------------------------------------------------
(* Theorems *)

(* The registry, the goroutines and the server keep their types.           *)
THEOREM TypeCorrect == Spec => []TypeOK
<1>1. IInv => TypeOK BY DEF IInv
<1>2. QED BY <1>1, Invariant, PTL

(* An event session on the server belongs to a start that goes on or to a  *)
(* trace that will still drop it, or a CREATE or DROP of it failed, with   *)
(* any number of concurrent stops and deletes (Registry.Start,             *)
(* ActiveTrace.stop).                                                      *)
THEOREM SessionsHaveOwners == Spec => []SessionHasOwner
<1>1. IInv => SessionHasOwner
  <2> SUFFICES ASSUME IInv, NEW t \in Traces, session[t] # "none"
               PROVE  \/ starter[t] \in {"alter", "register"}
                      \/ t \in running /\ drainer[t] # "done" /\ stage[t] # "mark"
                      \/ t \in doubtful
    BY DEF SessionHasOwner
  <2>1. LifeOf(t) /\ starter[t] \in {"idle", "alter", "register", "done"}
    BY DEF IInv, TypeOK
  <2>2. QED BY <2>1 DEF LifeOf
<1>2. QED BY <1>1, Invariant, PTL

(* Overlapping polls of a ring buffer of any size leave every event once   *)
(* and in the order of its capture (Drain).                                *)
THEOREM EventsStayInOrder == Spec => []EventsInOrder
<1>1. IInv => EventsInOrder BY DEF IInv, OrderOf, Increasing, EventsInOrder
<1>2. QED BY <1>1, Invariant, PTL

(* Of an increasing buffer the events up to the one at position a are the  *)
(* first a.                                                                *)
LEMMA StartIsPosition ==
  ASSUME NEW buffer \in Seq(Keys), Increasing(buffer), NEW a \in 0 .. Len(buffer),
         NEW since, IF a = 0 THEN since = 0 ELSE since = buffer[a]
  PROVE  Cardinality({i \in DOMAIN buffer : buffer[i] <= since}) = a
<1>1. DOMAIN buffer = 1 .. Len(buffer) /\ Len(buffer) \in Nat /\ a \in Nat
  BY LenProperties
<1>2. \A i \in DOMAIN buffer : buffer[i] \in Nat /\ buffer[i] # 0
  <2>1. \A i \in DOMAIN buffer : buffer[i] \in Keys BY <1>1, ElementOfSeq
  <2>2. QED BY <2>1 DEF Keys
<1>3. \A i \in DOMAIN buffer : buffer[i] <= since <=> i <= a
  <2> SUFFICES ASSUME NEW i \in DOMAIN buffer PROVE buffer[i] <= since <=> i <= a
    OBVIOUS
  <2>1. CASE a = 0 BY <1>1, <1>2, <2>1
  <2>2. CASE a # 0
    <3>1. a \in DOMAIN buffer /\ since = buffer[a] BY <1>1, <2>2
    <3>2. CASE i < a
      <4>1. buffer[i] < buffer[a] BY <3>1, <3>2 DEF Increasing
      <4>2. QED BY <1>1, <1>2, <3>1, <3>2, <4>1
    <3>3. CASE i = a BY <1>1, <1>2, <3>1, <3>3
    <3>4. CASE a < i
      <4>1. buffer[a] < buffer[i] BY <3>1, <3>4 DEF Increasing
      <4>2. QED BY <1>1, <1>2, <3>1, <3>4, <4>1
    <3>5. QED BY <1>1, <3>2, <3>3, <3>4
  <2>3. QED BY <2>1, <2>2
<1>4. {i \in DOMAIN buffer : buffer[i] <= since} = 1 .. a BY <1>1, <1>3
<1>5. Cardinality(1 .. a) = a BY <1>1, FS_Interval
<1>6. QED BY <1>4, <1>5

(* A stream sends a gapless part of the buffer that begins after the event *)
(* it was asked for, while the drain appends to it (EventsSince,           *)
(* httpTraceStream).                                                       *)
THEOREM StreamsAreGapless == Spec => []StreamIsGapless
<1>1. IInv => StreamIsGapless
  <2> SUFFICES ASSUME IInv, NEW s \in Streams, stream[s].trace # NoTrace
               PROVE  LET buffer == events[stream[s].trace]
                          start == Cardinality({i \in DOMAIN buffer :
                                                  buffer[i] <= stream[s].since})
                      IN  IsPrefix(stream[s].sent, SubSeq(buffer, start + 1, Len(buffer)))
    BY DEF StreamIsGapless
  <2> DEFINE buffer == events[stream[s].trace]
             sent == stream[s].sent
  <2>1. PICK a \in 0 .. Len(buffer) : stream[s].trace \in Traces /\ From(s, a)
    BY DEF IInv, StreamOf
  <2>2. /\ buffer \in Seq(Keys) /\ Len(buffer) \in Nat /\ Increasing(buffer)
        /\ sent \in Seq(Keys) /\ Len(sent) \in Nat
    BY <2>1, LenProperties DEF IInv, TypeOK, StreamStates, OrderOf
  <2>3. /\ IF a = 0 THEN stream[s].since = 0 ELSE stream[s].since = buffer[a]
        /\ a + Len(sent) <= Len(buffer)
        /\ \A i \in 1 .. Len(sent) : sent[i] = buffer[a + i]
    BY <2>1 DEF From
  <2> HIDE DEF buffer, sent
  <2>4. Cardinality({i \in DOMAIN buffer : buffer[i] <= stream[s].since}) = a
    BY <2>2, <2>3, StartIsPosition
  <2> DEFINE rest == SubSeq(buffer, a + 1, Len(buffer))
  <2>5. /\ Len(rest) = Len(buffer) - a
        /\ \A i \in 1 .. Len(buffer) - a : rest[i] = buffer[a + i]
    <3>1. \A i \in a + 1 .. Len(buffer) : buffer[i] \in Keys BY <2>2, ElementOfSeq
    <3>2. /\ Len(rest) = IF a + 1 <= Len(buffer) THEN Len(buffer) - (a + 1) + 1 ELSE 0
          /\ \A i \in 1 .. Len(buffer) - (a + 1) + 1 : rest[i] = buffer[a + 1 + i - 1]
      BY <2>2, <3>1, SubSeqProperties
    <3>3. QED BY <2>2, <3>2
  <2> HIDE DEF rest
  <2>6. IsPrefix(sent, rest)
    <3>1. Len(sent) \in Nat /\ Len(buffer) \in Nat BY <2>2
    <3>2. Len(sent) <= Len(rest) BY <2>3, <2>5, <3>1
    <3>3. \A i \in 1 .. Len(sent) : i \in 1 .. Len(buffer) - a BY <2>3, <3>1
    <3>4. \A i \in 1 .. Len(sent) : sent[i] = rest[i] BY <2>3, <2>5, <3>3
    <3>5. SubSeq(sent, 1, Len(sent)) = SubSeq(rest, 1, Len(sent)) BY <3>1, <3>4
    <3>6. QED BY <3>2, <3>5 DEF IsPrefix
  <2>7. QED BY <2>4, <2>6 DEF rest, buffer, sent
<1>2. QED BY <1>1, Invariant, PTL
=============================================================================
