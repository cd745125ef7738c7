------------------------------ MODULE LogsPage ------------------------------
(***************************************************************************)
(* The page of the kubernetes-logs plugin (LogsApp.tsx) with its stream of *)
(* log lines (hooks/useLogStream.ts): the operator picks a pod and a       *)
(* container, turns following on and off and reloads, while the list of    *)
(* pods changes under the page.  Without following, the lines are a query  *)
(* whose key holds all parameters, which is left out.                      *)
(*                                                                         *)
(* React runs effects after a render, at the latest before the next one.   *)
(***************************************************************************)
EXTENDS Naturals, Sequences, Queries

CONSTANTS Pods,        \* what listPods may return: sets of numbers
          Containers,  \* values of the container field
          MaxLogs,     \* MAX_LOGS
          MaxLines,    \* bound on the lines of a stream
          MaxReloads   \* bound on the reloads

LogsAssumption ==
  /\ Pods \subseteq Nat \ {0} /\ Containers # {} /\ MaxLogs \in Nat \ {0}
  /\ MaxLines \in Nat /\ MaxReloads \in Nat

VARIABLES
  onLogs,       \* the page is shown
  pods,         \* podsQuery
  selectedPod,  \* 0 when none
  container,
  follow,
  streamNonce,
  seen,         \* the dependencies that the stream's effect has seen
  sent,         \* lines that the current stream has delivered
  late,         \* an aborted stream holds a line that was read before
  logs          \* the lines of stream.logs: their stream and number

vars == <<onLogs, pods, selectedPod, container, follow, streamNonce, seen, sent, late, logs>>

(* The dependencies of the effect: query, enabled and nonce.               *)
Wanted == [pod |-> selectedPod, container |-> container,
           enabled |-> follow /\ selectedPod # 0, nonce |-> streamNonce]
Dependencies == [pod : Pods \union {0}, container : Containers,
                 enabled : BOOLEAN, nonce : 0 .. MaxReloads]

TypeOK ==
  /\ onLogs \in BOOLEAN
  /\ pods \in [data : (SUBSET Pods) \union {Nothing}, flight : (SUBSET Pods) \union {Nothing}]
  /\ selectedPod \in Pods \union {0}
  /\ container \in Containers
  /\ follow \in BOOLEAN
  /\ streamNonce \in 0 .. MaxReloads
  /\ seen \in Dependencies
  /\ sent \in 0 .. MaxLines
  /\ late \in Dependencies \union {Nothing}
  /\ Len(logs) <= MaxLogs
  /\ \A i \in DOMAIN logs : logs[i] \in [of : Dependencies, n : 1 .. MaxLines]

Init ==
  /\ onLogs \in BOOLEAN
  /\ pods = NewQuery
  /\ selectedPod = 0
  /\ container = CHOOSE c \in Containers : TRUE
  /\ follow = FALSE
  /\ streamNonce = 0
  /\ seen = Wanted
  /\ sent = 0
  /\ late = Nothing
  /\ logs = <<>>

-----------------------------------------------------------------------------
(* A selected pod that is gone is replaced by the first of the list.       *)
PodToSelect ==
  IF pods.data = Nothing \/ selectedPod \in pods.data THEN selectedPod
  ELSE IF pods.data = {} THEN 0
  ELSE CHOOSE p \in pods.data : \A q \in pods.data : p <= q

(* Mutant: the lines of the last stream stay.                              *)
RunStreamEffect_KeepsLogs ==
  /\ seen' = Wanted
  /\ sent' = IF seen = Wanted THEN sent ELSE 0
  /\ late' \in IF seen # Wanted /\ seen.enabled THEN {seen, Nothing} ELSE {late}
  /\ UNCHANGED logs

(* Abort the stream, empty the lines, open another stream if enabled.      *)
RunStreamEffect ==
  /\ seen' = Wanted
  /\ IF seen = Wanted THEN UNCHANGED <<sent, late, logs>>
     ELSE /\ sent' = 0
          /\ logs' = <<>>
          /\ late' \in IF seen.enabled THEN {seen, Nothing} ELSE {late}

Settled == seen = Wanted /\ selectedPod = PodToSelect

Effects ==
  /\ ~Settled
  /\ RunStreamEffect
  /\ selectedPod' = PodToSelect
  /\ UNCHANGED <<onLogs, pods, container, follow, streamNonce>>

FetchPods(P) ==
  /\ pods' = Fetch(pods, P)
  /\ pods' # pods
  /\ UNCHANGED <<onLogs, selectedPod, container, follow, streamNonce, seen, sent, late, logs>>

PodsArrive ==
  /\ Fetching(pods)
  /\ pods' = Answered(pods)
  /\ RunStreamEffect
  /\ selectedPod' = PodToSelect
  /\ UNCHANGED <<onLogs, container, follow, streamNonce>>

(* A click or a keystroke; the browser has painted and run the effects of  *)
(* the render that showed the control.                                     *)
PickPod(p) ==
  /\ Settled /\ pods.data # Nothing /\ p \in pods.data
  /\ selectedPod' = p
  /\ UNCHANGED <<onLogs, pods, container, follow, streamNonce, seen, sent, late, logs>>

EditContainer(c) ==
  /\ Settled
  /\ container' = c
  /\ UNCHANGED <<onLogs, pods, selectedPod, follow, streamNonce, seen, sent, late, logs>>

ToggleFollow ==
  /\ Settled
  /\ follow' = ~follow
  /\ UNCHANGED <<onLogs, pods, selectedPod, container, streamNonce, seen, sent, late, logs>>

Reload ==
  /\ Settled /\ selectedPod # 0 /\ follow /\ streamNonce < MaxReloads
  /\ streamNonce' = streamNonce + 1
  /\ UNCHANGED <<onLogs, pods, selectedPod, container, follow, seen, sent, late, logs>>

-----------------------------------------------------------------------------
(* Mutant: the oldest lines stay when there are too many.                  *)
AppendLog_KeepsOldest(prev, entry) ==
  IF Len(prev) = MaxLogs THEN prev ELSE Append(prev, entry)

(* Mutant: the lines are never cut off.                                    *)
AppendLog_Unbounded(prev, entry) == Append(prev, entry)

AppendLog(prev, entry) ==
  LET next == Append(prev, entry)
  IN IF Len(next) > MaxLogs THEN SubSeq(next, Len(next) - MaxLogs + 1, Len(next)) ELSE next

(* A line of the current stream, which the next render's effects may abort *)
Line ==
  /\ seen.enabled /\ sent < MaxLines
  /\ sent' = sent + 1
  /\ logs' = AppendLog(logs, [of |-> seen, n |-> sent + 1])
  /\ UNCHANGED <<onLogs, pods, selectedPod, container, follow, streamNonce, seen, late>>

(* Mutant: a line that was read before the abort is shown.                 *)
LateLine_Shown ==
  /\ late # Nothing
  /\ late' = Nothing
  /\ logs' = AppendLog(logs, [of |-> late, n |-> 1])
  /\ UNCHANGED <<onLogs, pods, selectedPod, container, follow, streamNonce, seen, sent>>

(* `if (controller.signal.aborted) return`                                 *)
LateLine ==
  /\ late # Nothing
  /\ late' = Nothing
  /\ UNCHANGED <<onLogs, pods, selectedPod, container, follow, streamNonce, seen, sent, logs>>

Next ==
  /\ onLogs
  /\ \/ Effects
     \/ \E P \in SUBSET Pods : FetchPods(P)
     \/ PodsArrive
     \/ \E p \in Pods : PickPod(p)
     \/ \E c \in Containers : EditContainer(c)
     \/ ToggleFollow \/ Reload
     \/ Line \/ LateLine

Spec == Init /\ [][Next]_vars

-----------------------------------------------------------------------------
(* Once the effects have run, the lines shown while following are those of *)
(* the selected pod and container, and they are the newest MAX_LOGS that   *)
(* the stream has brought, each once and in order: no line of an earlier   *)
(* selection, however late, mixes in (useLogStream.ts:12-15, 22-57).       *)
LinesBelongToSelection ==
  seen = Wanted =>
    logs = [i \in 1 .. IF sent < MaxLogs THEN sent ELSE MaxLogs |->
              [of |-> Wanted, n |-> sent - (IF sent < MaxLogs THEN sent ELSE MaxLogs) + i]]
=============================================================================
