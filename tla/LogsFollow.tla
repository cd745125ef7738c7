----------------------------- MODULE LogsFollow -----------------------------
(***************************************************************************)
(* The follow stream of the kubernetes-logs plugin (followHTTPLogs of      *)
(* kubernetes-logs/http.go): a goroutine per container writes the lines of *)
(* its log, and another one heartbeats, to one response, with a mutex      *)
(* around every frame; the handler returns when the containers' goroutines *)
(* have ended, and the response must not be used after that.               *)
(***************************************************************************)
EXTENDS Naturals, Sequences

CONSTANTS Containers,
          MaxLines,   \* lines that a container logs
          MaxBeats    \* bound on heartbeats

LogsFollowAssumption ==
  /\ MaxLines \in Nat /\ MaxBeats \in Nat
  /\ "heartbeat" \notin Containers /\ "free" \notin Containers

VARIABLES
  onFollow,   \* this handler is the one that is looked at
  pc,         \* pc[a]: where a container's goroutine or the heartbeat is
  read,       \* read[k]: lines of container k that Scan returned
  lock,       \* the goroutine that holds mu, or "free"
  frames,     \* frames begun: the writer, and for a container the line, 0 for the error frame
  cut,        \* frames that another one was written into (history)
  beats,      \* heartbeats
  connected,  \* the request's context is not done
  handler     \* "following" or "returned"

vars == <<onFollow, pc, read, lock, frames, cut, beats, connected, handler>>

Heartbeat == "heartbeat"
Writers == Containers \union {Heartbeat}

TypeOK ==
  /\ onFollow \in BOOLEAN
  /\ pc \in [Writers -> {"connect", "scan", "frame", "writing", "tick", "done"}]
  /\ read \in [Containers -> 0 .. MaxLines]
  /\ lock \in Writers \union {"free"}
  /\ frames \in Seq(Writers \X (0 .. MaxLines))
  /\ cut \subseteq Writers \X (0 .. MaxLines)
  /\ beats \in 0 .. MaxBeats
  /\ connected \in BOOLEAN
  /\ handler \in {"following", "returned"}

Init ==
  /\ onFollow \in BOOLEAN
  /\ pc = [a \in Writers |-> IF a = Heartbeat THEN "tick" ELSE "connect"]
  /\ read = [k \in Containers |-> 0]
  /\ lock = "free"
  /\ frames = <<>>
  /\ cut = {}
  /\ beats = 0
  /\ connected = TRUE
  /\ handler = "following"

Goto(a, p) == pc' = [pc EXCEPT ![a] = p]

(* The frame that writer a writes: its line, 0 for an error or a comment.  *)
Frame(a) == <<a, IF a = Heartbeat THEN 0 ELSE read[a]>>

-----------------------------------------------------------------------------
(* A container's goroutine. *)

(* GetLogs fails, which writes an error frame.                             *)
StreamFails(k) ==
  /\ pc[k] = "connect"
  /\ Goto(k, "frame")
  /\ UNCHANGED <<onFollow, read, lock, frames, cut, beats, connected, handler>>

StreamOpens(k) ==
  /\ pc[k] = "connect" /\ connected
  /\ Goto(k, "scan")
  /\ UNCHANGED <<onFollow, read, lock, frames, cut, beats, connected, handler>>

(* streamLines: a line is read, and written unless the request is gone.    *)
ScanLine(k) ==
  /\ pc[k] = "scan" /\ read[k] < MaxLines
  /\ read' = [read EXCEPT ![k] = @ + 1]
  /\ Goto(k, IF connected THEN "frame" ELSE "done")
  /\ UNCHANGED <<onFollow, lock, frames, cut, beats, connected, handler>>

(* Scan returns false: the container ended, the connection broke, or a line *)
(* is over the scanner's limit; streamLines does not look at its error.     *)
ScanEnds(k) ==
  /\ pc[k] = "scan"
  /\ Goto(k, "done")
  /\ UNCHANGED <<onFollow, read, lock, frames, cut, beats, connected, handler>>

-----------------------------------------------------------------------------
(* The heartbeat: select takes any branch that is ready. *)

Tick ==
  /\ pc[Heartbeat] = "tick" /\ beats < MaxBeats
  /\ beats' = beats + 1
  /\ Goto(Heartbeat, "frame")
  /\ UNCHANGED <<onFollow, read, lock, frames, cut, connected, handler>>

HeartbeatEnds ==
  /\ pc[Heartbeat] = "tick"
  /\ ~connected \/ handler = "returned"
  /\ Goto(Heartbeat, "done")
  /\ UNCHANGED <<onFollow, read, lock, frames, cut, beats, connected, handler>>

-----------------------------------------------------------------------------
(* Mutant: frames are written without the mutex.                           *)
Acquire_Unlocked(a) == UNCHANGED lock

(* write: every frame is written under mu.                                 *)
Acquire(a) == lock = "free" /\ lock' = a

BeginFrame(a) ==
  /\ pc[a] = "frame"
  /\ Acquire(a)
  /\ Goto(a, "writing")
  /\ frames' = Append(frames, Frame(a))
  /\ cut' = cut \union {Frame(b) : b \in {b \in Writers : pc[b] = "writing"}}
  /\ UNCHANGED <<onFollow, read, beats, connected, handler>>

(* The frame ends with its flush; a goroutine whose stream failed is done. *)
EndFrame(a) ==
  /\ pc[a] = "writing"
  /\ lock' = "free"
  /\ Goto(a, IF a = Heartbeat THEN "tick" ELSE IF read[a] = 0 THEN "done" ELSE "scan")
  /\ UNCHANGED <<onFollow, read, frames, cut, beats, connected, handler>>

(* Mutant: wg.Wait returns with the first goroutine that ends.             *)
Waited_First == \E k \in Containers : pc[k] = "done"

(* wg.Wait                                                                 *)
Waited == \A k \in Containers : pc[k] = "done"

Return ==
  /\ handler = "following"
  /\ Waited
  /\ handler' = "returned"
  /\ UNCHANGED <<onFollow, pc, read, lock, frames, cut, beats, connected>>

(* The client goes away, which cancels the request's context.              *)
Disconnect ==
  /\ connected
  /\ connected' = FALSE
  /\ UNCHANGED <<onFollow, pc, read, lock, frames, cut, beats, handler>>

Next ==
  /\ onFollow
  /\ \/ \E k \in Containers : StreamFails(k) \/ StreamOpens(k) \/ ScanLine(k) \/ ScanEnds(k)
     \/ Tick \/ HeartbeatEnds
     \/ \E a \in Writers : BeginFrame(a) \/ EndFrame(a)
     \/ Return \/ Disconnect

Spec == Init /\ [][Next]_vars

-----------------------------------------------------------------------------
(* No frame is written into another one, and the lines of a container come *)
(* out once and in the order of its log, unless its stream failed and all  *)
(* that comes out is the error, however the goroutines interleave (write,  *)
(* streamLines).                                                           *)
FramesOf(k) == {i \in DOMAIN frames : frames[i][1] = k}
LinesOf(k) == {frames[i][2] : i \in FramesOf(k)}

FramesAreWholeAndOrdered ==
  /\ cut = {}
  /\ \A k \in Containers :
       \/ \E i \in DOMAIN frames : FramesOf(k) = {i} /\ frames[i][2] = 0
       \/ /\ \E n \in 0 .. read[k] : LinesOf(k) = 1 .. n
          /\ \A i, j \in FramesOf(k) : i < j => frames[i][2] < frames[j][2]

(* When the handler returns to a client that still listens, every line     *)
(* that was read from a container's log has been written, and only the     *)
(* heartbeat, which nobody waits for, may still use the response           *)
(* (wg.Wait, close(done)).                                                 *)
ReturnedAfterLastLine ==
  handler = "returned" =>
    /\ \A k \in Containers : pc[k] = "done"
    /\ connected => \A k \in Containers : read[k] > 0 => LinesOf(k) = 1 .. read[k]
=============================================================================
