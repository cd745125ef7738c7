--------------------------- MODULE ExclusiveSlots ---------------------------
(***************************************************************************)
(* What a plugin promises about a resource that may exist once per slot    *)
(* (an Arthas attachment per pod and container, for example): somebody     *)
(* reserves the slot, then either commits, and holds it, or aborts; the    *)
(* holder is eventually released.  A slot that is reserved or held is      *)
(* never reserved a second time.                                           *)
(***************************************************************************)
CONSTANTS Slots,  \* what may be owned
          Ids     \* who may own it

VARIABLES creating,  \* creating[s]: those building the resource of slot s
          held       \* held[s]: those that own the finished resource

vars == <<creating, held>>

Init ==
  /\ creating = [s \in Slots |-> {}]
  /\ held = [s \in Slots |-> {}]

(* A slot is reserved only when nobody builds or owns its resource. *)
Reserve(s, i) ==
  /\ creating[s] = {}
  /\ held[s] = {}
  /\ creating' = [creating EXCEPT ![s] = {i}]
  /\ UNCHANGED held

Commit(s, i) ==
  /\ i \in creating[s]
  /\ creating' = [creating EXCEPT ![s] = @ \ {i}]
  /\ held' = [held EXCEPT ![s] = @ \union {i}]

Abort(s, i) ==
  /\ i \in creating[s]
  /\ creating' = [creating EXCEPT ![s] = @ \ {i}]
  /\ UNCHANGED held

Release(s, i) ==
  /\ i \in held[s]
  /\ held' = [held EXCEPT ![s] = @ \ {i}]
  /\ UNCHANGED creating

Next ==
  \E s \in Slots, i \in Ids :
    Reserve(s, i) \/ Commit(s, i) \/ Abort(s, i) \/ Release(s, i)

Spec == Init /\ [][Next]_vars
=============================================================================
