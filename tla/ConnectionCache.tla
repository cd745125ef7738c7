-------------------------- MODULE ConnectionCache --------------------------
(***************************************************************************)
(* The connection caches of the sql-server and the postgres plugin         *)
(* (client.go of each): For returns the pool of a config item, which it    *)
(* looks up, opens and stores in separate steps.  A database item is bound *)
(* to its database, and its pool is opened for that one.                   *)
(*                                                                         *)
(* ByDatabase is the postgres plugin: it asks for the item first and       *)
(* caches by item and database.  The sql-server plugin caches by item, and *)
(* asks for the item only when it opens a pool.                            *)
(***************************************************************************)
EXTENDS Naturals

CONSTANTS Calls,       \* calls of For
          Items,       \* config items
          Names,       \* names of databases
          Nothing,     \* no database: the one that the connection's URL names
          Bound,       \* Bound[i]: the database that item i is, or Nothing
          ByDatabase   \* the postgres plugin

ConnectionCacheAssumption ==
  /\ Nothing \notin Names /\ Nothing \notin Calls
  /\ Bound \in [Items -> Names \union {Nothing}]
  /\ ByDatabase \in BOOLEAN

VARIABLES
  onCache,   \* this plugin is the one that is looked at
  pc,        \* pc[c]: where For is
  item,      \* item[c]: the item of call c, or Nothing
  database,  \* database[c]: the database that the call is for
  pool,      \* pool[c]: the database of the pool that call c opened, or "none"
  result,    \* result[c]: the call whose pool For returned, or Nothing
  entries,   \* entries[k]: the call whose pool is cached, or Nothing
  unsure,    \* calls that failed to look up their item (history)
  missed     \* missed[c]: the pools whose openers had not stored them when c looked (history)

vars == <<onCache, pc, item, database, pool, result, entries, unsure, missed>>

Scopes == Names \union {Nothing}
Keys == Items \X Scopes
Key(c) == <<item[c], IF ByDatabase THEN database[c] ELSE Nothing>>

TypeOK ==
  /\ onCache \in BOOLEAN
  /\ pc \in [Calls -> {"idle", "open", "store", "returned", "failed"}]
  /\ item \in [Calls -> Items \union {Nothing}]
  /\ database \in [Calls -> Scopes]
  /\ pool \in [Calls -> Scopes \union {"none"}]
  /\ result \in [Calls -> Calls \union {Nothing}]
  /\ entries \in [Keys -> Calls \union {Nothing}]
  /\ unsure \subseteq Calls
  /\ missed \in [Calls -> SUBSET Calls]

Init ==
  /\ onCache \in BOOLEAN
  /\ pc = [c \in Calls |-> "idle"]
  /\ item = [c \in Calls |-> Nothing]
  /\ database = [c \in Calls |-> Nothing]
  /\ pool = [c \in Calls |-> "none"]
  /\ result = [c \in Calls |-> Nothing]
  /\ entries = [k \in Keys |-> Nothing]
  /\ unsure = {}
  /\ missed = [c \in Calls |-> {}]

-----------------------------------------------------------------------------
(* boundDatabase: an item that cannot be looked up is not bound.           *)
BoundDatabase(c, i, bound) ==
  \/ bound = Bound[i] /\ UNCHANGED unsure
  \/ bound = Nothing /\ unsure' = unsure \union {c}

(* What For asks the host before it looks into the cache.                  *)
Request(c, i, d) ==
  IF ByDatabase
  THEN \E bound \in Scopes :
         /\ BoundDatabase(c, i, bound)
         /\ database' = [database EXCEPT ![c] = IF bound = Nothing THEN d ELSE bound]
  ELSE d = Nothing /\ UNCHANGED <<database, unsure>>

(* Mutant: the database is not a part of the key.                          *)
Lookup_ByItem(c) ==
  LET same == {k \in Keys : k[1] = item'[c] /\ entries[k] # Nothing}
  IN /\ result' = [result EXCEPT ![c] = IF same = {} THEN Nothing
                                        ELSE entries[CHOOSE k \in same : TRUE]]
     /\ pc' = [pc EXCEPT ![c] = IF same = {} THEN "open" ELSE "returned"]

(* Mutant: what was found is not returned.                                 *)
Lookup_NeverHits(c) ==
  /\ pc' = [pc EXCEPT ![c] = "open"]
  /\ UNCHANGED result

(* The entry that lookup finds is returned.                                *)
Lookup(c) ==
  LET found == entries[Key(c)']
  IN /\ result' = [result EXCEPT ![c] = found]
     /\ pc' = [pc EXCEPT ![c] = IF found = Nothing THEN "open" ELSE "returned"]

For(c, i, d) ==
  /\ pc[c] = "idle"
  /\ item' = [item EXCEPT ![c] = i]
  /\ Request(c, i, d)
  /\ Lookup(c)
  /\ missed' = [missed EXCEPT ![c] = {o \in Calls : pc[o] \in {"open", "store"}}]
  /\ UNCHANGED <<onCache, pool, entries>>

(* Mutant: every pool is of the connection's own database.                 *)
Scope_Unscoped(c) == pool' = [pool EXCEPT ![c] = Nothing] /\ UNCHANGED <<database, unsure>>

(* withDefaultDatabase: the pool is opened for the bound database.         *)
Scope(c) ==
  IF ByDatabase
  THEN pool' = [pool EXCEPT ![c] = database[c]] /\ UNCHANGED <<database, unsure>>
  ELSE \E bound \in Scopes :
         /\ BoundDatabase(c, item[c], bound)
         /\ pool' = [pool EXCEPT ![c] = bound]
         /\ database' = [database EXCEPT ![c] = bound]

(* The connection and the item are looked up and the pool is opened.       *)
OpenGorm(c) ==
  /\ pc[c] = "open"
  /\ Scope(c)
  /\ pc' = [pc EXCEPT ![c] = "store"]
  /\ UNCHANGED <<onCache, item, result, entries, missed>>

(* The host has no connection, or the server does not answer; openGorm     *)
(* closes what it opened.                                                  *)
OpenFails(c) ==
  /\ pc[c] = "open"
  /\ pc' = [pc EXCEPT ![c] = "failed"]
  /\ UNCHANGED <<onCache, item, database, pool, result, entries, unsure, missed>>

(* store                                                                   *)
Store(c) ==
  /\ pc[c] = "store"
  /\ entries' = [entries EXCEPT ![Key(c)] = c]
  /\ result' = [result EXCEPT ![c] = c]
  /\ pc' = [pc EXCEPT ![c] = "returned"]
  /\ UNCHANGED <<onCache, item, database, pool, unsure, missed>>

Next ==
  /\ onCache
  /\ \E c \in Calls :
       \/ \E i \in Items, d \in Scopes : For(c, i, d)
       \/ OpenGorm(c) \/ OpenFails(c) \/ Store(c)

Spec == Init /\ [][Next]_vars

-----------------------------------------------------------------------------
(* An operation on a database item gets a pool of that item's database,    *)
(* and another operation one of the database it asked for; only a lookup   *)
(* that failed, of the call itself or of the one that opened the pool, may *)
(* leave it at the database it asked for or at the connection's own.       *)
PoolIsOfTheDatabase ==
  \A c \in Calls : result[c] # Nothing =>
    /\ item[result[c]] = item[c]
    /\ ByDatabase => pool[result[c]] = database[c]
    /\ pool[result[c]] # Bound[item[c]] /\ Bound[item[c]] # Nothing =>
         c \in unsure \/ result[c] \in unsure

(* No pool is lost without need: one that was opened but is not cached any *)
(* more was opened at the same time as the cached one, so that neither     *)
(* call could have found the other's.                                      *)
LostPoolNeedsOverlap ==
  \A c \in Calls : pc[c] = "returned" /\ result[c] = c =>
    LET kept == entries[Key(c)]
    IN kept = c \/ kept \in missed[c] \/ c \in missed[kept]
=============================================================================
