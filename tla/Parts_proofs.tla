----------------------------- MODULE Parts_proofs -----------------------------
(***************************************************************************)
(* Proofs about Parts for every value of the constants: of the two         *)
(* properties of MCParts, SelectionIsFollowed and RequestsAreFollowedUp,   *)
(* and of the types.  Each part has an inductive invariant of its own,     *)
(* which the steps of the others keep because they leave its variables     *)
(* alone.                                                                  *)
(***************************************************************************)
EXTENDS MCParts, SequenceFacts, SequenceTheorems, FiniteSetTheorems, WellFoundedInduction, TLAPS

-----------------------------------------------------------------------------
(* The connection caches, in both variants: byDb is postgres. *)

CacheKey(byDb, c) == <<item[c], IF byDb THEN cDatabase[c] ELSE Nothing>>

(* The call has opened a pool or is going to.                              *)
Opener(c) == pc[c] \in {"open", "store"} \/ cacheResult[c] = c

(* d is the database that the item of call c is bound to, as far as c      *)
(* could know.                                                             *)
Chosen(c, d) == d = Bound[item[c]] \/ Bound[item[c]] = Nothing \/ c \in unsure

CallOf(byDb, c) ==
  /\ pc[c] # "idle" => item[c] \in Items
  /\ pc[c] # "returned" => cacheResult[c] = Nothing
  /\ byDb /\ pc[c] \in {"open", "store"} => Chosen(c, cDatabase[c])
  /\ pc[c] = "store" \/ cacheResult[c] = c =>
       Chosen(c, pool[c]) /\ (byDb => pool[c] = cDatabase[c])
  /\ cacheResult[c] = c => cached[CacheKey(byDb, c)] # Nothing
  /\ cacheResult[c] # Nothing =>
       /\ cacheResult[cacheResult[c]] = cacheResult[c]
       /\ item[cacheResult[c]] = item[c]
       /\ byDb => cDatabase[cacheResult[c]] = cDatabase[c]

(* A cached pool is the one of a call that returned it, under its key.     *)
EntryOf(byDb, k) ==
  cached[k] # Nothing =>
    cacheResult[cached[k]] = cached[k] /\ CacheKey(byDb, cached[k]) = k

(* Of two calls that open a pool under the same key, one looked while the  *)
(* other was opening its own.                                              *)
PairOf(byDb, a, b) ==
  a # b /\ Opener(a) /\ Opener(b) /\ CacheKey(byDb, a) = CacheKey(byDb, b) =>
    a \in missed[b] \/ b \in missed[a]

CacheInv(byDb) ==
  /\ SqlCache!TypeOK
  /\ \A c \in Calls : CallOf(byDb, c)
  /\ \A k \in SqlCache!Keys : EntryOf(byDb, k)
  /\ \A a, b \in Calls : PairOf(byDb, a, b)

LEMMA ConnectionCacheFacts ==
  /\ Nothing \notin Names /\ Nothing \notin Calls
  /\ Bound \in [Items -> Names \union {Nothing}]
BY PartsAssumption DEF SqlCache!ConnectionCacheAssumption

LEMMA CacheInit == ASSUME NEW byDb \in BOOLEAN, SqlCache!Init PROVE CacheInv(byDb)
<1> USE ConnectionCacheFacts DEF SqlCache!Init
<1>1. SqlCache!TypeOK BY DEF SqlCache!TypeOK, SqlCache!Scopes
<1>2. \A c \in Calls : CallOf(byDb, c) BY DEF CallOf
<1>3. \A k \in SqlCache!Keys : EntryOf(byDb, k) BY DEF EntryOf
<1>4. \A a, b \in Calls : PairOf(byDb, a, b) BY DEF PairOf, Opener
<1>5. QED BY <1>1, <1>2, <1>3, <1>4 DEF CacheInv

(* What a call of For does to the variables that the invariant is about.   *)
LEMMA ForDoes ==
  ASSUME NEW byDb \in BOOLEAN, NEW c \in Calls, NEW i \in Items, NEW d \in SqlCache!Scopes,
         CacheInv(byDb),
         (byDb = FALSE /\ SqlCache!For(c, i, d)) \/ (byDb = TRUE /\ PgCache!For(c, i, d))
  PROVE  /\ pc[c] = "idle"
         /\ item' = [item EXCEPT ![c] = i]
         /\ \E s \in SqlCache!Scopes :
              /\ cDatabase' = [cDatabase EXCEPT ![c] = s]
              /\ unsure \subseteq unsure' /\ unsure' \subseteq unsure \union {c}
              /\ byDb => (s = Bound[i] \/ Bound[i] = Nothing \/ c \in unsure')
         /\ cacheResult' = [cacheResult EXCEPT ![c] = cached[CacheKey(byDb, c)']]
         /\ pc' = [pc EXCEPT ![c] = IF cached[CacheKey(byDb, c)'] = Nothing
                                    THEN "open" ELSE "returned"]
         /\ missed' = [missed EXCEPT ![c] = {o \in Calls : pc[o] \in {"open", "store"}}]
         /\ UNCHANGED <<pool, cached>>
<1> USE ConnectionCacheFacts DEF CacheInv
<1>1. CASE byDb = FALSE
  <2>1. SqlCache!For(c, i, d) BY <1>1
  <2>2. UNCHANGED <<cDatabase, unsure>> BY <2>1 DEF SqlCache!For, SqlCache!Request
  <2>3. cDatabase' = [cDatabase EXCEPT ![c] = cDatabase[c]] /\ cDatabase[c] \in SqlCache!Scopes
    BY <2>2 DEF SqlCache!TypeOK
  <2>4. QED BY <1>1, <2>1, <2>2, <2>3 DEF SqlCache!For, SqlCache!Lookup, SqlCache!Key, CacheKey
<1>2. CASE byDb = TRUE
  <2>1. PgCache!For(c, i, d) BY <1>2
  <2>2. PICK bound \in PgCache!Scopes :
          /\ PgCache!BoundDatabase(c, i, bound)
          /\ cDatabase' = [cDatabase EXCEPT ![c] = IF bound = Nothing THEN d ELSE bound]
    BY <2>1 DEF PgCache!For, PgCache!Request
  <2> DEFINE s == IF bound = Nothing THEN d ELSE bound
  <2>3. s \in SqlCache!Scopes BY DEF SqlCache!Scopes, PgCache!Scopes
  <2>4. unsure \subseteq unsure' /\ unsure' \subseteq unsure \union {c}
    BY <2>2 DEF PgCache!BoundDatabase
  <2>5. s = Bound[i] \/ Bound[i] = Nothing \/ c \in unsure'
    BY <2>2 DEF PgCache!BoundDatabase
  <2>6. \E t \in SqlCache!Scopes :
          /\ cDatabase' = [cDatabase EXCEPT ![c] = t]
          /\ unsure \subseteq unsure' /\ unsure' \subseteq unsure \union {c}
          /\ byDb => (t = Bound[i] \/ Bound[i] = Nothing \/ c \in unsure')
    BY <2>2, <2>3, <2>4, <2>5
  <2> HIDE DEF s
  <2>7. QED BY <1>2, <2>1, <2>6 DEF PgCache!For, PgCache!Lookup, PgCache!Key, CacheKey
<1>3. QED BY <1>1, <1>2

LEMMA OpenGormDoes ==
  ASSUME NEW byDb \in BOOLEAN, NEW c \in Calls, CacheInv(byDb),
         (byDb = FALSE /\ SqlCache!OpenGorm(c)) \/ (byDb = TRUE /\ PgCache!OpenGorm(c))
  PROVE  /\ pc[c] = "open" /\ pc' = [pc EXCEPT ![c] = "store"]
         /\ \E s \in SqlCache!Scopes :
              /\ pool' = [pool EXCEPT ![c] = s]
              /\ cDatabase' = IF byDb THEN cDatabase ELSE [cDatabase EXCEPT ![c] = s]
              /\ unsure \subseteq unsure' /\ unsure' \subseteq unsure \union {c}
              /\ s = Bound[item[c]] \/ Bound[item[c]] = Nothing \/ c \in unsure'
              /\ byDb => s = cDatabase[c]
         /\ UNCHANGED <<item, cacheResult, cached, missed>>
<1> USE ConnectionCacheFacts DEF CacheInv
<1>1. CASE byDb = FALSE
  <2>1. SqlCache!OpenGorm(c) BY <1>1
  <2>2. PICK bound \in SqlCache!Scopes :
          /\ SqlCache!BoundDatabase(c, item[c], bound)
          /\ pool' = [pool EXCEPT ![c] = bound]
          /\ cDatabase' = [cDatabase EXCEPT ![c] = bound]
    BY <2>1 DEF SqlCache!OpenGorm, SqlCache!Scope
  <2>3. /\ unsure \subseteq unsure' /\ unsure' \subseteq unsure \union {c}
        /\ bound = Bound[item[c]] \/ Bound[item[c]] = Nothing \/ c \in unsure'
    BY <2>2 DEF SqlCache!BoundDatabase
  <2>4. QED BY <1>1, <2>1, <2>2, <2>3 DEF SqlCache!OpenGorm
<1>2. CASE byDb = TRUE
  <2>1. PgCache!OpenGorm(c) BY <1>2
  <2>2. /\ pool' = [pool EXCEPT ![c] = cDatabase[c]] /\ UNCHANGED <<cDatabase, unsure>>
    BY <2>1 DEF PgCache!OpenGorm, PgCache!Scope
  <2>3. cDatabase[c] \in SqlCache!Scopes BY DEF SqlCache!TypeOK
  <2>4. pc[c] = "open" BY <2>1 DEF PgCache!OpenGorm
  <2>5. Chosen(c, cDatabase[c]) BY <1>2, <2>4 DEF CallOf
  <2>6. QED BY <1>2, <2>1, <2>2, <2>3, <2>5 DEF PgCache!OpenGorm, Chosen
<1>3. QED BY <1>1, <1>2

LEMMA OpenFailsDoes ==
  ASSUME NEW byDb \in BOOLEAN, NEW c \in Calls, CacheInv(byDb),
         (byDb = FALSE /\ SqlCache!OpenFails(c)) \/ (byDb = TRUE /\ PgCache!OpenFails(c))
  PROVE  /\ pc[c] = "open" /\ pc' = [pc EXCEPT ![c] = "failed"]
         /\ UNCHANGED <<item, cDatabase, pool, cacheResult, cached, unsure, missed>>
BY DEF SqlCache!OpenFails, PgCache!OpenFails

LEMMA StoreDoes ==
  ASSUME NEW byDb \in BOOLEAN, NEW c \in Calls, CacheInv(byDb),
         (byDb = FALSE /\ SqlCache!Store(c)) \/ (byDb = TRUE /\ PgCache!Store(c))
  PROVE  /\ pc[c] = "store" /\ pc' = [pc EXCEPT ![c] = "returned"]
         /\ cached' = [cached EXCEPT ![CacheKey(byDb, c)] = c]
         /\ cacheResult' = [cacheResult EXCEPT ![c] = c]
         /\ UNCHANGED <<item, cDatabase, pool, unsure, missed>>
BY DEF SqlCache!Store, PgCache!Store, SqlCache!Key, PgCache!Key, CacheKey

(* No result and no entry is a call that has not returned.                 *)
LEMMA UnreturnedIsNoResult ==
  ASSUME NEW byDb \in BOOLEAN, NEW c \in Calls, CacheInv(byDb), pc[c] # "returned"
  PROVE  /\ cacheResult[c] = Nothing
         /\ \A b \in Calls : cacheResult[b] # c
         /\ \A k \in SqlCache!Keys : cached[k] # c
BY ConnectionCacheFacts DEF CacheInv, CallOf, EntryOf

LEMMA ForKeepsCacheInv ==
  ASSUME NEW byDb \in BOOLEAN, NEW c \in Calls, NEW i \in Items, NEW d \in SqlCache!Scopes,
         CacheInv(byDb),
         (byDb = FALSE /\ SqlCache!For(c, i, d)) \/ (byDb = TRUE /\ PgCache!For(c, i, d)),
         part' = part
  PROVE  CacheInv(byDb)'
<1> USE ConnectionCacheFacts
<1> DEFINE key == CacheKey(byDb, c)'
<1>a. /\ pc[c] = "idle"
      /\ item' = [item EXCEPT ![c] = i]
      /\ \E s \in SqlCache!Scopes :
           /\ cDatabase' = [cDatabase EXCEPT ![c] = s]
           /\ unsure \subseteq unsure' /\ unsure' \subseteq unsure \union {c}
           /\ byDb => (s = Bound[i] \/ Bound[i] = Nothing \/ c \in unsure')
      /\ cacheResult' = [cacheResult EXCEPT ![c] = cached[key]]
      /\ pc' = [pc EXCEPT ![c] = IF cached[key] = Nothing THEN "open" ELSE "returned"]
      /\ missed' = [missed EXCEPT ![c] = {o \in Calls : pc[o] \in {"open", "store"}}]
      /\ UNCHANGED <<pool, cached>>
  BY ForDoes
<1> HIDE DEF key
<1>0. PICK found : found = cached[key] OBVIOUS
<1>1. /\ pc[c] = "idle"
      /\ item' = [item EXCEPT ![c] = i]
      /\ cacheResult' = [cacheResult EXCEPT ![c] = found]
      /\ pc' = [pc EXCEPT ![c] = IF found = Nothing THEN "open" ELSE "returned"]
      /\ missed' = [missed EXCEPT ![c] = {o \in Calls : pc[o] \in {"open", "store"}}]
      /\ UNCHANGED <<pool, cached>>
  BY <1>0, <1>a
<1>2. PICK s \in SqlCache!Scopes :
        /\ cDatabase' = [cDatabase EXCEPT ![c] = s]
        /\ unsure \subseteq unsure' /\ unsure' \subseteq unsure \union {c}
        /\ byDb => (s = Bound[i] \/ Bound[i] = Nothing \/ c \in unsure')
  BY <1>a
<1>3. SqlCache!TypeOK BY DEF CacheInv
<1>4. /\ cacheResult[c] = Nothing
      /\ \A b \in Calls : cacheResult[b] # c
      /\ \A k \in SqlCache!Keys : cached[k] # c
  BY <1>1, UnreturnedIsNoResult
<1>5. item'[c] = i /\ cDatabase'[c] = s BY <1>1, <1>2, <1>3 DEF SqlCache!TypeOK
<1>6. key = CacheKey(byDb, c)' /\ key \in SqlCache!Keys
  BY <1>5 DEF key, CacheKey, SqlCache!Keys, SqlCache!Scopes
<1>7. /\ found \in Calls \union {Nothing} /\ found # c
      /\ found # Nothing =>
           cacheResult[found] = found /\ CacheKey(byDb, found) = CacheKey(byDb, c)'
  BY <1>0, <1>3, <1>4, <1>6 DEF CacheInv, EntryOf, SqlCache!TypeOK
<1>8. \A b \in Calls \ {c} :
        /\ item'[b] = item[b] /\ cDatabase'[b] = cDatabase[b] /\ pool'[b] = pool[b]
        /\ pc'[b] = pc[b] /\ cacheResult'[b] = cacheResult[b] /\ missed'[b] = missed[b]
        /\ (b \in unsure' <=> b \in unsure)
  BY <1>1, <1>2, <1>3 DEF SqlCache!TypeOK
<1>9. \A b \in Calls \ {c} : CacheKey(byDb, b)' = CacheKey(byDb, b) BY <1>8 DEF CacheKey
<1>10. /\ cacheResult'[c] = found
       /\ pc'[c] = IF found = Nothing THEN "open" ELSE "returned"
       /\ missed'[c] = {o \in Calls : pc[o] \in {"open", "store"}}
  BY <1>1, <1>3 DEF SqlCache!TypeOK
<1>11. SqlCache!TypeOK'
  <2>1. item' \in [Calls -> Items \union {Nothing}] BY <1>1, <1>3 DEF SqlCache!TypeOK
  <2>2. cDatabase' \in [Calls -> SqlCache!Scopes] BY <1>2, <1>3 DEF SqlCache!TypeOK
  <2>3. cacheResult' \in [Calls -> Calls \union {Nothing}]
    BY <1>1, <1>3, <1>7 DEF SqlCache!TypeOK
  <2>4. pc' \in [Calls -> {"idle", "open", "store", "returned", "failed"}]
    BY <1>1, <1>3 DEF SqlCache!TypeOK
  <2>5. missed' \in [Calls -> SUBSET Calls] BY <1>1, <1>3 DEF SqlCache!TypeOK
  <2>6. unsure' \subseteq Calls BY <1>2, <1>3 DEF SqlCache!TypeOK
  <2>7. QED BY <1>1, <1>3, <2>1, <2>2, <2>3, <2>4, <2>5, <2>6
            DEF SqlCache!TypeOK, SqlCache!Keys, SqlCache!Scopes
<1>12. ASSUME NEW b \in Calls PROVE CallOf(byDb, b)'
  <2>1. CASE b = c
    <3>1. byDb => (Chosen(c, cDatabase[c]))' BY <1>2, <1>5 DEF Chosen
    <3>2. cacheResult'[c] # Nothing =>
            /\ cacheResult'[cacheResult'[c]] = cacheResult'[c]
            /\ item'[cacheResult'[c]] = item'[c]
            /\ byDb => cDatabase'[cacheResult'[c]] = cDatabase'[c]
      BY <1>7, <1>8, <1>10 DEF CacheKey
    <3>3. QED BY <2>1, <1>5, <1>7, <1>10, <3>1, <3>2 DEF CallOf
  <2>2. CASE b # c
    <3>1. CallOf(byDb, b) BY DEF CacheInv
    <3>2. cacheResult[b] \in (Calls \ {c}) \union {Nothing}
      BY <1>3, <1>4 DEF SqlCache!TypeOK
    <3>3. \A e : Chosen(b, e) => Chosen(b, e)' BY <1>8, <2>2 DEF Chosen
    <3>4. QED BY <1>1, <1>8, <1>9, <2>2, <3>1, <3>2, <3>3 DEF CallOf
  <2>3. QED BY <2>1, <2>2
<1>13. ASSUME NEW k \in SqlCache!Keys PROVE EntryOf(byDb, k)'
  <2>1. EntryOf(byDb, k) /\ cached[k] \in (Calls \ {c}) \union {Nothing}
    BY <1>3, <1>4 DEF CacheInv, SqlCache!TypeOK
  <2>2. cached' = cached BY <1>1
  <2>3. CASE cached[k] = Nothing BY <2>2, <2>3 DEF EntryOf
  <2>4. CASE cached[k] # Nothing
    <3>1. cached[k] \in Calls \ {c} BY <2>1, <2>4
    <3>2. cacheResult[cached[k]] = cached[k] /\ CacheKey(byDb, cached[k]) = k
      BY <2>1, <2>4 DEF EntryOf
    <3>3. cacheResult'[cached[k]] = cached[k] /\ CacheKey(byDb, cached[k])' = k
      BY <1>8, <1>9, <2>2, <3>1, <3>2
    <3>4. QED BY <2>2, <3>3 DEF EntryOf
  <2>5. QED BY <2>3, <2>4
<1>14. ASSUME NEW a \in Calls, NEW b \in Calls PROVE PairOf(byDb, a, b)'
  <2>1. ASSUME NEW o \in Calls \ {c}, Opener(c)', Opener(o)',
               CacheKey(byDb, c)' = CacheKey(byDb, o)'
        PROVE  o \in missed'[c]
    <3>1. found = Nothing BY <2>1, <1>7, <1>10 DEF Opener
    <3>2. Opener(o) BY <2>1, <1>8 DEF Opener
    <3>3. cached[CacheKey(byDb, o)] = Nothing BY <2>1, <1>0, <1>6, <1>9, <3>1
    <3>4. cacheResult[o] # o BY <3>3 DEF CacheInv, CallOf
    <3>5. QED BY <3>2, <3>4, <1>10 DEF Opener
  <2>2. a # c /\ b # c => PairOf(byDb, a, b)'
    BY <1>8, <1>9 DEF CacheInv, PairOf, Opener
  <2>3. QED BY <2>1, <2>2 DEF PairOf
<1>15. QED
  <2>1. SqlCache!Keys' = SqlCache!Keys BY DEF SqlCache!Keys, SqlCache!Scopes
  <2>2. QED BY <1>11, <1>12, <1>13, <1>14, <2>1 DEF CacheInv

LEMMA OpenGormKeepsCacheInv ==
  ASSUME NEW byDb \in BOOLEAN, NEW c \in Calls, CacheInv(byDb),
         (byDb = FALSE /\ SqlCache!OpenGorm(c)) \/ (byDb = TRUE /\ PgCache!OpenGorm(c)),
         part' = part
  PROVE  CacheInv(byDb)'
<1> USE ConnectionCacheFacts
<1>1. PICK s \in SqlCache!Scopes :
        /\ pool' = [pool EXCEPT ![c] = s]
        /\ cDatabase' = IF byDb THEN cDatabase ELSE [cDatabase EXCEPT ![c] = s]
        /\ unsure \subseteq unsure' /\ unsure' \subseteq unsure \union {c}
        /\ s = Bound[item[c]] \/ Bound[item[c]] = Nothing \/ c \in unsure'
        /\ byDb => s = cDatabase[c]
  BY OpenGormDoes
<1>2. /\ pc[c] = "open" /\ pc' = [pc EXCEPT ![c] = "store"]
      /\ UNCHANGED <<item, cacheResult, cached, missed>>
  BY OpenGormDoes
<1>3. SqlCache!TypeOK BY DEF CacheInv
<1>4. /\ cacheResult[c] = Nothing
      /\ \A b \in Calls : cacheResult[b] # c
      /\ \A k \in SqlCache!Keys : cached[k] # c
  BY <1>2, UnreturnedIsNoResult
<1>5. \A b \in Calls \ {c} :
        /\ cDatabase'[b] = cDatabase[b] /\ pool'[b] = pool[b] /\ pc'[b] = pc[b]
        /\ (b \in unsure' <=> b \in unsure)
  BY <1>1, <1>2, <1>3 DEF SqlCache!TypeOK
<1>6. pool'[c] = s /\ pc'[c] = "store" /\ (byDb => cDatabase'[c] = s)
  BY <1>1, <1>2, <1>3 DEF SqlCache!TypeOK
<1>7. \A b \in Calls : CacheKey(byDb, b)' = CacheKey(byDb, b)
  BY <1>1, <1>2 DEF CacheKey
<1>8. SqlCache!TypeOK'
  <2>1. cDatabase' \in [Calls -> SqlCache!Scopes]
    <3>1. CASE byDb BY <3>1, <1>1, <1>3 DEF SqlCache!TypeOK
    <3>2. CASE ~byDb BY <3>2, <1>1, <1>3 DEF SqlCache!TypeOK
    <3>3. QED BY <3>1, <3>2
  <2>2. pool' \in [Calls -> SqlCache!Scopes \union {"none"}]
    BY <1>1, <1>3 DEF SqlCache!TypeOK
  <2>3. pc' \in [Calls -> {"idle", "open", "store", "returned", "failed"}]
    BY <1>2, <1>3 DEF SqlCache!TypeOK
  <2>4. unsure' \subseteq Calls BY <1>1, <1>3 DEF SqlCache!TypeOK
  <2>5. QED BY <1>2, <1>3, <2>1, <2>2, <2>3, <2>4
            DEF SqlCache!TypeOK, SqlCache!Keys, SqlCache!Scopes
<1>9. ASSUME NEW b \in Calls PROVE CallOf(byDb, b)'
  <2>1. CallOf(byDb, b) BY DEF CacheInv
  <2>2. CASE b = c
    <3>1. (Chosen(c, pool[c]))' BY <1>1, <1>2, <1>6 DEF Chosen
    <3>2. byDb => (Chosen(c, cDatabase[c]))' BY <1>1, <1>2, <1>6 DEF Chosen
    <3>3. QED BY <2>1, <2>2, <1>2, <1>4, <1>6, <3>1, <3>2 DEF CallOf
  <2>3. CASE b # c
    <3>1. cacheResult[b] \in (Calls \ {c}) \union {Nothing}
      BY <1>3, <1>4 DEF SqlCache!TypeOK
    <3>2. \A e : Chosen(b, e) => Chosen(b, e)' BY <1>2, <1>5, <2>3 DEF Chosen
    <3>3. QED BY <1>2, <1>5, <1>7, <2>1, <2>3, <3>1, <3>2 DEF CallOf
  <2>4. QED BY <2>2, <2>3
<1>10. ASSUME NEW k \in SqlCache!Keys PROVE EntryOf(byDb, k)'
  <2>1. EntryOf(byDb, k) /\ cached[k] \in Calls \union {Nothing}
    BY <1>3 DEF CacheInv, SqlCache!TypeOK
  <2>2. QED BY <1>2, <1>7, <2>1 DEF EntryOf
<1>11. ASSUME NEW a \in Calls, NEW b \in Calls PROVE PairOf(byDb, a, b)'
  <2>1. \A o \in Calls : Opener(o)' => Opener(o) BY <1>2, <1>5 DEF Opener
  <2>2. QED BY <1>2, <1>7, <2>1 DEF CacheInv, PairOf
<1>12. QED
  <2>1. SqlCache!Keys' = SqlCache!Keys BY DEF SqlCache!Keys, SqlCache!Scopes
  <2>2. QED BY <1>8, <1>9, <1>10, <1>11, <2>1 DEF CacheInv

LEMMA OpenFailsKeepsCacheInv ==
  ASSUME NEW byDb \in BOOLEAN, NEW c \in Calls, CacheInv(byDb),
         (byDb = FALSE /\ SqlCache!OpenFails(c)) \/ (byDb = TRUE /\ PgCache!OpenFails(c)),
         part' = part
  PROVE  CacheInv(byDb)'
<1> USE ConnectionCacheFacts
<1>1. /\ pc[c] = "open" /\ pc' = [pc EXCEPT ![c] = "failed"]
      /\ UNCHANGED <<item, cDatabase, pool, cacheResult, cached, unsure, missed>>
  BY OpenFailsDoes
<1>2. SqlCache!TypeOK BY DEF CacheInv
<1>3. pc'[c] = "failed" /\ \A b \in Calls \ {c} : pc'[b] = pc[b]
  BY <1>1, <1>2 DEF SqlCache!TypeOK
<1>4. \A b \in Calls : CacheKey(byDb, b)' = CacheKey(byDb, b) BY <1>1 DEF CacheKey
<1>5. SqlCache!TypeOK'
  BY <1>1, <1>2 DEF SqlCache!TypeOK, SqlCache!Keys, SqlCache!Scopes
<1>6. ASSUME NEW b \in Calls PROVE CallOf(byDb, b)'
  <2>1. CallOf(byDb, b) BY DEF CacheInv
  <2>2. cacheResult[c] = Nothing BY <1>1, UnreturnedIsNoResult
  <2>3. \A e : Chosen(b, e)' <=> Chosen(b, e) BY <1>1 DEF Chosen
  <2>4. QED BY <1>1, <1>3, <1>4, <2>1, <2>2, <2>3 DEF CallOf
<1>7. ASSUME NEW k \in SqlCache!Keys PROVE EntryOf(byDb, k)'
  <2>1. EntryOf(byDb, k) /\ cached[k] \in Calls \union {Nothing}
    BY <1>2 DEF CacheInv, SqlCache!TypeOK
  <2>2. QED BY <1>1, <1>4, <2>1 DEF EntryOf
<1>8. ASSUME NEW a \in Calls, NEW b \in Calls PROVE PairOf(byDb, a, b)'
  <2>1. \A o \in Calls : Opener(o)' => Opener(o) BY <1>1, <1>3 DEF Opener
  <2>2. QED BY <1>1, <1>4, <2>1 DEF CacheInv, PairOf
<1>9. QED
  <2>1. SqlCache!Keys' = SqlCache!Keys BY DEF SqlCache!Keys, SqlCache!Scopes
  <2>2. QED BY <1>5, <1>6, <1>7, <1>8, <2>1 DEF CacheInv

LEMMA StoreKeepsCacheInv ==
  ASSUME NEW byDb \in BOOLEAN, NEW c \in Calls, CacheInv(byDb),
         (byDb = FALSE /\ SqlCache!Store(c)) \/ (byDb = TRUE /\ PgCache!Store(c)),
         part' = part
  PROVE  CacheInv(byDb)'
<1> USE ConnectionCacheFacts
<1>1. /\ pc[c] = "store" /\ pc' = [pc EXCEPT ![c] = "returned"]
      /\ cached' = [cached EXCEPT ![CacheKey(byDb, c)] = c]
      /\ cacheResult' = [cacheResult EXCEPT ![c] = c]
      /\ UNCHANGED <<item, cDatabase, pool, unsure, missed>>
  BY StoreDoes
<1>2. SqlCache!TypeOK BY DEF CacheInv
<1>3. cacheResult[c] = Nothing /\ \A b \in Calls : cacheResult[b] # c
  BY <1>1, UnreturnedIsNoResult
<1>4. item[c] \in Items /\ CallOf(byDb, c) BY <1>1 DEF CacheInv, CallOf
<1>5. CacheKey(byDb, c) \in SqlCache!Keys
  BY <1>2, <1>4 DEF CacheKey, SqlCache!Keys, SqlCache!Scopes, SqlCache!TypeOK
<1>6. \A b \in Calls \ {c} : pc'[b] = pc[b] /\ cacheResult'[b] = cacheResult[b]
  BY <1>1, <1>2 DEF SqlCache!TypeOK
<1>7. pc'[c] = "returned" /\ cacheResult'[c] = c BY <1>1, <1>2 DEF SqlCache!TypeOK
<1>8. /\ cached'[CacheKey(byDb, c)] = c
      /\ \A k \in SqlCache!Keys : k # CacheKey(byDb, c) => cached'[k] = cached[k]
  BY <1>1, <1>2, <1>5 DEF SqlCache!TypeOK
<1>9. \A b \in Calls : CacheKey(byDb, b)' = CacheKey(byDb, b) BY <1>1 DEF CacheKey
<1>10. SqlCache!TypeOK'
  <2>1. cached' \in [SqlCache!Keys -> Calls \union {Nothing}]
    BY <1>1, <1>2 DEF SqlCache!TypeOK
  <2>2. cacheResult' \in [Calls -> Calls \union {Nothing}] BY <1>1, <1>2 DEF SqlCache!TypeOK
  <2>3. pc' \in [Calls -> {"idle", "open", "store", "returned", "failed"}]
    BY <1>1, <1>2 DEF SqlCache!TypeOK
  <2>4. QED BY <1>1, <1>2, <2>1, <2>2, <2>3
            DEF SqlCache!TypeOK, SqlCache!Keys, SqlCache!Scopes
<1>11. ASSUME NEW b \in Calls PROVE CallOf(byDb, b)'
  <2>1. \A e : Chosen(b, e)' <=> Chosen(b, e) BY <1>1 DEF Chosen
  <2>2. CASE b = c BY <1>1, <1>4, <1>7, <1>8, <1>9, <2>1, <2>2 DEF CallOf
  <2>3. CASE b # c
    <3>1. CallOf(byDb, b) BY DEF CacheInv
    <3>2. cacheResult[b] \in (Calls \ {c}) \union {Nothing}
      BY <1>2, <1>3 DEF SqlCache!TypeOK
    <3>3. cacheResult[b] = b => CacheKey(byDb, b) \in SqlCache!Keys
      BY <1>2, <3>1 DEF CallOf, CacheKey, SqlCache!Keys, SqlCache!Scopes, SqlCache!TypeOK
    <3>4. cacheResult[b] = b => cached'[CacheKey(byDb, b)] # Nothing
      BY <1>8, <3>1, <3>3 DEF CallOf
    <3>5. QED BY <1>1, <1>6, <1>9, <2>1, <2>3, <3>1, <3>2, <3>4 DEF CallOf
  <2>4. QED BY <2>2, <2>3
<1>12. ASSUME NEW k \in SqlCache!Keys PROVE EntryOf(byDb, k)'
  <2>1. CASE k = CacheKey(byDb, c) BY <1>7, <1>8, <1>9, <2>1 DEF EntryOf
  <2>2. CASE k # CacheKey(byDb, c)
    <3>1. EntryOf(byDb, k) /\ cached'[k] \in Calls \union {Nothing} /\ cached'[k] = cached[k]
      BY <1>2, <1>8, <2>2 DEF CacheInv, SqlCache!TypeOK
    <3>2. QED BY <1>3, <1>6, <1>9, <3>1 DEF EntryOf
  <2>3. QED BY <2>1, <2>2
<1>13. ASSUME NEW a \in Calls, NEW b \in Calls PROVE PairOf(byDb, a, b)'
  <2>1. \A o \in Calls : Opener(o)' => Opener(o) BY <1>1, <1>6 DEF Opener
  <2>2. QED BY <1>1, <1>9, <2>1 DEF CacheInv, PairOf
<1>14. QED
  <2>1. SqlCache!Keys' = SqlCache!Keys BY DEF SqlCache!Keys, SqlCache!Scopes
  <2>2. QED BY <1>10, <1>11, <1>12, <1>13, <2>1 DEF CacheInv

LEMMA CacheStep ==
  ASSUME NEW byDb \in BOOLEAN, CacheInv(byDb), part' = part,
         (byDb = FALSE /\ SqlCache!Next) \/ (byDb = TRUE /\ PgCache!Next)
  PROVE  CacheInv(byDb)'
<1> DEFINE Step(c) ==
      \/ \E i \in Items, d \in SqlCache!Scopes :
           (byDb = FALSE /\ SqlCache!For(c, i, d)) \/ (byDb = TRUE /\ PgCache!For(c, i, d))
      \/ (byDb = FALSE /\ SqlCache!OpenGorm(c)) \/ (byDb = TRUE /\ PgCache!OpenGorm(c))
      \/ (byDb = FALSE /\ SqlCache!OpenFails(c)) \/ (byDb = TRUE /\ PgCache!OpenFails(c))
      \/ (byDb = FALSE /\ SqlCache!Store(c)) \/ (byDb = TRUE /\ PgCache!Store(c))
<1>1. PICK c \in Calls : Step(c)
  <2>1. CASE byDb = FALSE /\ SqlCache!Next BY <2>1 DEF SqlCache!Next
  <2>2. CASE byDb = TRUE /\ PgCache!Next
    BY <2>2 DEF PgCache!Next, PgCache!Scopes, SqlCache!Scopes
  <2>3. QED BY <2>1, <2>2
<1>2. CASE \E i \in Items, d \in SqlCache!Scopes :
             (byDb = FALSE /\ SqlCache!For(c, i, d)) \/ (byDb = TRUE /\ PgCache!For(c, i, d))
  BY <1>2, ForKeepsCacheInv
<1>3. CASE (byDb = FALSE /\ SqlCache!OpenGorm(c)) \/ (byDb = TRUE /\ PgCache!OpenGorm(c))
  BY <1>3, OpenGormKeepsCacheInv
<1>4. CASE (byDb = FALSE /\ SqlCache!OpenFails(c)) \/ (byDb = TRUE /\ PgCache!OpenFails(c))
  BY <1>4, OpenFailsKeepsCacheInv
<1>5. CASE (byDb = FALSE /\ SqlCache!Store(c)) \/ (byDb = TRUE /\ PgCache!Store(c))
  BY <1>5, StoreKeepsCacheInv
<1>6. QED BY <1>1, <1>2, <1>3, <1>4, <1>5

LEMMA CacheStutters ==
  ASSUME NEW byDb \in BOOLEAN, CacheInv(byDb), UNCHANGED <<part, cacheVars>>
  PROVE  CacheInv(byDb)'
BY DEF CacheInv, CallOf, EntryOf, PairOf, Opener, Chosen, CacheKey, cacheVars,
       SqlCache!TypeOK, SqlCache!Keys, SqlCache!Scopes

LEMMA CachePools ==
  /\ CacheInv(FALSE) => SqlCache!PoolIsOfTheDatabase
  /\ CacheInv(TRUE) => PgCache!PoolIsOfTheDatabase
<1> USE ConnectionCacheFacts
<1>1. ASSUME NEW byDb \in BOOLEAN, CacheInv(byDb), NEW c \in Calls, cacheResult[c] # Nothing
      PROVE  /\ item[cacheResult[c]] = item[c]
             /\ byDb => pool[cacheResult[c]] = cDatabase[c]
             /\ pool[cacheResult[c]] # Bound[item[c]] /\ Bound[item[c]] # Nothing =>
                  c \in unsure \/ cacheResult[c] \in unsure
  <2>1. cacheResult[c] \in Calls BY <1>1 DEF CacheInv, SqlCache!TypeOK
  <2>2. PICK r \in Calls : r = cacheResult[c] BY <2>1
  <2>3. CallOf(byDb, c) /\ CallOf(byDb, r) BY <1>1 DEF CacheInv
  <2>4. cacheResult[r] = r /\ item[r] = item[c] /\ (byDb => cDatabase[r] = cDatabase[c])
    BY <1>1, <2>2, <2>3 DEF CallOf
  <2>5. Chosen(r, pool[r]) /\ (byDb => pool[r] = cDatabase[r]) BY <2>3, <2>4 DEF CallOf
  <2>6. QED BY <2>2, <2>4, <2>5 DEF Chosen
<1>2. QED BY <1>1 DEF SqlCache!PoolIsOfTheDatabase, PgCache!PoolIsOfTheDatabase

LEMMA CacheLosses ==
  /\ CacheInv(FALSE) => SqlCache!LostPoolNeedsOverlap
  /\ CacheInv(TRUE) => PgCache!LostPoolNeedsOverlap
<1> USE ConnectionCacheFacts
<1>1. ASSUME NEW byDb \in BOOLEAN, CacheInv(byDb), NEW c \in Calls,
             pc[c] = "returned" /\ cacheResult[c] = c
      PROVE  LET kept == cached[CacheKey(byDb, c)]
             IN kept = c \/ kept \in missed[c] \/ c \in missed[kept]
  <2>1. CallOf(byDb, c) BY <1>1 DEF CacheInv
  <2>2. item[c] \in Items /\ cached[CacheKey(byDb, c)] # Nothing BY <1>1, <2>1 DEF CallOf
  <2>3. CacheKey(byDb, c) \in SqlCache!Keys
    BY <1>1, <2>2 DEF CacheInv, CacheKey, SqlCache!Keys, SqlCache!Scopes, SqlCache!TypeOK
  <2>4. PICK kept \in Calls : kept = cached[CacheKey(byDb, c)]
    BY <1>1, <2>2, <2>3 DEF CacheInv, SqlCache!TypeOK
  <2>5. cacheResult[kept] = kept /\ CacheKey(byDb, kept) = CacheKey(byDb, c)
    BY <1>1, <2>2, <2>3, <2>4 DEF CacheInv, EntryOf
  <2>6. kept = c \/ kept \in missed[c] \/ c \in missed[kept]
    BY <1>1, <2>5 DEF CacheInv, PairOf, Opener
  <2>7. QED BY <2>4, <2>6
<1>2. QED BY <1>1 DEF SqlCache!LostPoolNeedsOverlap, PgCache!LostPoolNeedsOverlap,
                      SqlCache!Key, PgCache!Key, CacheKey

-----------------------------------------------------------------------------
(* The console: nothing but the result of the latest statement is kept. *)

LEMMA ConsoleStep ==
  ASSUME Console!ResultOfLatestRun, Console!Next
  PROVE  Console!ResultOfLatestRun'
<1> USE DEF Console!ResultOfLatestRun
<1>1. CASE Console!Load
  BY <1>1 DEF Console!Load, Console!Close, Console!Mount
<1>2. CASE Console!OpenTab \/ Console!LeaveTab
  BY <1>2 DEF Console!OpenTab, Console!LeaveTab, Console!Close, Console!Mount
<1>3. CASE Console!EditorMounts
  BY <1>3 DEF Console!EditorMounts, Console!ExecuteQuery
<1>4. CASE Console!Run \/ Console!Clear
  BY <1>4 DEF Console!Run, Console!ExecuteQuery, Console!Clear
<1>5. CASE \E n \in 1 .. cSent : Console!Answer(n)
  BY <1>5 DEF Console!Answer, Console!Shown
<1>6. CASE \E q \in Statements : Console!SetStatement(q) \/ Console!OtherWindow(q)
  BY <1>6 DEF Console!SetStatement, Console!OtherWindow
<1>7. QED BY <1>1, <1>2, <1>3, <1>4, <1>5, <1>6 DEF Console!Next

-----------------------------------------------------------------------------
(* The page of the opensearch plugin: while a request runs, the profile    *)
(* that it was sent for stays selected.                                    *)

ProfilesInv ==
  /\ profiles \subseteq Profiles /\ queries \in Nat
  /\ profileName \in Profiles \union {Nothing} /\ params = profileName
  /\ profiles = {} =>
       /\ profileName = Nothing /\ pendingAction = Nothing
       /\ result = Nothing /\ preview = Nothing /\ selected = Nothing
  /\ pendingAction # Nothing =>
       /\ profileName \in Profiles
       /\ pendingAction.profile = profileName /\ pendingAction.params = profileName
  /\ OpenSearch!ShownTogether

LEMMA ProfilesInit == OpenSearch!Init => ProfilesInv
BY DEF OpenSearch!Init, ProfilesInv, OpenSearch!ShownTogether

LEMMA ProfilesStep ==
  ASSUME ProfilesInv, OpenSearch!Next
  PROVE  ProfilesInv'
<1> USE DEF ProfilesInv, OpenSearch!ShownTogether
<1>1. CASE \E P \in SUBSET Profiles : OpenSearch!ListArrives(P)
  BY <1>1 DEF OpenSearch!ListArrives
<1>2. CASE \E p \in Profiles : OpenSearch!SelectProfile(p)
  BY <1>2 DEF OpenSearch!SelectProfile
<1>3. CASE OpenSearch!Run("preview") \/ OpenSearch!Run("query")
  BY <1>3 DEF OpenSearch!Run
<1>4. CASE OpenSearch!PreviewArrives
  BY <1>4 DEF OpenSearch!PreviewArrives
<1>5. CASE \E n \in 0 .. MaxRows : OpenSearch!ResultArrives(n)
  <2>1. PICK n \in 0 .. MaxRows : OpenSearch!ResultArrives(n) BY <1>5
  <2>2. n \in Nat OBVIOUS
  <2>3. result' = [profile |-> profileName, rows |-> n, number |-> queries]
    BY <2>1 DEF OpenSearch!ResultArrives
  <2>4. result' \in [profile : Profiles, rows : Nat, number : Nat]
    BY <2>1, <2>2, <2>3 DEF OpenSearch!ResultArrives
  <2>5. result' # Nothing BY <2>4, PartsAssumption DEF OpenSearch!OpenSearchAssumption
  <2>6. selected' # Nothing =>
          /\ n # 0
          /\ selected' = [number |-> queries, row |-> 1]
    BY <2>1 DEF OpenSearch!ResultArrives
  <2>7. QED BY <2>1, <2>2, <2>3, <2>5, <2>6 DEF OpenSearch!ResultArrives
<1>6. CASE OpenSearch!RequestFails
  BY <1>6 DEF OpenSearch!RequestFails
<1>7. CASE \E r \in 1 .. MaxRows : OpenSearch!ClickRow(r)
  BY <1>7 DEF OpenSearch!ClickRow
<1>8. QED BY <1>1, <1>2, <1>3, <1>4, <1>5, <1>6, <1>7 DEF OpenSearch!Next

-----------------------------------------------------------------------------
(* The page of the s3 plugin: the request that runs is the one of the      *)
(* selection that the effect has seen.                                     *)

BucketInv ==
  /\ loadingObject \in BOOLEAN
  /\ reading # Nothing => reading = followedPath /\ reading \in Objects
  /\ followedPath \in Objects =>
       /\ selectedObject \in {followedPath, Nothing}
       /\ loadingObject <=> (reading = followedPath)

LEMMA BucketInit == S3!Init => BucketInv
BY PartsAssumption DEF S3!S3Assumption, S3!Paths, S3!Init, BucketInv

LEMMA BucketStep ==
  ASSUME BucketInv, S3!Next
  PROVE  BucketInv'
<1> USE DEF BucketInv
<1>1. Nothing \notin Objects BY PartsAssumption DEF S3!S3Assumption, S3!Paths
<1>2. CASE \E p \in entries \union {Nothing} : S3!Select(p)
  BY <1>2 DEF S3!Select
<1>3. CASE S3!Effects
  BY <1>1, <1>3 DEF S3!Effects
<1>4. CASE S3!ObjectAnswered \/ S3!LateAnswer
  BY <1>1, <1>4 DEF S3!ObjectAnswered, S3!LateAnswer
<1>5. CASE \E i \in DOMAIN loads : S3!PageArrives(i) \/ S3!ListingEnds(i) \/ S3!ListingFails(i)
  BY <1>5 DEF S3!PageArrives, S3!ListingEnds, S3!ListingFails
<1>6. QED BY <1>2, <1>3, <1>4, <1>5 DEF S3!Next

LEMMA BucketPreview == BucketInv => S3!PreviewBelongsToSelection
BY DEF BucketInv, S3!PreviewBelongsToSelection

-----------------------------------------------------------------------------
(* The page of the kubernetes-logs plugin: the lines are the newest of the *)
(* stream that the effect has opened.                                      *)

LineOf(of) == [n \in Nat |-> [of |-> of, n |-> n]]

LogsInv == sent \in Nat /\ logs = Newest(LineOf(lSeen), MaxLogs, sent)

LEMMA NoLines == \A f, m : m \in Nat \ {0} => Newest(f, m, 0) = <<>>
BY DEF Newest

LEMMA LogsInit == Logs!Init => LogsInv
<1>1. MaxLogs \in Nat \ {0} BY PartsAssumption DEF Logs!LogsAssumption
<1>2. QED BY <1>1, NoLines DEF Logs!Init, LogsInv

LEMMA LogsStep ==
  ASSUME LogsInv, Logs!Next
  PROVE  LogsInv'
<1>1. MaxLogs \in Nat \ {0} BY PartsAssumption DEF Logs!LogsAssumption
<1>2. ASSUME Logs!RunStreamEffect PROVE LogsInv'
  <2>1. CASE lSeen = Logs!Wanted BY <1>2, <2>1 DEF Logs!RunStreamEffect, LogsInv
  <2>2. CASE lSeen # Logs!Wanted
    BY <1>1, <1>2, <2>2, NoLines DEF Logs!RunStreamEffect, LogsInv
  <2>3. QED BY <2>1, <2>2
<1>3. CASE Logs!Effects \/ Logs!PodsArrive BY <1>2, <1>3 DEF Logs!Effects, Logs!PodsArrive
<1>4. CASE \/ \E P \in SUBSET Pods : Logs!FetchPods(P)
           \/ \E p \in Pods : Logs!PickPod(p)
           \/ \E c \in Containers : Logs!EditContainer(c)
           \/ Logs!ToggleFollow \/ Logs!Reload \/ Logs!LateLine
  BY <1>4 DEF Logs!FetchPods, Logs!PickPod, Logs!EditContainer, Logs!ToggleFollow, Logs!Reload,
              Logs!LateLine, LogsInv
<1>5. CASE Logs!Line
  <2> DEFINE f == LineOf(lSeen)
  <2>1. /\ sent' = sent + 1 /\ lSeen' = lSeen
        /\ logs' = Logs!AppendLog(logs, [of |-> lSeen, n |-> sent + 1])
    BY <1>5 DEF Logs!Line
  <2>2. sent \in Nat /\ sent + 1 \in Nat BY DEF LogsInv
  <2>3. f[sent + 1] = [of |-> lSeen, n |-> sent + 1] BY <2>2 DEF LineOf
  <2>4. f \in [Nat -> {f[n] : n \in Nat}] BY DEF LineOf
  <2> HIDE DEF f
  <2>5. logs' = KeepNewest(Append(logs, f[sent + 1]), MaxLogs)
    BY <2>1, <2>3 DEF Logs!AppendLog, KeepNewest
  <2>6. logs = Newest(f, MaxLogs, sent) BY DEF LogsInv, f
  <2>7. logs' = Newest(f, MaxLogs, sent + 1) BY <1>1, <2>2, <2>4, <2>5, <2>6, NewestMoves
  <2>8. LineOf(lSeen)' = f BY <2>1 DEF f
  <2>9. QED BY <2>1, <2>2, <2>7, <2>8 DEF LogsInv
<1>6. QED BY <1>3, <1>4, <1>5 DEF Logs!Next

LEMMA LogsLines == LogsInv => Logs!LinesBelongToSelection
<1> SUFFICES ASSUME LogsInv, lSeen = Logs!Wanted PROVE
      logs = [i \in 1 .. IF sent < MaxLogs THEN sent ELSE MaxLogs |->
                [of |-> Logs!Wanted, n |-> sent - (IF sent < MaxLogs THEN sent ELSE MaxLogs) + i]]
  BY DEF Logs!LinesBelongToSelection
<1> DEFINE size == IF sent < MaxLogs THEN sent ELSE MaxLogs
<1>1. MaxLogs \in Nat \ {0} BY PartsAssumption DEF Logs!LogsAssumption
<1>2. size \in Nat /\ size <= sent /\ sent \in Nat BY <1>1 DEF LogsInv
<1>3. logs = [i \in 1 .. size |-> LineOf(lSeen)[sent - size + i]] BY DEF LogsInv, Newest
<1> HIDE DEF size
<1>4. \A i \in 1 .. size : sent - size + i \in Nat BY <1>2
<1>5. logs = [i \in 1 .. size |-> [of |-> lSeen, n |-> sent - size + i]]
  BY <1>3, <1>4 DEF LineOf
<1>6. QED BY <1>5 DEF size

-----------------------------------------------------------------------------
(* The Trace tab: only the last stream may be open, and it is the one of   *)
(* the trace that the effect has seen.                                     *)

StreamRecords == [trace : Nat, sent : Nat, state : {"open", "aborted", "closed"}, whole : BOOLEAN]
EventRecords == [stream : Nat, n : Nat]

(* The events of stream k among E are the first m, in their order.         *)
ShownOf(E, k, m) ==
  LET shown == {i \in DOMAIN E : E[i].stream = k}
  IN /\ {E[i].n : i \in shown} = 1 .. m
     /\ \A i, j \in shown : i < j => E[i].n < E[j].n

(* The streams S while the effect has seen trace t, or none.               *)
StreamsOf(S, t) ==
  /\ S \in Seq(StreamRecords)
  /\ t \in Nat /\ (t # 0 => S # <<>>)
  /\ \A k \in DOMAIN S : S[k].state = "open" => k = Len(S) /\ t # 0 /\ S[k].trace = t

TraceInv ==
  /\ {traces, activeTraceID} \subseteq Nat
  /\ StreamsOf(streams, followed)
  /\ tEvents \in Seq(EventRecords)
  /\ \A i \in DOMAIN tEvents : tEvents[i].stream \in DOMAIN streams
  /\ followed = activeTraceID =>
       \A k \in DOMAIN streams : streams[k].state = "open" /\ streams[k].whole =>
         ShownOf(tEvents, k, streams[k].sent)

LEMMA NextIsShown ==
  ASSUME NEW E \in Seq(EventRecords), NEW k \in Nat, NEW m \in Nat, ShownOf(E, k, m)
  PROVE  ShownOf(Append(E, [stream |-> k, n |-> m + 1]), k, m + 1)
<1> DEFINE e == [stream |-> k, n |-> m + 1]
           F == Append(E, e)
<1>1. e \in EventRecords /\ e.stream = k /\ e.n = m + 1 BY DEF EventRecords
<1> HIDE DEF e
<1>2. /\ Len(E) \in Nat /\ DOMAIN E = 1 .. Len(E) /\ DOMAIN F = 1 .. Len(E) + 1
      /\ F[Len(E) + 1] = e /\ \A i \in 1 .. Len(E) : F[i] = E[i]
  BY <1>1, AppendFacts
<1> HIDE DEF F
<1> DEFINE old == {i \in DOMAIN E : E[i].stream = k}
           shown == {i \in DOMAIN F : F[i].stream = k}
<1>3. {E[i].n : i \in old} = 1 .. m /\ \A i, j \in old : i < j => E[i].n < E[j].n
  BY DEF ShownOf
<1>4. shown = old \union {Len(E) + 1} /\ \A i \in old : F[i] = E[i] /\ i \in 1 .. Len(E)
  BY <1>1, <1>2
<1> HIDE DEF shown, old
<1>5. {F[i].n : i \in shown} = {E[i].n : i \in old} \union {m + 1}
  <2>1. F[Len(E) + 1].n = m + 1 BY <1>1, <1>2
  <2>2. \A i \in shown : i \in old \/ i = Len(E) + 1 BY <1>4
  <2>3. \A i \in old : i \in shown /\ F[i].n = E[i].n BY <1>4
  <2>4. Len(E) + 1 \in shown BY <1>4
  <2>5. QED BY <2>1, <2>2, <2>3, <2>4
<1>6. {F[i].n : i \in shown} = 1 .. m + 1
  <2>1. (1 .. m) \union {m + 1} = 1 .. m + 1 OBVIOUS
  <2>2. {E[i].n : i \in old} = 1 .. m BY <1>3
  <2>3. QED BY <1>5, <2>1, <2>2, Zenon
<1>7. \A i \in old : E[i].n \in 1 .. m BY <1>3
<1>8. ASSUME NEW i \in shown, NEW j \in shown, i < j PROVE F[i].n < F[j].n
  <2>1. i \in old BY <1>2, <1>4, <1>8
  <2>2. CASE j \in old BY <1>3, <1>4, <1>8, <2>1, <2>2
  <2>3. CASE j = Len(E) + 1 BY <1>1, <1>2, <1>4, <1>7, <2>1, <2>3
  <2>4. QED BY <1>4, <2>2, <2>3
<1>9. QED BY <1>6, <1>8 DEF ShownOf, shown, F, e

LEMMA OthersStayShown ==
  ASSUME NEW E \in Seq(EventRecords), NEW e \in EventRecords, NEW k, NEW m,
         e.stream # k, ShownOf(E, k, m)
  PROVE  ShownOf(Append(E, e), k, m)
<1> DEFINE F == Append(E, e)
<1>1. /\ Len(E) \in Nat /\ DOMAIN E = 1 .. Len(E) /\ DOMAIN F = 1 .. Len(E) + 1
      /\ F[Len(E) + 1] = e /\ \A i \in 1 .. Len(E) : F[i] = E[i]
  BY AppendFacts
<1> HIDE DEF F
<1> DEFINE old == {i \in DOMAIN E : E[i].stream = k}
           shown == {i \in DOMAIN F : F[i].stream = k}
<1>2. {E[i].n : i \in old} = 1 .. m /\ \A i, j \in old : i < j => E[i].n < E[j].n
  BY DEF ShownOf
<1>3. shown = old /\ \A i \in old : F[i] = E[i] BY <1>1
<1> HIDE DEF shown, old
<1>4. {F[i].n : i \in shown} = {E[i].n : i \in old} BY <1>3
<1>5. QED BY <1>2, <1>3, <1>4 DEF ShownOf, shown, F

(* The effect leaves at most one stream open, of the trace that it sees    *)
(* now: either as it was, or a new one that has delivered nothing.         *)
LEMMA EffectsOnStreams ==
  ASSUME NEW S, StreamsOf(S, followed), activeTraceID \in Nat,
         NEW T, T = Trace!StreamsAfterEffects(S)
  PROVE  /\ StreamsOf(T, activeTraceID) /\ DOMAIN S \subseteq DOMAIN T
         /\ \A k \in DOMAIN T : T[k].state = "open" =>
              \/ k \in DOMAIN S /\ T[k] = S[k] /\ followed = activeTraceID
              \/ k \notin DOMAIN S /\ T[k].sent = 0
<1> DEFINE n == Len(S)
           aborting == followed # 0 /\ S[n].state = "open"
           aborted == IF aborting THEN [S EXCEPT ![n].state = "aborted"] ELSE S
           new == [trace |-> activeTraceID, sent |-> 0, state |-> "open", whole |-> TRUE]
<1>1. S \in Seq(StreamRecords) /\ n \in Nat /\ DOMAIN S = 1 .. n
  BY LenProperties DEF StreamsOf
<1>2. CASE followed = activeTraceID
  <2>1. T = S BY <1>2 DEF Trace!StreamsAfterEffects
  <2>2. QED BY <1>2, <2>1 DEF StreamsOf
<1>3. CASE followed # activeTraceID
  <2>1. /\ aborted \in Seq(StreamRecords) /\ Len(aborted) = n /\ DOMAIN aborted = 1 .. n
        /\ \A k \in 1 .. n : aborted[k].state # "open"
    <3>1. CASE aborting
      <4>1. n \in 1 .. n
        <5>1. S # <<>> BY <3>1 DEF StreamsOf
        <5>2. n # 0 BY <1>1, <5>1, EmptySeq
        <5>3. QED BY <1>1, <5>2
      <4>2. aborted = [S EXCEPT ![n].state = "aborted"] BY <3>1
      <4>3. \A k \in 1 .. n : S[k] \in StreamRecords BY <1>1, ElementOfSeq
      <4>4. \A k \in 1 .. n : k # n => aborted[k] = S[k] BY <1>1, <4>2
      <4>5. aborted[n] = [S[n] EXCEPT !.state = "aborted"] BY <1>1, <4>1, <4>2
      <4>6. \A k \in 1 .. n : aborted[k] \in StreamRecords
        BY <4>1, <4>3, <4>4, <4>5 DEF StreamRecords
      <4>7. DOMAIN aborted = 1 .. n /\ aborted = [k \in 1 .. n |-> aborted[k]] BY <1>1, <4>2
      <4> HIDE DEF aborted
      <4>8. aborted \in [1 .. n -> StreamRecords] BY <4>6, <4>7
      <4>9. aborted \in Seq(StreamRecords) /\ Len(aborted) = n BY <1>1, <4>7, <4>8, SeqDef
      <4>10. aborted[n].state = "aborted" BY <4>1, <4>3, <4>5 DEF StreamRecords
      <4>11. \A k \in 1 .. n : k # n => S[k].state # "open" BY <1>1 DEF StreamsOf
      <4>12. QED BY <4>4, <4>7, <4>9, <4>10, <4>11
    <3>2. CASE ~aborting
      <4>1. aborted = S BY <3>2
      <4>2. QED BY <1>1, <3>2, <4>1 DEF StreamsOf
    <3>3. QED BY <3>1, <3>2
  <2>2. CASE activeTraceID = 0
    <3>1. T = aborted BY <1>3, <2>2 DEF Trace!StreamsAfterEffects
    <3> HIDE DEF aborted
    <3>2. QED BY <1>1, <2>1, <2>2, <3>1 DEF StreamsOf
  <2>3. CASE activeTraceID # 0
    <3>1. T = Append(aborted, new) BY <1>3, <2>3 DEF Trace!StreamsAfterEffects
    <3>2. new \in StreamRecords /\ new.state = "open" /\ new.sent = 0 /\ new.trace = activeTraceID
      BY DEF StreamRecords
    <3> HIDE DEF aborted, new
    <3>3. /\ T \in Seq(StreamRecords) /\ Len(T) = n + 1 /\ DOMAIN T = 1 .. n + 1
          /\ T[n + 1] = new /\ \A k \in 1 .. n : T[k] = aborted[k]
      BY <2>1, <3>1, <3>2, AppendFacts
    <3>4. T # <<>> BY <1>1, <3>3, EmptySeq
    <3>5. \A k \in DOMAIN T : k = n + 1 \/ k \in 1 .. n BY <1>1, <3>3
    <3>6. \A k \in DOMAIN T : T[k].state = "open" => k = n + 1 BY <2>1, <3>3, <3>5
    <3>7. StreamsOf(T, activeTraceID)
      <4>1. T[n + 1].trace = activeTraceID BY <3>2, <3>3
      <4>2. \A k \in DOMAIN T : T[k].state = "open" =>
              k = Len(T) /\ activeTraceID # 0 /\ T[k].trace = activeTraceID
        BY <2>3, <3>3, <3>6, <4>1
      <4>3. QED BY <3>3, <3>4, <4>2 DEF StreamsOf
    <3>8. n + 1 \notin DOMAIN S /\ DOMAIN S \subseteq DOMAIN T BY <1>1, <3>3
    <3>9. QED BY <3>2, <3>3, <3>6, <3>7, <3>8
  <2>4. QED BY <2>2, <2>3
<1>4. QED BY <1>2, <1>3

(* What is left to show of a handler that lets the effects of the last     *)
(* render run and sets the streams to S before.                            *)
LEMMA RerenderKeepsTraceInv ==
  ASSUME TraceInv, NEW S, StreamsOf(S, followed), DOMAIN S = DOMAIN streams,
         Trace!Rerender(S),
         {traces', activeTraceID'} \subseteq Nat, tEvents' \in Seq(EventRecords),
         \A i \in DOMAIN tEvents' : tEvents'[i].stream \in DOMAIN streams,
         followed = activeTraceID /\ activeTraceID' = activeTraceID =>
           \A k \in DOMAIN S : S[k].state = "open" /\ S[k].whole =>
             ShownOf(tEvents', k, S[k].sent)
  PROVE  TraceInv'
<1>1. streams' = Trace!StreamsAfterEffects(S) /\ followed' = activeTraceID
  BY DEF Trace!Rerender
<1>2. activeTraceID \in Nat BY DEF TraceInv
<1>3. PICK T : T = streams' OBVIOUS
<1>4. /\ StreamsOf(T, activeTraceID) /\ DOMAIN S \subseteq DOMAIN T
      /\ \A k \in DOMAIN T : T[k].state = "open" =>
           \/ k \in DOMAIN S /\ T[k] = S[k] /\ followed = activeTraceID
           \/ k \notin DOMAIN S /\ T[k].sent = 0
  BY <1>1, <1>2, <1>3, EffectsOnStreams
<1>5. StreamsOf(streams, followed)' BY <1>1, <1>3, <1>4 DEF StreamsOf
<1>6. \A i \in DOMAIN tEvents' : tEvents'[i].stream \in DOMAIN T BY <1>4
<1>7. ASSUME NEW k \in DOMAIN T, followed' = activeTraceID', T[k].state = "open", T[k].whole
      PROVE  ShownOf(tEvents', k, T[k].sent)
  <2>1. CASE k \in DOMAIN S /\ T[k] = S[k] /\ followed = activeTraceID
    BY <1>1, <1>7, <2>1
  <2>2. CASE k \notin DOMAIN S /\ T[k].sent = 0
    <3>1. {i \in DOMAIN tEvents' : tEvents'[i].stream = k} = {} BY <2>2
    <3>2. {tEvents'[i].n : i \in {}} = 1 .. 0 OBVIOUS
    <3>3. QED BY <2>2, <3>1, <3>2 DEF ShownOf
  <2>3. QED BY <1>4, <1>7, <2>1, <2>2
<1>8. QED BY <1>3, <1>5, <1>6, <1>7 DEF TraceInv, ShownOf

LEMMA TraceInit == Trace!Init => TraceInv
<1> SUFFICES ASSUME Trace!Init PROVE TraceInv
  OBVIOUS
<1>1. streams = <<>> /\ tEvents = <<>> /\ followed = 0 /\ activeTraceID = 0 /\ traces = 0
  BY DEF Trace!Init
<1>2. <<>> \in Seq(StreamRecords) /\ <<>> \in Seq(EventRecords) /\ DOMAIN <<>> = {}
  BY EmptySeq
<1>3. QED BY <1>1, <1>2 DEF TraceInv, StreamsOf

(* Setting fields of one stream, but never the state to "open".            *)
LEMMA StreamChanges ==
  ASSUME TraceInv, NEW k \in DOMAIN streams, NEW r \in StreamRecords, NEW S,
         S = [streams EXCEPT ![k] = r], r.trace = streams[k].trace,
         r.state = "open" => streams[k].state = "open"
  PROVE  StreamsOf(S, followed) /\ DOMAIN S = DOMAIN streams
<1>1. /\ streams \in Seq(StreamRecords) /\ DOMAIN streams = 1 .. Len(streams)
      /\ Len(streams) \in Nat
  BY LenProperties DEF TraceInv, StreamsOf
<1>2. S[k] = r /\ DOMAIN S = DOMAIN streams /\ \A j \in DOMAIN streams : j # k => S[j] = streams[j]
  BY <1>1
<1>3. \A j \in DOMAIN streams : streams[j] \in StreamRecords BY <1>1, ElementOfSeq
<1>4. S \in [1 .. Len(streams) -> StreamRecords] BY <1>1, <1>3
<1>5. S \in Seq(StreamRecords) /\ Len(S) = Len(streams) BY <1>1, <1>2, <1>4, SeqDef
<1>6. S # <<>> BY <1>1, <1>2, EmptySeq
<1>7. QED BY <1>1, <1>2, <1>5, <1>6 DEF StreamsOf, TraceInv

LEMMA TraceStep ==
  ASSUME TraceInv, Trace!Next
  PROVE  TraceInv'
<1>1. /\ StreamsOf(streams, followed) /\ {traces, activeTraceID} \subseteq Nat
      /\ tEvents \in Seq(EventRecords)
      /\ \A i \in DOMAIN tEvents : tEvents[i].stream \in DOMAIN streams
      /\ followed = activeTraceID =>
           \A k \in DOMAIN streams : streams[k].state = "open" /\ streams[k].whole =>
             ShownOf(tEvents, k, streams[k].sent)
  BY DEF TraceInv
<1>2. <<>> \in Seq(EventRecords) /\ DOMAIN <<>> = {} BY EmptySeq
<1>3. CASE \/ Trace!Effects \/ Trace!Start \/ Trace!StartFailed
           \/ \E d \in deleting : Trace!DeleteFailed(d)
  <2>1. /\ Trace!Rerender(streams)
        /\ UNCHANGED <<traces, activeTraceID, tEvents>>
    BY <1>3 DEF Trace!Effects, Trace!Start, Trace!StartFailed, Trace!DeleteFailed
  <2>2. QED BY <1>1, <2>1, RerenderKeepsTraceInv
<1>4. CASE \E t \in 1 .. traces : Trace!Delete(t)
  <2>1. /\ Trace!Rerender(streams)
        /\ UNCHANGED <<traces, activeTraceID, tEvents>>
    BY <1>4 DEF Trace!Delete
  <2>2. QED BY <1>1, <2>1, RerenderKeepsTraceInv
<1>5. CASE \E t \in 1 .. traces : Trace!ClickRow(t)
  <2>1. PICK t \in 1 .. traces : Trace!ClickRow(t) BY <1>5
  <2>2. /\ Trace!Rerender(streams)
        /\ UNCHANGED <<traces, tEvents>> /\ activeTraceID' = t /\ t # activeTraceID /\ t \in Nat
    BY <2>1 DEF Trace!ClickRow
  <2>3. QED BY <1>1, <2>2, RerenderKeepsTraceInv
<1>6. CASE Trace!Started
  <2> DEFINE again == activeTraceID = traces /\ followed = traces
             S == IF again THEN [streams EXCEPT ![Len(streams)].whole = FALSE] ELSE streams
  <2>1. /\ Trace!Rerender(S)
        /\ traces' = traces /\ activeTraceID' = traces /\ tEvents' = <<>>
    BY <1>6 DEF Trace!Started
  <2>2. /\ StreamsOf(S, followed) /\ DOMAIN S = DOMAIN streams
        /\ again => \A k \in DOMAIN S : S[k].state = "open" => ~S[k].whole
    <3>1. CASE again /\ followed # 0
      <4> DEFINE k == Len(streams)
                 r == [streams[k] EXCEPT !.whole = FALSE]
      <4>1. /\ streams \in Seq(StreamRecords) /\ streams # <<>> /\ k \in Nat
            /\ DOMAIN streams = 1 .. k
        BY <1>1, <3>1, LenProperties DEF StreamsOf
      <4>2. k \in DOMAIN streams BY <4>1, EmptySeq
      <4>3. streams[k] \in StreamRecords BY <4>1, <4>2, ElementOfSeq
      <4>4. /\ r \in StreamRecords /\ r.trace = streams[k].trace /\ r.state = streams[k].state
            /\ ~r.whole
        BY <4>3 DEF StreamRecords
      <4>5. S = [streams EXCEPT ![k] = r] BY <3>1
      <4>6. S[k] = r BY <4>2, <4>5
      <4> HIDE DEF S, r
      <4>7. StreamsOf(S, followed) /\ DOMAIN S = DOMAIN streams
        BY <4>2, <4>4, <4>5, StreamChanges
      <4>8. Len(S) = k
        <5>1. S \in Seq(StreamRecords) BY <4>7 DEF StreamsOf
        <5>2. Len(S) \in Nat /\ DOMAIN S = 1 .. Len(S) BY <5>1, LenProperties
        <5>3. QED BY <4>1, <4>7, <5>2
      <4>9. QED BY <4>4, <4>6, <4>7, <4>8 DEF StreamsOf
    <3>2. CASE again /\ followed = 0
      <4>1. \A k \in DOMAIN streams : streams[k].state # "open" BY <1>1, <3>2 DEF StreamsOf
      <4>2. streams \in Seq(StreamRecords) /\ Len(streams) \in Nat /\ DOMAIN streams = 1 .. Len(streams)
        BY <1>1, LenProperties DEF StreamsOf
      <4>3. CASE streams = <<>>
        <5>1. Len(streams) \notin DOMAIN streams BY <4>2, <4>3, EmptySeq
        <5>2. S = streams
          <6>1. S = [j \in DOMAIN streams |-> streams[j]] BY <3>2, <5>1
          <6>2. streams = [j \in DOMAIN streams |-> streams[j]] BY <4>2
          <6>3. QED BY <6>1, <6>2
        <5>3. QED BY <1>1, <4>1, <5>2
      <4>4. CASE streams # <<>>
        <5> DEFINE k == Len(streams)
                   r == [streams[k] EXCEPT !.whole = FALSE]
        <5>1. k \in DOMAIN streams BY <4>2, <4>4, EmptySeq
        <5>2. streams[k] \in StreamRecords BY <4>2, <5>1, ElementOfSeq
        <5>3. /\ r \in StreamRecords /\ r.trace = streams[k].trace /\ r.state = streams[k].state
          BY <5>2 DEF StreamRecords
        <5>4. S = [streams EXCEPT ![k] = r] BY <3>2
        <5> HIDE DEF S, r
        <5>5. StreamsOf(S, followed) /\ DOMAIN S = DOMAIN streams
          BY <5>1, <5>3, <5>4, StreamChanges
        <5>6. QED BY <3>2, <5>5 DEF StreamsOf
      <4>5. QED BY <4>3, <4>4
    <3>3. CASE ~again BY <1>1, <3>3
    <3>4. QED BY <3>1, <3>2, <3>3
  <2> HIDE DEF S
  <2>3. QED BY <1>1, <1>2, <2>1, <2>2, RerenderKeepsTraceInv
<1>7. ASSUME NEW d \in deleting, Trace!Deleted(d) PROVE TraceInv'
  <2>1. CASE Trace!DeletesActive(d)
    <3>1. /\ Trace!Rerender(streams)
          /\ traces' = traces /\ activeTraceID' = 0 /\ tEvents' = <<>>
      BY <1>7, <2>1 DEF Trace!Deleted
    <3>2. followed = activeTraceID /\ activeTraceID' = activeTraceID =>
            \A k \in DOMAIN streams : streams[k].state # "open"
      BY <1>1, <3>1 DEF StreamsOf
    <3>3. QED BY <1>1, <1>2, <3>1, <3>2, RerenderKeepsTraceInv
  <2>2. CASE ~Trace!DeletesActive(d)
    <3>1. /\ Trace!Rerender(streams)
          /\ UNCHANGED <<traces, activeTraceID, tEvents>>
      BY <1>7, <2>2 DEF Trace!Deleted
    <3>2. QED BY <1>1, <3>1, RerenderKeepsTraceInv
  <2>3. QED BY <2>1, <2>2
<1>8. CASE Trace!MakeTrace \/ \E t \in 1 .. traces : Trace!Record(t)
  <2>1. traces' \in Nat /\ UNCHANGED <<activeTraceID, followed, streams, tEvents>>
    BY <1>1, <1>8 DEF Trace!MakeTrace, Trace!Record
  <2>2. QED BY <1>1, <2>1 DEF TraceInv, StreamsOf, ShownOf
<1>9. CASE \E k \in DOMAIN streams : Trace!Deliver(k)
  <2>1. PICK k \in DOMAIN streams : Trace!Deliver(k) BY <1>9
  <2> DEFINE n == streams[k].sent
             e == [stream |-> k, n |-> n + 1]
             r == [streams[k] EXCEPT !.sent = n + 1,
                                     !.state = IF @ = "open" THEN "open" ELSE "closed"]
             S == [streams EXCEPT ![k] = r]
  <2>2. streams \in Seq(StreamRecords) /\ Len(streams) \in Nat /\ DOMAIN streams = 1 .. Len(streams)
    BY <1>1, LenProperties DEF StreamsOf
  <2>3. streams[k] \in StreamRecords /\ k \in Nat BY <2>2, ElementOfSeq
  <2>4. /\ r \in StreamRecords /\ r.trace = streams[k].trace /\ r.sent = n + 1 /\ n \in Nat
        /\ r.state = (IF streams[k].state = "open" THEN "open" ELSE "closed")
        /\ r.whole = streams[k].whole
    <3> DEFINE v == streams[k]
    <3>1. /\ v \in StreamRecords /\ n \in Nat /\ n + 1 \in Nat BY <2>3 DEF StreamRecords
    <3> HIDE DEF n
    <3>2. CASE v.state = "open"
      <4>1. r = [v EXCEPT !.sent = n + 1, !.state = "open"] BY <3>2
      <4> HIDE DEF r, v
      <4>2. /\ r.trace = v.trace /\ r.sent = n + 1 /\ r.state = "open" /\ r.whole = v.whole
            /\ r \in StreamRecords
        BY <3>1, <4>1 DEF StreamRecords
      <4>3. QED BY <3>1, <3>2, <4>2 DEF v
    <3>3. CASE v.state # "open"
      <4>1. r = [v EXCEPT !.sent = n + 1, !.state = "closed"] BY <3>3
      <4> HIDE DEF r, v
      <4>2. /\ r.trace = v.trace /\ r.sent = n + 1 /\ r.state = "closed" /\ r.whole = v.whole
            /\ r \in StreamRecords
        BY <3>1, <4>1 DEF StreamRecords
      <4>3. QED BY <3>1, <3>3, <4>2 DEF v
    <3>4. QED BY <3>2, <3>3
  <2>5. [streams EXCEPT ![k].sent = @ + 1, ![k].state = IF @ = "open" THEN "open" ELSE "closed"] = S
    BY <2>2
  <2>6. /\ Trace!Rerender(S)
        /\ UNCHANGED <<traces, activeTraceID>> /\ tEvents' = Append(tEvents, e)
    BY <2>1, <2>5 DEF Trace!Deliver
  <2>7. S[k] = r /\ \A j \in DOMAIN streams : j # k => S[j] = streams[j] BY <2>2
  <2>8. e \in EventRecords /\ e.stream = k BY <2>3, <2>4 DEF EventRecords
  <2>9. ShownOf(tEvents, k, n) => ShownOf(Append(tEvents, e), k, n + 1)
    BY <1>1, <2>3, <2>4, NextIsShown
  <2> HIDE DEF r, S, e
  <2>10. StreamsOf(S, followed) /\ DOMAIN S = DOMAIN streams
    <3>1. S = [streams EXCEPT ![k] = r] BY DEF S
    <3>2. r.state = "open" => streams[k].state = "open" BY <2>4
    <3>3. QED BY <2>4, <3>1, <3>2, StreamChanges
  <2>11. /\ tEvents' \in Seq(EventRecords)
         /\ \A i \in DOMAIN tEvents' : tEvents'[i].stream \in DOMAIN streams
    <3>1. /\ tEvents' \in Seq(EventRecords) /\ DOMAIN tEvents' = 1 .. Len(tEvents) + 1
          /\ DOMAIN tEvents = 1 .. Len(tEvents) /\ tEvents'[Len(tEvents) + 1] = e
          /\ \A i \in 1 .. Len(tEvents) : tEvents'[i] = tEvents[i]
          /\ Len(tEvents) \in Nat
      BY <1>1, <2>6, <2>8, AppendFacts
    <3>2. \A i \in DOMAIN tEvents' : i = Len(tEvents) + 1 \/ i \in 1 .. Len(tEvents) BY <3>1
    <3>3. QED BY <1>1, <2>8, <3>1, <3>2
  <2>12. ASSUME followed = activeTraceID, NEW j \in DOMAIN S, S[j].state = "open", S[j].whole
         PROVE  ShownOf(tEvents', j, S[j].sent)
    <3>1. CASE j = k
      <4>1. streams[k].state = "open" /\ streams[k].whole BY <2>4, <2>7, <2>12, <3>1
      <4>2. ShownOf(tEvents, k, n) BY <1>1, <2>12, <4>1
      <4>3. QED BY <2>4, <2>6, <2>7, <2>9, <3>1, <4>2
    <3>2. CASE j # k
      <4>1. S[j] = streams[j] /\ j \in DOMAIN streams BY <2>7, <2>10, <2>12, <3>2
      <4>2. ShownOf(tEvents, j, streams[j].sent) BY <1>1, <2>12, <4>1
      <4>3. ShownOf(Append(tEvents, e), j, streams[j].sent)
        BY <1>1, <2>8, <3>2, <4>2, OthersStayShown
      <4>4. QED BY <2>6, <4>1, <4>3
    <3>3. QED BY <3>1, <3>2
  <2>13. QED BY <1>1, <2>6, <2>10, <2>11, <2>12, RerenderKeepsTraceInv
<1>10. CASE \E k \in DOMAIN streams : Trace!StreamEnds(k)
  <2>1. PICK k \in DOMAIN streams : Trace!StreamEnds(k) BY <1>10
  <2> DEFINE r == [streams[k] EXCEPT !.state = "closed"]
             S == [streams EXCEPT ![k] = r]
  <2>2. streams \in Seq(StreamRecords) /\ Len(streams) \in Nat /\ DOMAIN streams = 1 .. Len(streams)
    BY <1>1, LenProperties DEF StreamsOf
  <2>3. streams[k] \in StreamRecords BY <2>2, ElementOfSeq
  <2>4. r \in StreamRecords /\ r.trace = streams[k].trace /\ r.state = "closed"
    BY <2>3 DEF StreamRecords
  <2>5. streams' = S /\ UNCHANGED <<traces, activeTraceID, followed, tEvents>>
    BY <2>1, <2>2 DEF Trace!StreamEnds
  <2>6. S[k] = r /\ \A j \in DOMAIN streams : j # k => S[j] = streams[j] BY <2>2
  <2> HIDE DEF r
  <2>7. S = [streams EXCEPT ![k] = r] OBVIOUS
  <2> HIDE DEF S
  <2>8. StreamsOf(S, followed) /\ DOMAIN S = DOMAIN streams
    BY <2>4, <2>7, StreamChanges
  <2>9. followed = activeTraceID =>
          \A j \in DOMAIN S : S[j].state = "open" /\ S[j].whole => ShownOf(tEvents, j, S[j].sent)
    BY <1>1, <2>4, <2>6, <2>8
  <2>10. QED BY <1>1, <2>5, <2>8, <2>9 DEF TraceInv, StreamsOf, ShownOf
<1>11. QED BY <1>3, <1>4, <1>5, <1>6, <1>7, <1>8, <1>9, <1>10 DEF Trace!Next

LEMMA SameCardinality == \A S : Trace!Cardinality(S) = Cardinality(S)
BY DEF Trace!Cardinality, Cardinality

LEMMA TraceShown == TraceInv => Trace!OneStreamFollowed /\ Trace!StreamIsShown
<1> SUFFICES ASSUME TraceInv PROVE Trace!OneStreamFollowed /\ Trace!StreamIsShown
  OBVIOUS
<1>1. StreamsOf(streams, followed) BY DEF TraceInv
<1>2. Cardinality({k \in DOMAIN streams : streams[k].state = "open"}) <= 1
  <2> DEFINE O == {k \in DOMAIN streams : streams[k].state = "open"}
             L == {Len(streams)}
  <2>1. O \subseteq L BY <1>1 DEF StreamsOf
  <2>2. IsFiniteSet(L) /\ Cardinality(L) = 1 BY FS_Singleton
  <2> HIDE DEF O, L
  <2>3. IsFiniteSet(O) /\ Cardinality(O) <= Cardinality(L) BY <2>1, <2>2, FS_Subset
  <2>4. Cardinality(O) <= 1 BY <2>2, <2>3
  <2>5. QED BY <2>4 DEF O
<1>3. Trace!OneStreamFollowed
  <2>1. followed = activeTraceID =>
          \A k \in DOMAIN streams : streams[k].state = "open" => streams[k].trace = activeTraceID
    BY <1>1 DEF StreamsOf
  <2>2. QED BY <1>2, <2>1, SameCardinality DEF Trace!OneStreamFollowed
<1>4. Trace!StreamIsShown BY DEF TraceInv, ShownOf, Trace!StreamIsShown
<1>5. QED BY <1>3, <1>4

-----------------------------------------------------------------------------
(* The Health tab: what is selected belongs to the report that the effects *)
(* have seen, and of its drops only those that were ticked.                *)
HealthInv ==
  /\ Health!TypeOK
  /\ hSettled.view # Nothing =>
       \A i \in selectedFixes : i \in DOMAIN hSettled.view.fixes => (hSettled.view.fixes[i] = "DROP" => i \in ticked)
  /\ Health!AppliedAsChosen

LEMMA HealthInit == Health!Init => HealthInv
<1> SUFFICES ASSUME Health!Init PROVE HealthInv
  OBVIOUS
<1>1. Health!NewQuery \in [data : Health!Views \union {Nothing}, flight : Health!Views \union {Nothing}]
  BY DEF Health!NewQuery
<1>2. MaxScans \in Nat BY PartsAssumption DEF Health!HealthAssumption
<1>3. QED BY <1>1, <1>2
      DEF Health!Init, HealthInv, Health!TypeOK, Health!AppliedAsChosen, Health!Seen

LEMMA ReportFixes == \A v \in Health!Views : DOMAIN v.fixes \subseteq 1 .. 2
<1> SUFFICES ASSUME NEW v \in Health!Views PROVE DOMAIN v.fixes \subseteq 1 .. 2
  OBVIOUS
<1>1. v.fixes \in Reports BY DEF Health!Views
<1>2. PICK n \in 1 .. 2 : v.fixes \in [1 .. n -> {"REBUILD", "DROP"}]
  BY <1>1, PartsAssumption DEF Health!HealthAssumption
<1>3. QED BY <1>2

(* What the effects of the last render do.                                 *)
LEMMA HealthEffects ==
  ASSUME HealthInv, Health!RunEffects
  PROVE  /\ hSettled' \in Health!Seen
         /\ selectedFixes' \in SUBSET (1 .. 2) /\ ticked' \in SUBSET selectedFixes'
         /\ selectedTables' \in SUBSET Tables
         /\ hSettled'.view # Nothing =>
              \A i \in selectedFixes' : i \in DOMAIN hSettled'.view.fixes => (hSettled'.view.fixes[i] = "DROP" => i \in ticked')
<1>1. Health!TypeOK BY DEF HealthInv
<1>2. Health!view \in Health!Views \union {Nothing} BY <1>1 DEF Health!TypeOK, Health!view
<1>3. hSettled' = [view |-> Health!view, database |-> database]
  BY DEF Health!RunEffects, Health!Committed
<1>4. hSettled' \in Health!Seen BY <1>1, <1>2, <1>3 DEF Health!Seen, Health!TypeOK
<1>5. hSettled'.view = Health!view BY <1>3
<1>6. CASE hSettled.view = Health!view
  <2>1. UNCHANGED <<selectedFixes, selectedTables, ticked>> BY <1>6 DEF Health!RunEffects
  <2>2. QED BY <1>1, <1>4, <1>5, <1>6, <2>1 DEF HealthInv, Health!TypeOK
<1>7. CASE hSettled.view # Health!view
  <2> DEFINE default == Health!DefaultSelectedFixes(Health!view)
  <2>1. selectedFixes' = default /\ selectedTables' = {} /\ ticked' = {}
    BY <1>7 DEF Health!RunEffects
  <2>2. /\ default \subseteq 1 .. 2
        /\ Health!view # Nothing => \A i \in default : Health!view.fixes[i] # "DROP"
    BY <1>2, ReportFixes DEF Health!DefaultSelectedFixes
  <2> HIDE DEF default
  <2>3. QED BY <1>4, <1>5, <2>1, <2>2
<1>8. QED BY <1>6, <1>7

LEMMA HealthStep == HealthInv /\ Health!Next => HealthInv'
<1> SUFFICES ASSUME HealthInv, Health!Next PROVE HealthInv'
  OBVIOUS
<1> USE DEF Health!TypeOK
<1>1. Health!TypeOK BY DEF HealthInv
<1>2. Health!view \in Health!Views \union {Nothing} BY <1>1 DEF Health!view
<1>a. MaxScans \in Nat BY PartsAssumption DEF Health!HealthAssumption
<1>3. CASE Health!RunEffects /\ UNCHANGED request
           /\ database' \in Databases /\ applying' \in SUBSET {"fixes", "bulk"}
           /\ scanned' \in 0 .. MaxScans
           /\ scans' \in [Databases -> [data : Health!Views \union {Nothing},
                                        flight : Health!Views \union {Nothing}]]
  <2>1. Health!AppliedAsChosen' BY <1>3 DEF HealthInv, Health!AppliedAsChosen, Health!Drops
  <2>2. QED BY <1>1, <1>3, <2>1, HealthEffects DEF HealthInv
<1>4. CASE Health!Effects BY <1>1, <1>3, <1>4 DEF Health!Effects
<1>5. ASSUME NEW d \in Databases, Health!PickDatabase(d) PROVE HealthInv'
  BY <1>1, <1>3, <1>5 DEF Health!PickDatabase
<1>6. ASSUME NEW d \in Databases, Health!ScanEnds(d) PROVE HealthInv'
  <2>1. Health!Answered(scans[d]) \in [data : Health!Views \union {Nothing}, flight : Health!Views \union {Nothing}]
    BY <1>1 DEF Health!Answered
  <2>2. Health!Failed(scans[d]) \in [data : Health!Views \union {Nothing}, flight : Health!Views \union {Nothing}]
    BY <1>1 DEF Health!Failed
  <2>3. scans' \in [Databases -> [data : Health!Views \union {Nothing}, flight : Health!Views \union {Nothing}]]
    <3>1. CASE scans' = [scans EXCEPT ![d] = Health!Answered(@)] BY <1>1, <2>1, <3>1
    <3>2. CASE scans' = [scans EXCEPT ![d] = Health!Failed(@)] BY <1>1, <2>2, <3>2
    <3>3. QED BY <1>6, <3>1, <3>2 DEF Health!ScanEnds
  <2>4. UNCHANGED <<database, applying, request, scanned>> BY <1>6 DEF Health!ScanEnds
  <2>5. CASE Health!RunEffects BY <1>1, <1>3, <2>3, <2>4, <2>5
  <2>6. CASE UNCHANGED <<hSettled, selectedFixes, selectedTables, ticked>>
    BY <1>1, <2>3, <2>4, <2>6 DEF HealthInv, Health!AppliedAsChosen, Health!Drops
  <2>7. QED BY <1>6, <2>5, <2>6 DEF Health!ScanEnds
<1>7. ASSUME NEW r \in Reports, Health!Scan(r) PROVE HealthInv'
  <2> DEFINE v == [database |-> database, fixes |-> r]
  <2>1. v \in Health!Views BY <1>1 DEF Health!Views
  <2>2. database \in Databases /\ scanned + 1 \in 0 .. MaxScans
    BY <1>1, <1>7, <1>a DEF Health!Scan
  <2>3. Health!Refetch(scans[database], v) \in [data : Health!Views \union {Nothing}, flight : Health!Views \union {Nothing}]
    BY <1>1, <2>1 DEF Health!Refetch
  <2>4. scans' = [scans EXCEPT ![database] = Health!Refetch(@, v)] BY <1>7 DEF Health!Scan
  <2> HIDE DEF v
  <2>5. scans' \in [Databases -> [data : Health!Views \union {Nothing}, flight : Health!Views \union {Nothing}]]
    BY <1>1, <2>3, <2>4
  <2>6. QED BY <1>1, <1>3, <1>7, <2>2, <2>5 DEF Health!Scan
<1>8. CASE \/ \E i \in 1 .. 2 : Health!ToggleFix(i)
           \/ Health!ToggleAllFixes
           \/ \E t \in Tables : Health!ToggleTable(t)
           \/ Health!ToggleAllTables
  <2>1. /\ UNCHANGED <<database, scans, hSettled, applying, request, scanned>>
        /\ hSettled = Health!Committed /\ Health!view # Nothing
    BY <1>8 DEF Health!ToggleFix, Health!ToggleAllFixes, Health!ToggleTable, Health!ToggleAllTables
  <2>2. hSettled.view = Health!view BY <2>1 DEF Health!Committed
  <2>3. /\ selectedFixes' \in SUBSET (1 .. 2) /\ ticked' \in SUBSET selectedFixes'
        /\ selectedTables' \in SUBSET Tables
        /\ \A i \in selectedFixes' : i \in DOMAIN hSettled.view.fixes => (hSettled.view.fixes[i] = "DROP" => i \in ticked')
    <3> HIDE DEF Health!TypeOK
    <3>0. /\ selectedFixes \in SUBSET (1 .. 2) /\ ticked \in SUBSET selectedFixes
          /\ selectedTables \in SUBSET Tables
          /\ \A i \in selectedFixes : i \in DOMAIN hSettled.view.fixes =>
               (hSettled.view.fixes[i] = "DROP" => i \in ticked)
      BY <1>1, <2>1, <2>2 DEF HealthInv, Health!TypeOK
    <3>1. CASE \E i \in 1 .. 2 : Health!ToggleFix(i)
      <4>1. PICK i \in 1 .. 2 :
              /\ selectedFixes' = (IF i \in selectedFixes THEN selectedFixes \ {i}
                                   ELSE selectedFixes \union {i})
              /\ ticked' = (IF i \in selectedFixes THEN ticked \ {i} ELSE ticked \union {i})
              /\ UNCHANGED selectedTables
        BY <3>1 DEF Health!ToggleFix, Health!Flip
      <4>2. CASE i \in selectedFixes BY <3>0, <4>1, <4>2
      <4>3. CASE i \notin selectedFixes BY <3>0, <4>1, <4>3
      <4>4. QED BY <4>2, <4>3
    <3>2. CASE Health!ToggleAllFixes
      <4>1. /\ selectedFixes' \in {{}, Health!DefaultSelectedFixes(Health!view)}
            /\ ticked' = {} /\ UNCHANGED selectedTables
        BY <3>2 DEF Health!ToggleAllFixes
      <4>2. /\ Health!DefaultSelectedFixes(Health!view) \subseteq 1 .. 2
            /\ \A i \in Health!DefaultSelectedFixes(Health!view) : Health!view.fixes[i] # "DROP"
        BY <1>2, <2>1, ReportFixes DEF Health!DefaultSelectedFixes
      <4>3. selectedFixes' \subseteq 1 .. 2 /\ \A i \in selectedFixes' : hSettled.view.fixes[i] # "DROP"
        BY <2>2, <4>1, <4>2
      <4>4. QED BY <3>0, <4>1, <4>3
    <3>3. CASE \E t \in Tables : Health!ToggleTable(t)
      BY <3>0, <3>3 DEF Health!ToggleTable, Health!Flip
    <3>4. CASE Health!ToggleAllTables
      BY <3>0, <3>4 DEF Health!ToggleAllTables
    <3>5. QED BY <1>8, <3>1, <3>2, <3>3, <3>4
  <2>4. Health!AppliedAsChosen' BY <2>1 DEF HealthInv, Health!AppliedAsChosen, Health!Drops
  <2>5. QED BY <1>1, <2>1, <2>3, <2>4 DEF HealthInv
<1>9. ASSUME NEW m \in {"fixes", "bulk"}, NEW F, NEW G, Health!Send(m, F, G),
             F \subseteq selectedFixes /\ F \subseteq DOMAIN Health!view.fixes,
             G \subseteq selectedTables
      PROVE  HealthInv'
  <2>1. /\ Health!view # Nothing /\ Health!view \in Health!Views
        /\ F \in SUBSET (1 .. 2) /\ G \in SUBSET Tables
    BY <1>1, <1>2, <1>9 DEF Health!Send
  <2>2. PICK c, ct, b :
          /\ c = (IF hSettled = Health!Committed THEN ticked ELSE {})
          /\ ct = (IF hSettled = Health!Committed THEN selectedTables ELSE {})
          /\ b = (hSettled = Health!Committed)
    OBVIOUS
  <2>3. request' = [view |-> Health!view, database |-> Health!SentDatabase, fixes |-> F,
                    tables |-> G, chosen |-> c, chosenTables |-> ct, settled |-> b]
    BY <1>9, <2>2 DEF Health!Send
  <2>4. Health!SentDatabase \in Databases BY <1>1 DEF Health!SentDatabase, Health!Seen, Health!Views
  <2>5. c \in SUBSET (1 .. 2) /\ ct \in SUBSET Tables /\ b \in BOOLEAN
    <3>1. ticked \in SUBSET (1 .. 2) /\ selectedTables \in SUBSET Tables BY <1>1
    <3>2. QED BY <2>2, <3>1
  <2>6. request' \in [view : Health!Views, database : Databases, fixes : SUBSET (1 .. 2),
                      tables : SUBSET Tables, chosen : SUBSET (1 .. 2),
                      chosenTables : SUBSET Tables, settled : BOOLEAN]
    BY <2>1, <2>3, <2>4, <2>5
  <2>7. Health!AppliedAsChosen'
    <3>1. SUFFICES ASSUME b
                   PROVE  /\ \A i \in F : Health!view.fixes[i] = "DROP" => i \in c
                          /\ G \subseteq ct /\ Health!SentDatabase = Health!view.database
      BY <2>3 DEF Health!AppliedAsChosen, Health!Drops
    <3>2. hSettled = Health!Committed BY <2>2, <3>1
    <3>3. hSettled.view = Health!view /\ c = ticked /\ ct = selectedTables
      BY <2>2, <3>2 DEF Health!Committed
    <3>4. QED BY <1>9, <2>1, <3>3 DEF HealthInv, Health!SentDatabase
  <2>8. /\ Health!RunEffects /\ UNCHANGED <<database, scans, scanned>>
        /\ applying' = applying \union {m}
    BY <1>9 DEF Health!Send
  <2>9. QED BY <1>1, <2>6, <2>7, <2>8, HealthEffects DEF HealthInv
<1>10. CASE Health!Apply BY <1>9, <1>10 DEF Health!Apply
<1>11. CASE Health!BulkRebuild BY <1>9, <1>11 DEF Health!BulkRebuild
<1>12. ASSUME NEW m \in {"fixes", "bulk"}, Health!Posted(m) PROVE HealthInv'
  BY <1>1, <1>3, <1>12 DEF Health!Posted
<1>13. QED BY <1>4, <1>5, <1>6, <1>7, <1>8, <1>10, <1>11, <1>12 DEF Health!Next

-----------------------------------------------------------------------------
(* The Rollbacks tab: what counts as done is stamped, and while the effect *)
(* has seen the shown job as done the entries were asked for after that.   *)
StampedEntry(q, failed) ==
  IF Rollbacks!Fetching(q) THEN restores[restoreJobID] \in q.flight
  ELSE failed \/ restores[restoreJobID] \in q.data

DoneSeen == rSeen = "done" /\ Rollbacks!ShownStatus = "done" /\ ~unseen

(* What the page knows of the jobs is not ahead of them.                   *)
KnownJobs(q) == q # Nothing => \A j \in Rollbacks!Jobs : q[j] = "done" => job[j] = "done"

RollbacksInv ==
  /\ Rollbacks!TypeOK
  /\ \A j \in Rollbacks!Jobs : job[j] # "none" => restores[j] \in Entries
  /\ \A j \in Rollbacks!Jobs : job[j] = "done" => restores[j] \in stamped
  /\ KnownJobs(jobs.data) /\ KnownJobs(jobs.flight)
  /\ restoring # Nothing \/ restoreJobID # 0 => rEntries.data # Nothing
  /\ DoneSeen => StampedEntry(rEntries, stale)

EntriesQueries == [data : (SUBSET Entries) \union {Nothing}, flight : (SUBSET Entries) \union {Nothing}]
JobLists == [Rollbacks!Jobs -> Rollbacks!Statuses]
JobsQueries == [data : JobLists \union {Nothing}, flight : JobLists \union {Nothing}]

LEMMA RollbacksInit == Rollbacks!Init => RollbacksInv
<1> SUFFICES ASSUME Rollbacks!Init PROVE RollbacksInv
  OBVIOUS
<1>1. MaxRestores \in Nat /\ MaxFailures \in Nat
  BY PartsAssumption DEF Rollbacks!RollbacksAssumption
<1>2. job \in JobLists BY DEF Rollbacks!Init, JobLists, Rollbacks!Statuses
<1>3. rEntries = [data |-> Nothing, flight |-> {}] \/ rEntries = [data |-> Nothing, flight |-> Nothing]
  BY DEF Rollbacks!Init, Rollbacks!Fetch, Rollbacks!NewQuery, Rollbacks!Fetching
<1>4. jobs = [data |-> Nothing, flight |-> job] \/ jobs = [data |-> Nothing, flight |-> Nothing]
  BY DEF Rollbacks!Init, Rollbacks!Fetch, Rollbacks!NewQuery, Rollbacks!Fetching
<1>5. KnownJobs(jobs.data) /\ KnownJobs(jobs.flight) BY <1>4 DEF KnownJobs
<1>6. Rollbacks!TypeOK
  <2>1. rEntries \in EntriesQueries
    <3>1. {} \in SUBSET Entries OBVIOUS
    <3>2. CASE rEntries = [data |-> Nothing, flight |-> {}] BY <3>1, <3>2 DEF EntriesQueries
    <3>3. CASE rEntries = [data |-> Nothing, flight |-> Nothing] BY <3>3 DEF EntriesQueries
    <3>4. QED BY <1>3, <3>2, <3>3
  <2>2. jobs \in JobsQueries BY <1>2, <1>4 DEF JobsQueries
  <2>3. restores \in [Rollbacks!Jobs -> Entries \union {Nothing}] BY DEF Rollbacks!Init
  <2>4. /\ (part = "rollbacks") \in BOOLEAN /\ stamped \in SUBSET Entries
        /\ restoring = Nothing /\ restoreJobID = 0 /\ rSeen = "none"
        /\ unseen = FALSE /\ stale = FALSE /\ failures = 0
    BY DEF Rollbacks!Init
  <2>5. rSeen \in Rollbacks!Statuses /\ failures \in 0 .. MaxFailures
    BY <1>1, <2>4 DEF Rollbacks!Statuses
  <2>6. QED BY <1>2, <2>1, <2>2, <2>3, <2>4, <2>5
            DEF Rollbacks!TypeOK, EntriesQueries, JobsQueries, JobLists
<1>7. QED BY <1>5, <1>6 DEF Rollbacks!Init, RollbacksInv, DoneSeen, Rollbacks!Jobs

(* What a query shows and asks for stays in the set K it is drawn from.    *)
LEMMA RollbacksQuerySettles ==
  ASSUME NEW K, Nothing \in K, NEW q \in [data : K, flight : K]
  PROVE  /\ Rollbacks!Answered(q) \in [data : K, flight : K]
         /\ Rollbacks!Answered(q).data = q.flight /\ Rollbacks!Answered(q).flight = Nothing
         /\ Rollbacks!Failed(q) \in [data : K, flight : K]
         /\ Rollbacks!Failed(q).data = q.data /\ Rollbacks!Failed(q).flight = Nothing
BY DEF Rollbacks!Answered, Rollbacks!Failed

LEMMA EntriesSettle ==
  ASSUME NEW q \in EntriesQueries
  PROVE  /\ Rollbacks!Answered(q) \in EntriesQueries
         /\ Rollbacks!Answered(q).data = q.flight /\ Rollbacks!Answered(q).flight = Nothing
         /\ Rollbacks!Failed(q) \in EntriesQueries
         /\ Rollbacks!Failed(q).data = q.data /\ Rollbacks!Failed(q).flight = Nothing
<1> DEFINE K == (SUBSET Entries) \union {Nothing}
<1>1. EntriesQueries = [data : K, flight : K] BY DEF EntriesQueries
<1>2. Nothing \in K OBVIOUS
<1> HIDE DEF K
<1>3. QED BY <1>1, <1>2, RollbacksQuerySettles

LEMMA EntriesRefetched ==
  ASSUME NEW q \in EntriesQueries, stamped \in SUBSET Entries
  PROVE  /\ Rollbacks!Refetch(q, stamped) \in EntriesQueries
         /\ Rollbacks!AfterEffects(q) \in EntriesQueries
         /\ q.data # Nothing => /\ Rollbacks!Refetch(q, stamped).flight = stamped
                                /\ Rollbacks!Refetch(q, stamped).data = q.data
                                /\ Rollbacks!AfterEffects(q).data = q.data
         /\ Rollbacks!Fetching(Rollbacks!Refetch(q, stamped))
BY PartsAssumption
   DEF Rollbacks!RollbacksAssumption, EntriesQueries, Rollbacks!Refetch, Rollbacks!AfterEffects, Rollbacks!Fetching

LEMMA ShownDoneIsStamped ==
  ASSUME RollbacksInv, Rollbacks!ShownStatus = "done"
  PROVE  restoreJobID # 0 /\ restores[restoreJobID] \in stamped /\ rEntries.data # Nothing
<1>1. restoreJobID # 0 /\ jobs.data # Nothing /\ jobs.data[restoreJobID] = "done"
  BY DEF Rollbacks!ShownStatus, Rollbacks!StatusIn
<1>2. restoreJobID \in Rollbacks!Jobs BY <1>1 DEF RollbacksInv, Rollbacks!TypeOK
<1>3. QED BY <1>1, <1>2 DEF RollbacksInv, KnownJobs

(* The effects run on the entries q, as the last answer has left them.     *)
LEMMA RollbacksEffects ==
  ASSUME RollbacksInv, NEW q \in EntriesQueries, rEntries.data # Nothing => q.data # Nothing,
         DoneSeen => StampedEntry(q, stale'),
         rSeen' = Rollbacks!ShownStatus, rEntries' = Rollbacks!AfterEffects(q),
         UNCHANGED <<restores, restoreJobID, unseen>>
  PROVE  DoneSeen' => StampedEntry(rEntries, stale)'
<1> SUFFICES ASSUME DoneSeen' PROVE StampedEntry(rEntries, stale)'
  OBVIOUS
<1>1. Rollbacks!ShownStatus = "done" /\ ~unseen BY DEF DoneSeen
<1>2. stamped \in SUBSET Entries BY DEF RollbacksInv, Rollbacks!TypeOK
<1>3. CASE rSeen = "done"
  <2>1. rEntries' = q BY <1>1, <1>3 DEF Rollbacks!AfterEffects
  <2>2. StampedEntry(q, stale') BY <1>1, <1>3 DEF DoneSeen
  <2>3. QED BY <2>1, <2>2 DEF StampedEntry, Rollbacks!Fetching
<1>4. CASE rSeen # "done"
  <2>1. rEntries' = Rollbacks!Refetch(q, stamped) BY <1>1, <1>4 DEF Rollbacks!AfterEffects
  <2>2. restores[restoreJobID] \in stamped /\ q.data # Nothing BY <1>1, ShownDoneIsStamped
  <2>3. Rollbacks!Fetching(rEntries') /\ rEntries'.flight = stamped
    BY <1>2, <2>1, <2>2, EntriesRefetched
  <2>4. QED BY <2>2, <2>3 DEF StampedEntry, Rollbacks!Fetching
<1>5. QED BY <1>3, <1>4

LEMMA RollbacksStep == RollbacksInv /\ Rollbacks!Next => RollbacksInv'
<1> SUFFICES ASSUME RollbacksInv, Rollbacks!Next PROVE RollbacksInv'
  OBVIOUS
<1>1. /\ Rollbacks!TypeOK /\ rEntries \in EntriesQueries /\ jobs \in JobsQueries
      /\ job \in JobLists /\ stamped \in SUBSET Entries /\ Rollbacks!ShownStatus \in Rollbacks!Statuses
  <2>1. Rollbacks!TypeOK BY DEF RollbacksInv
  <2>2. /\ rEntries \in EntriesQueries /\ jobs \in JobsQueries
        /\ job \in JobLists /\ stamped \in SUBSET Entries
    BY <2>1 DEF Rollbacks!TypeOK, EntriesQueries, JobsQueries, JobLists
  <2>3. restoreJobID # 0 /\ jobs.data # Nothing => jobs.data[restoreJobID] \in Rollbacks!Statuses
    BY <2>1, <2>2 DEF Rollbacks!TypeOK, JobsQueries, JobLists
  <2>4. Rollbacks!ShownStatus \in Rollbacks!Statuses
    BY <2>3 DEF Rollbacks!ShownStatus, Rollbacks!StatusIn, Rollbacks!Statuses
  <2>5. QED BY <2>1, <2>2, <2>4
<1>a. MaxRestores \in Nat /\ MaxFailures \in Nat /\ Rollbacks!Jobs' = Rollbacks!Jobs
  BY PartsAssumption DEF Rollbacks!RollbacksAssumption, Rollbacks!Jobs
(* A step of the plugin.                                                   *)
<1>2. ASSUME UNCHANGED <<rEntries, jobs, restoreJobID, rSeen, unseen, stale, failures>>,
             job' \in JobLists, stamped' \in SUBSET Entries, stamped \subseteq stamped',
             restores' \in [Rollbacks!Jobs -> Entries \union {Nothing}],
             restoring' \in [entry : Entries, job : Rollbacks!Jobs \union {0}] \union {Nothing},
             restoring' # Nothing => restoring # Nothing,
             \A j \in Rollbacks!Jobs :
               /\ job[j] = "none" \/ restores'[j] = restores[j]
               /\ job[j] = "done" => job'[j] = "done"
               /\ job'[j] # "none" => restores'[j] \in Entries
               /\ job'[j] = "done" => restores'[j] \in stamped'
      PROVE  RollbacksInv'
  <2>1. Rollbacks!TypeOK' BY <1>1, <1>2 DEF Rollbacks!TypeOK, JobLists
  <2>2. KnownJobs(jobs.data)' /\ KnownJobs(jobs.flight)' BY <1>2 DEF RollbacksInv, KnownJobs
  <2>3. DoneSeen' => StampedEntry(rEntries, stale)'
    <3>1. SUFFICES ASSUME DoneSeen' PROVE StampedEntry(rEntries, stale)'
      OBVIOUS
    <3>2. DoneSeen
      BY <1>2, <3>1 DEF DoneSeen, Rollbacks!ShownStatus, Rollbacks!StatusIn
    <3>3. /\ restoreJobID \in Rollbacks!Jobs /\ job[restoreJobID] = "done"
      BY <1>1, <3>2 DEF RollbacksInv, DoneSeen, KnownJobs, Rollbacks!ShownStatus,
                        Rollbacks!StatusIn, Rollbacks!TypeOK
    <3>4. restores'[restoreJobID] = restores[restoreJobID] BY <1>2, <3>3
    <3>5. QED BY <1>2, <3>2, <3>4 DEF RollbacksInv, StampedEntry, Rollbacks!Fetching
  <2>4. QED BY <1>2, <1>a, <2>1, <2>2, <2>3 DEF RollbacksInv
<1>3. ASSUME NEW j \in Rollbacks!Jobs, Rollbacks!StartJob(j) PROVE RollbacksInv'
  <2>1. /\ job[j] = "none" /\ restoring # Nothing /\ restoring.job = 0
        /\ job' = [job EXCEPT ![j] = "running"]
        /\ restores' = [restores EXCEPT ![j] = restoring.entry]
        /\ restoring' = [restoring EXCEPT !.job = j]
        /\ UNCHANGED <<stamped, rEntries, jobs, restoreJobID, rSeen, unseen, stale, failures>>
    BY <1>3 DEF Rollbacks!StartJob, Rollbacks!history
  <2>2. restoring \in [entry : Entries, job : Rollbacks!Jobs \union {0}]
    BY <1>1, <2>1 DEF Rollbacks!TypeOK
  <2>3. restoring' \in [entry : Entries, job : Rollbacks!Jobs \union {0}] /\ restoring.entry \in Entries
    BY <2>1, <2>2
  <2>4. job' \in JobLists BY <1>1, <2>1 DEF JobLists, Rollbacks!Statuses
  <2>5. restores' \in [Rollbacks!Jobs -> Entries \union {Nothing}]
    BY <1>1, <2>1, <2>3 DEF Rollbacks!TypeOK
  <2>6. ASSUME NEW i \in Rollbacks!Jobs
        PROVE  /\ job[i] = "none" \/ restores'[i] = restores[i]
               /\ job[i] = "done" => job'[i] = "done"
               /\ job'[i] # "none" => restores'[i] \in Entries
               /\ job'[i] = "done" => restores'[i] \in stamped'
    <3>1. restores \in [Rollbacks!Jobs -> Entries \union {Nothing}] BY <1>1 DEF Rollbacks!TypeOK
    <3>2. CASE i = j BY <1>1, <2>1, <2>3, <3>1, <3>2 DEF JobLists
    <3>3. CASE i # j BY <1>1, <2>1, <3>1, <3>3 DEF JobLists, RollbacksInv
    <3>4. QED BY <3>2, <3>3
  <2>7. QED BY <1>1, <1>2, <2>1, <2>3, <2>4, <2>5, <2>6
<1>4. ASSUME NEW j \in Rollbacks!Jobs, Rollbacks!StampEntry(j) PROVE RollbacksInv'
  <2>1. /\ job[j] = "running" /\ stamped' = stamped \union {restores[j]}
        /\ UNCHANGED <<job, restores, rEntries, jobs, restoring, restoreJobID, rSeen, unseen, stale, failures>>
    BY <1>4 DEF Rollbacks!StampEntry, Rollbacks!history
  <2>2. stamped' \in SUBSET Entries BY <1>1, <2>1 DEF RollbacksInv
  <2>3. /\ restores \in [Rollbacks!Jobs -> Entries \union {Nothing}]
        /\ restoring \in [entry : Entries, job : Rollbacks!Jobs \union {0}] \union {Nothing}
    BY <1>1 DEF Rollbacks!TypeOK
  <2>4. QED BY <1>1, <1>2, <2>1, <2>2, <2>3 DEF RollbacksInv
<1>5. ASSUME NEW j \in Rollbacks!Jobs, NEW v \in {"done", "failed"}, Rollbacks!EndJob(j, v)
      PROVE  RollbacksInv'
  <2>1. /\ job[j] = "running" /\ job' = [job EXCEPT ![j] = v]
        /\ v = "done" => restores[j] \in stamped
        /\ UNCHANGED <<stamped, restores, rEntries, jobs, restoring, restoreJobID, rSeen, unseen, stale, failures>>
    BY <1>5 DEF Rollbacks!EndJob, Rollbacks!history
  <2>2. job' \in JobLists BY <1>1, <2>1 DEF JobLists, Rollbacks!Statuses
  <2>3. /\ restores \in [Rollbacks!Jobs -> Entries \union {Nothing}]
        /\ restoring \in [entry : Entries, job : Rollbacks!Jobs \union {0}] \union {Nothing}
    BY <1>1 DEF Rollbacks!TypeOK
  <2>4. ASSUME NEW i \in Rollbacks!Jobs
        PROVE  /\ job[i] = "done" => job'[i] = "done"
               /\ job'[i] # "none" => restores[i] \in Entries
               /\ job'[i] = "done" => restores[i] \in stamped
    <3>1. CASE i = j BY <1>1, <2>1, <3>1 DEF JobLists, RollbacksInv
    <3>2. CASE i # j BY <1>1, <2>1, <3>2 DEF JobLists, RollbacksInv
    <3>3. QED BY <3>1, <3>2
  <2>5. QED BY <1>1, <1>2, <2>1, <2>2, <2>3, <2>4
(* A step of the page, which lets the effects run.                         *)
<1>6. ASSUME rEntries' \in EntriesQueries, rEntries.data # Nothing => rEntries'.data # Nothing,
             rSeen' = Rollbacks!ShownStatus,
             UNCHANGED <<job, restores, stamped>>,
             jobs' \in JobsQueries, KnownJobs(jobs'.data), KnownJobs(jobs'.flight),
             restoreJobID' \in Rollbacks!Jobs \union {0},
             restoring' \in [entry : Entries, job : Rollbacks!Jobs \union {0}] \union {Nothing},
             restoring' # Nothing \/ restoreJobID' # 0 =>
               restoring # Nothing \/ restoreJobID # 0 \/ rEntries.data # Nothing,
             {unseen', stale'} \subseteq BOOLEAN, failures' \in 0 .. MaxFailures,
             DoneSeen' => StampedEntry(rEntries, stale)'
      PROVE  RollbacksInv'
  <2>1. Rollbacks!TypeOK'
    BY <1>1, <1>6 DEF Rollbacks!TypeOK, EntriesQueries, JobsQueries, JobLists
  <2>2. KnownJobs(jobs.data)' /\ KnownJobs(jobs.flight)' BY <1>6 DEF KnownJobs
  <2>3. restoring' # Nothing \/ restoreJobID' # 0 => rEntries'.data # Nothing
    BY <1>6 DEF RollbacksInv
  <2>4. QED BY <1>6, <1>a, <2>1, <2>2, <2>3 DEF RollbacksInv
<1>7. /\ restoreJobID \in Rollbacks!Jobs \union {0}
      /\ restoring \in [entry : Entries, job : Rollbacks!Jobs \union {0}] \union {Nothing}
      /\ {unseen, stale} \subseteq BOOLEAN /\ failures \in 0 .. MaxFailures
      /\ KnownJobs(jobs.data) /\ KnownJobs(jobs.flight)
      /\ DoneSeen => StampedEntry(rEntries, stale)
  BY <1>1 DEF RollbacksInv, Rollbacks!TypeOK
<1>8. /\ Rollbacks!AfterEffects(rEntries) \in EntriesQueries
      /\ rEntries.data # Nothing => Rollbacks!AfterEffects(rEntries).data # Nothing
  BY <1>1, EntriesRefetched
(* The lists of jobs.                                                      *)
<1>9. ASSUME NEW q \in {Rollbacks!Fetch(jobs, job), Rollbacks!Refetch(jobs, job)}
      PROVE  q \in JobsQueries /\ KnownJobs(q.data) /\ KnownJobs(q.flight)
  <2>1. KnownJobs(job) BY DEF KnownJobs
  <2>2. /\ q \in {jobs, [jobs EXCEPT !.flight = job]}
    BY DEF Rollbacks!Fetch, Rollbacks!Refetch
  <2>3. QED BY <1>1, <1>7, <2>1, <2>2 DEF JobsQueries
<1>10. ASSUME NEW q \in {Rollbacks!Answered(jobs), Rollbacks!Failed(jobs)}
       PROVE  q \in JobsQueries /\ KnownJobs(q.data) /\ KnownJobs(q.flight)
  <2>1. KnownJobs(Nothing) BY DEF KnownJobs
  <2>2. CASE q = Rollbacks!Answered(jobs)
    BY <1>1, <1>7, <2>1, <2>2 DEF JobsQueries, Rollbacks!Answered
  <2>3. CASE q = Rollbacks!Failed(jobs)
    BY <1>1, <1>7, <2>1, <2>3 DEF JobsQueries, Rollbacks!Failed
  <2>4. QED BY <2>2, <2>3
(* RunEffects, while the shown job stays the same.                         *)
<1>11. ASSUME Rollbacks!RunEffects, UNCHANGED <<restores, restoreJobID, unseen, stale>>
       PROVE  /\ rEntries' \in EntriesQueries
              /\ rEntries.data # Nothing => rEntries'.data # Nothing
              /\ rSeen' = Rollbacks!ShownStatus
              /\ DoneSeen' => StampedEntry(rEntries, stale)'
  <2>1. rEntries' = Rollbacks!AfterEffects(rEntries) /\ rSeen' = Rollbacks!ShownStatus
    BY <1>11 DEF Rollbacks!RunEffects
  <2>2. DoneSeen => StampedEntry(rEntries, stale') BY <1>7, <1>11
  <2>3. QED BY <1>1, <1>8, <1>11, <2>1, <2>2, RollbacksEffects
<1>12. CASE Rollbacks!Effects
  BY <1>1, <1>6, <1>7, <1>11, <1>12 DEF Rollbacks!Effects, Rollbacks!server, Rollbacks!history
<1>13. ASSUME NEW e \in Entries, Rollbacks!Restore(e) PROVE RollbacksInv'
  <2>1. /\ rEntries.data # Nothing /\ restoring' = [entry |-> e, job |-> 0]
        /\ Rollbacks!RunEffects
        /\ UNCHANGED <<job, restores, stamped, jobs, restoreJobID, unseen, stale, failures>>
    BY <1>13 DEF Rollbacks!Restore, Rollbacks!server, Rollbacks!history
  <2>2. restoring' \in [entry : Entries, job : Rollbacks!Jobs \union {0}] BY <2>1
  <2>3. QED BY <1>1, <1>6, <1>7, <1>11, <2>1, <2>2
<1>14. CASE Rollbacks!Restored
  <2>1. /\ restoring # Nothing /\ restoring.job # 0
        /\ restoreJobID' = restoring.job /\ restoring' = Nothing
        /\ jobs' = Rollbacks!Refetch(jobs, job)
        /\ rEntries' = Rollbacks!AfterEffects(rEntries) /\ rSeen' = Rollbacks!ShownStatus
        /\ unseen' = (Rollbacks!StatusIn(jobs, restoring.job) = Rollbacks!ShownStatus
                        /\ Rollbacks!ShownStatus # "none")
        /\ UNCHANGED <<job, restores, stamped, stale, failures>>
    BY <1>14 DEF Rollbacks!Restored, Rollbacks!RunEffects, Rollbacks!server
  <2>2. restoreJobID' \in Rollbacks!Jobs \union {0} BY <1>7, <2>1
  <2>3. unseen' \in BOOLEAN BY <2>1
  <2>4. ~DoneSeen'
    <3>1. SUFFICES ASSUME rSeen' = "done", Rollbacks!ShownStatus' = "done" PROVE unseen'
      BY DEF DoneSeen
    <3>2. jobs'.data = jobs.data BY <1>1, <2>1 DEF Rollbacks!Refetch, JobsQueries
    <3>3. Rollbacks!StatusIn(jobs, restoring.job) = "done"
      BY <2>1, <3>1, <3>2 DEF Rollbacks!ShownStatus, Rollbacks!StatusIn
    <3>4. QED BY <2>1, <3>1, <3>3
  <2>5. QED BY <1>1, <1>6, <1>7, <1>8, <1>9, <2>1, <2>2, <2>3, <2>4
<1>15. CASE Rollbacks!RestoreFails
  <2>1. /\ restoring' = Nothing /\ Rollbacks!RunEffects
        /\ UNCHANGED <<job, restores, stamped, jobs, restoreJobID, unseen, stale, failures>>
    BY <1>15 DEF Rollbacks!RestoreFails, Rollbacks!server, Rollbacks!history
  <2>2. QED BY <1>1, <1>6, <1>7, <1>11, <2>1
<1>16. CASE Rollbacks!PollJobs
  <2>1. /\ jobs' = Rollbacks!Fetch(jobs, job)
        /\ UNCHANGED <<job, restores, stamped, rEntries, restoring, restoreJobID, rSeen, unseen,
                       stale, failures>>
    BY <1>16 DEF Rollbacks!PollJobs, Rollbacks!server, Rollbacks!history
  <2>2. jobs'.data = jobs.data BY <1>1, <2>1 DEF Rollbacks!Fetch, JobsQueries
  <2>3. jobs' \in JobsQueries /\ KnownJobs(jobs'.data) /\ KnownJobs(jobs'.flight) BY <1>9, <2>1
  <2>4. KnownJobs(jobs.data)' /\ KnownJobs(jobs.flight)' BY <2>1, <2>3 DEF KnownJobs
  <2>5. DoneSeen' => StampedEntry(rEntries, stale)'
    BY <1>7, <2>1, <2>2 DEF DoneSeen, Rollbacks!ShownStatus, Rollbacks!StatusIn, StampedEntry,
                            Rollbacks!Fetching
  <2>6. Rollbacks!TypeOK' BY <1>1, <2>1, <2>3 DEF Rollbacks!TypeOK, JobsQueries, JobLists
  <2>7. QED BY <1>a, <2>1, <2>4, <2>5, <2>6 DEF RollbacksInv
<1>17. CASE Rollbacks!JobsArrive
  <2>1. /\ jobs' = Rollbacks!Answered(jobs) /\ Rollbacks!RunEffects
        /\ UNCHANGED <<job, restores, stamped, restoring, restoreJobID, unseen, stale, failures>>
    BY <1>17 DEF Rollbacks!JobsArrive, Rollbacks!server, Rollbacks!history
  <2>2. QED BY <1>1, <1>6, <1>7, <1>10, <1>11, <2>1
<1>18. CASE Rollbacks!Refresh
  <2>1. /\ rEntries' = Rollbacks!Refetch(Rollbacks!AfterEffects(rEntries), stamped)
        /\ rSeen' = Rollbacks!ShownStatus
        /\ UNCHANGED <<job, restores, stamped, jobs, restoring, restoreJobID, unseen, stale, failures>>
    BY <1>18 DEF Rollbacks!Refresh, Rollbacks!server, Rollbacks!history
  <2>2. PICK q \in EntriesQueries : q = Rollbacks!AfterEffects(rEntries) BY <1>8
  <2>3. /\ rEntries' \in EntriesQueries
        /\ rEntries.data # Nothing => rEntries'.data # Nothing /\ rEntries'.flight = stamped
        /\ Rollbacks!Fetching(rEntries')
    BY <1>1, <1>8, <2>1, <2>2, EntriesRefetched
  <2>4. DoneSeen' => StampedEntry(rEntries, stale)'
    <3>1. SUFFICES ASSUME DoneSeen' PROVE StampedEntry(rEntries, stale)'
      OBVIOUS
    <3>2. Rollbacks!ShownStatus = "done" BY <2>1, <3>1 DEF DoneSeen
    <3>3. restores[restoreJobID] \in stamped /\ rEntries.data # Nothing
      BY <3>2, ShownDoneIsStamped
    <3>4. QED BY <2>1, <2>3, <3>3 DEF StampedEntry, Rollbacks!Fetching
  <2>5. QED BY <1>1, <1>6, <1>7, <2>1, <2>3, <2>4
(* An answer to the fetch of the entries, or its failure.                  *)
<1>19. ASSUME NEW q \in EntriesQueries, rEntries.data # Nothing => q.data # Nothing,
              rEntries' = Rollbacks!AfterEffects(q), rSeen' = Rollbacks!ShownStatus,
              DoneSeen => StampedEntry(q, stale'), stale' \in BOOLEAN, failures' \in 0 .. MaxFailures,
              UNCHANGED <<job, restores, stamped, jobs, restoring, restoreJobID, unseen>>
       PROVE  RollbacksInv'
  <2>1. DoneSeen' => StampedEntry(rEntries, stale)' BY <1>19, RollbacksEffects
  <2>2. rEntries' \in EntriesQueries /\ (q.data # Nothing => rEntries'.data # Nothing)
    BY <1>1, <1>19, EntriesRefetched
  <2>3. QED BY <1>1, <1>6, <1>7, <1>19, <2>1, <2>2
<1>20. CASE Rollbacks!EntriesArrive
  <2> DEFINE q == Rollbacks!Answered(rEntries)
  <2>1. q \in EntriesQueries /\ q.data = rEntries.flight /\ q.flight = Nothing
    BY <1>1, EntriesSettle
  <2>2. /\ rEntries.flight # Nothing /\ rEntries' = Rollbacks!AfterEffects(q)
        /\ rSeen' = Rollbacks!ShownStatus /\ stale' = FALSE
        /\ UNCHANGED <<job, restores, stamped, jobs, restoring, restoreJobID, unseen, failures>>
    BY <1>20 DEF Rollbacks!EntriesArrive, Rollbacks!server, Rollbacks!Fetching
  <2> HIDE DEF q
  <2>3. DoneSeen => StampedEntry(q, stale')
    BY <1>7, <2>1, <2>2 DEF StampedEntry, Rollbacks!Fetching
  <2>4. QED BY <1>7, <1>19, <2>1, <2>2, <2>3
<1>21. CASE Rollbacks!FetchFails
  <2>1. /\ rSeen' = Rollbacks!ShownStatus /\ failures' \in 0 .. MaxFailures
        /\ UNCHANGED <<job, restores, stamped, restoring, restoreJobID, unseen>>
    BY <1>7, <1>21, <1>a DEF Rollbacks!FetchFails, Rollbacks!server
  <2>2. CASE /\ rEntries' = Rollbacks!AfterEffects(Rollbacks!Failed(rEntries))
             /\ stale' = TRUE /\ UNCHANGED jobs
    <3> DEFINE q == Rollbacks!Failed(rEntries)
    <3>1. q \in EntriesQueries /\ q.data = rEntries.data /\ q.flight = Nothing
      BY <1>1, EntriesSettle
    <3> HIDE DEF q
    <3>2. StampedEntry(q, TRUE) BY <3>1 DEF StampedEntry, Rollbacks!Fetching
    <3>3. rEntries' = Rollbacks!AfterEffects(q) BY <2>2 DEF q
    <3>4. QED BY <1>19, <2>1, <2>2, <3>1, <3>2, <3>3
  <2>3. CASE /\ jobs' = Rollbacks!Failed(jobs) /\ UNCHANGED stale
             /\ rEntries' = Rollbacks!AfterEffects(rEntries)
    <3>1. Rollbacks!RunEffects BY <2>1, <2>3 DEF Rollbacks!RunEffects
    <3>2. QED BY <1>1, <1>6, <1>7, <1>10, <1>11, <2>1, <2>3, <3>1
  <2>4. QED BY <1>21, <2>2, <2>3 DEF Rollbacks!FetchFails
<1>22. QED
  BY <1>3, <1>4, <1>5, <1>12, <1>13, <1>14, <1>15, <1>16, <1>17, <1>18, <1>20, <1>21
     DEF Rollbacks!Next

LEMMA RollbacksShown == RollbacksInv => Rollbacks!DoneIsShownRestored
BY DEF RollbacksInv, DoneSeen, StampedEntry, Rollbacks!DoneIsShownRestored

-----------------------------------------------------------------------------
(* The listings: the pages that one has read are in what it has found.     *)
Loadable == Prefixes \union {Root}
Listings == [prefix : Loadable, read : Nat, found : SUBSET S3!Paths, over : BOOLEAN]

ReadSoFar(l) ==
  /\ l.read \in 0 .. Len(Pages[l.prefix])
  /\ \A n \in 1 .. l.read : Pages[l.prefix][n] \subseteq l.found

ListingInv ==
  /\ S3!TypeOK
  /\ loads \in Seq(Listings)
  /\ \A i \in DOMAIN loads : ReadSoFar(loads[i])
  /\ S3!LoadedIsComplete

LEMMA PagesAreSequences ==
  /\ \A p \in Loadable : /\ Pages[p] \in Seq(SUBSET S3!Paths) /\ Len(Pages[p]) \in Nat
                         /\ DOMAIN Pages[p] = 1 .. Len(Pages[p])
  /\ MaxLoads \in Nat \ {0}
<1>1. MaxLoads \in Nat \ {0} /\ \A p \in Loadable : Pages[p] \in Seq(SUBSET S3!Paths)
  BY PartsAssumption DEF S3!S3Assumption, Loadable
<1>2. QED BY <1>1, LenProperties

LEMMA NewListing ==
  ASSUME NEW p \in Loadable
  PROVE  S3!NewLoad(p) \in Listings /\ ReadSoFar(S3!NewLoad(p))
<1> DEFINE l == S3!NewLoad(p)
<1>1. l.prefix = p /\ l.read = 0 /\ l \in Listings BY DEF S3!NewLoad, Listings
<1>2. Len(Pages[p]) \in Nat BY PagesAreSequences
<1> HIDE DEF l
<1>3. QED BY <1>1, <1>2 DEF ReadSoFar, l

LEMMA ListingType ==
  ASSUME NEW q \in Seq(Listings), \A i \in DOMAIN q : ReadSoFar(q[i])
  PROVE  \A i \in DOMAIN q :
           q[i] \in [prefix : Loadable, read : 0 .. Len(Pages[q[i].prefix]),
                     found : SUBSET S3!Paths, over : BOOLEAN]
<1> SUFFICES ASSUME NEW i \in DOMAIN q
             PROVE  q[i] \in [prefix : Loadable, read : 0 .. Len(Pages[q[i].prefix]),
                              found : SUBSET S3!Paths, over : BOOLEAN]
  OBVIOUS
<1>1. q[i] \in Listings BY ElementOfSeq, LenProperties
<1>2. q[i].read \in 0 .. Len(Pages[q[i].prefix]) BY DEF ReadSoFar
<1>3. QED BY <1>1, <1>2 DEF Listings

LEMMA ListingInit == S3!Init => ListingInv
<1> SUFFICES ASSUME S3!Init PROVE ListingInv
  OBVIOUS
<1>1. loads = <<S3!NewLoad(Root)>> BY DEF S3!Init
<1>2. PICK l \in Listings : l = S3!NewLoad(Root) /\ ReadSoFar(l) BY NewListing DEF Loadable
<1>3. loads = <<l>> BY <1>1, <1>2
<1>4. loads \in Seq(Listings) /\ Len(loads) = 1 /\ \A i \in DOMAIN loads : ReadSoFar(loads[i])
  BY <1>2, <1>3
<1>5. Len(loads) <= MaxLoads BY <1>4, PagesAreSequences
<1>6. S3!TypeOK BY <1>4, <1>5, ListingType DEF S3!Init, S3!TypeOK, Loadable
<1>7. QED BY <1>4, <1>6 DEF S3!Init, ListingInv, S3!LoadedIsComplete

LEMMA ListingStep ==
  ASSUME ListingInv, S3!Next
  PROVE  ListingInv'
<1>1. /\ S3!TypeOK /\ loads \in Seq(Listings) /\ S3!LoadedIsComplete
      /\ \A i \in DOMAIN loads : ReadSoFar(loads[i])
  BY DEF ListingInv
<1>2. /\ Len(loads) \in Nat /\ DOMAIN loads = 1 .. Len(loads)
      /\ \A i \in DOMAIN loads : loads[i] \in Listings
  BY <1>1, ElementOfSeq, LenProperties
<1>3. Nothing \notin Objects /\ Objects \subseteq S3!Paths /\ Prefixes \subseteq S3!Paths
  BY PartsAssumption DEF S3!S3Assumption, S3!Paths
(* What a step of the page has to keep of the tree and of the listings.    *)
<1>4. ASSUME entries' \in SUBSET S3!Paths, entries \subseteq entries',
             loadedPrefixes' \in SUBSET Loadable,
             selectedPath' \in entries' \union {Nothing}, followedPath' \in entries' \union {Nothing},
             selectedObject' \in Objects \union {Nothing}, reading' \in Objects \union {Nothing},
             sCancelled' \in Objects \union {Nothing}, loadingObject' \in BOOLEAN,
             loads' \in Seq(Listings), Len(loads') <= MaxLoads,
             \A i \in DOMAIN loads' : ReadSoFar(loads'[i]),
             \A p \in loadedPrefixes' \ loadedPrefixes :
               \A n \in DOMAIN Pages[p] : Pages[p][n] \subseteq entries'
      PROVE  ListingInv'
  <2>1. \A p \in loadedPrefixes' : \A n \in DOMAIN Pages[p] : Pages[p][n] \subseteq entries'
    BY <1>1, <1>4 DEF S3!LoadedIsComplete
  <2>2. \A i \in DOMAIN loads' :
          loads'[i] \in [prefix : Loadable, read : 0 .. Len(Pages[loads'[i].prefix]),
                         found : SUBSET S3!Paths, over : BOOLEAN]
    BY <1>4, ListingType
  <2>3. S3!TypeOK' BY <1>4, <2>2 DEF S3!TypeOK, Loadable
  <2>4. (\A i \in DOMAIN loads : ReadSoFar(loads[i]))' BY <1>4 DEF ReadSoFar
  <2>5. QED BY <1>4, <2>1, <2>3, <2>4 DEF ListingInv, S3!LoadedIsComplete
<1>5. /\ entries \in SUBSET S3!Paths /\ loadedPrefixes \in SUBSET Loadable
      /\ selectedPath \in entries \union {Nothing} /\ followedPath \in entries \union {Nothing}
      /\ selectedObject \in Objects \union {Nothing} /\ reading \in Objects \union {Nothing}
      /\ sCancelled \in Objects \union {Nothing} /\ loadingObject \in BOOLEAN
      /\ Len(loads) <= MaxLoads
  BY <1>1 DEF S3!TypeOK, Loadable
<1>6. ASSUME NEW p \in entries \union {Nothing}, S3!Select(p) PROVE ListingInv'
  BY <1>1, <1>4, <1>5, <1>6 DEF S3!Select
<1>7. CASE S3!Effects
  <2>1. /\ followedPath' = selectedPath /\ selectedObject' = Nothing
        /\ sCancelled' \in {reading, sCancelled}
        /\ reading' \in Objects \union {Nothing} /\ loadingObject' \in BOOLEAN
        /\ UNCHANGED <<entries, loadedPrefixes, selectedPath>>
    BY <1>5, <1>7 DEF S3!Effects
  <2>2. loads' = loads \/ /\ selectedPath \in Prefixes /\ Len(loads) < MaxLoads
                          /\ loads' = Append(loads, S3!NewLoad(selectedPath))
    BY <1>7 DEF S3!Effects
  <2>3. CASE loads' = loads
    BY <1>1, <1>4, <1>5, <2>1, <2>3
  <2>4. CASE /\ selectedPath \in Prefixes /\ Len(loads) < MaxLoads
             /\ loads' = Append(loads, S3!NewLoad(selectedPath))
    <3>1. PICK l \in Listings : l = S3!NewLoad(selectedPath) /\ ReadSoFar(l)
      BY <2>4, NewListing DEF Loadable
    <3>2. loads' = Append(loads, l) BY <2>4, <3>1
    <3>3. loads' \in Seq(Listings) /\ Len(loads') = Len(loads) + 1 /\ Len(loads') <= MaxLoads
      BY <1>1, <1>2, <2>4, <3>2, PagesAreSequences
    <3>4. \A i \in DOMAIN loads' : loads'[i] = l \/ (i \in DOMAIN loads /\ loads'[i] = loads[i])
      BY <1>1, <1>2, <3>2, <3>3
    <3>5. \A i \in DOMAIN loads' : ReadSoFar(loads'[i]) BY <1>1, <3>1, <3>4
    <3>6. QED BY <1>1, <1>4, <1>5, <2>1, <3>3, <3>5
  <2>5. QED BY <2>2, <2>3, <2>4
<1>8. CASE S3!ObjectAnswered \/ S3!LateAnswer
  BY <1>1, <1>4, <1>5, <1>8 DEF S3!ObjectAnswered, S3!LateAnswer
(* A listing changes from l to r.                                          *)
<1>9. ASSUME NEW i \in DOMAIN loads, NEW r \in Listings, ReadSoFar(r),
             loads' = [loads EXCEPT ![i] = r]
      PROVE  /\ loads' \in Seq(Listings) /\ Len(loads') <= MaxLoads
             /\ \A j \in DOMAIN loads' : ReadSoFar(loads'[j])
  <2>1. /\ loads' \in Seq(Listings) /\ Len(loads') = Len(loads) /\ DOMAIN loads' = DOMAIN loads
    BY <1>1, <1>2, <1>9, ExceptSeq
  <2>2. \A j \in DOMAIN loads' : loads'[j] = r \/ loads'[j] = loads[j] BY <1>9, <2>1
  <2>3. QED BY <1>1, <1>5, <1>9, <2>1, <2>2
<1>10. ASSUME NEW i \in DOMAIN loads, S3!PageArrives(i) PROVE ListingInv'
  <2> DEFINE l == loads[i]
             r == [l EXCEPT !.read = @ + 1, !.found = @ \union Pages[l.prefix][l.read + 1]]
  <2>1. l \in Listings /\ ReadSoFar(l) BY <1>1, <1>2
  <2>2. l.read < Len(Pages[l.prefix]) /\ loads' = [loads EXCEPT ![i] = r]
        /\ UNCHANGED <<entries, loadedPrefixes, selectedPath, followedPath, selectedObject,
                       loadingObject, reading, sCancelled>>
    BY <1>10, <2>1 DEF S3!PageArrives, Listings
  <2>3. /\ r.prefix = l.prefix /\ r.read = l.read + 1
        /\ r.found = l.found \union Pages[l.prefix][l.read + 1]
    BY <2>1 DEF Listings
  <2>a. r.found \in SUBSET S3!Paths /\ r.read \in Nat => r \in Listings BY <2>1 DEF Listings
  <2> HIDE DEF r, l
  <2>4. PICK s \in Seq(SUBSET S3!Paths) : s = Pages[l.prefix] /\ Len(s) \in Nat
    BY <2>1, PagesAreSequences DEF Listings
  <2>5. l.read \in Nat /\ l.read + 1 \in 1 .. Len(s) BY <2>1, <2>2, <2>4 DEF Listings
  <2>6. s[l.read + 1] \in SUBSET S3!Paths BY <2>4, <2>5, ElementOfSeq
  <2>7. r \in Listings BY <2>1, <2>3, <2>4, <2>5, <2>6, <2>a DEF Listings
  <2>8. \A n \in 1 .. r.read : Pages[r.prefix][n] \subseteq r.found
    BY <2>1, <2>3, <2>4, <2>5 DEF ReadSoFar
  <2>9. ReadSoFar(r) BY <2>3, <2>4, <2>5, <2>8 DEF ReadSoFar
  <2>10. QED BY <1>1, <1>4, <1>5, <1>9, <2>2, <2>7, <2>9
<1>11. ASSUME NEW i \in DOMAIN loads, S3!ListingEnds(i) \/ S3!ListingFails(i) PROVE ListingInv'
  <2> DEFINE l == loads[i]
             r == [l EXCEPT !.over = TRUE]
  <2>1. l \in Listings /\ ReadSoFar(l) BY <1>1, <1>2
  <2>2. /\ loads' = [loads EXCEPT ![i] = r]
        /\ UNCHANGED <<selectedPath, followedPath, selectedObject, loadingObject, reading,
                       sCancelled>>
        /\ \/ /\ l.read = Len(Pages[l.prefix]) /\ entries' = entries \union l.found
              /\ loadedPrefixes' = loadedPrefixes \union {l.prefix}
           \/ UNCHANGED <<entries, loadedPrefixes>>
    BY <1>11, <2>1 DEF S3!ListingEnds, S3!ListingFails, Listings
  <2>3. r \in Listings /\ r.prefix = l.prefix /\ r.read = l.read /\ r.found = l.found
    BY <2>1 DEF Listings
  <2> HIDE DEF r, l
  <2>4. ReadSoFar(r) BY <2>1, <2>3 DEF ReadSoFar
  <2>5. l.prefix \in Loadable /\ l.found \in SUBSET S3!Paths BY <2>1 DEF Listings
  <2>6. l.read = Len(Pages[l.prefix]) =>
          \A n \in DOMAIN Pages[l.prefix] : Pages[l.prefix][n] \subseteq l.found
    BY <2>1, <2>5, PagesAreSequences DEF ReadSoFar
  <2>7. QED BY <1>1, <1>4, <1>5, <1>9, <2>2, <2>3, <2>4, <2>5, <2>6
<1>12. QED BY <1>6, <1>7, <1>8, <1>10, <1>11 DEF S3!Next

-----------------------------------------------------------------------------
(* The page of the golang plugin: a session that is open is known to the   *)
(* page, or will be when the list or the answer of its start arrives.      *)
GoKnown(s) ==
  /\ goStale \/ s \in Golang!Listed
  /\ goSessions.flight # Nothing => s \in goSessions.flight

GoStarting(s) == startSession # Nothing /\ startSession.id = s

GolangInv ==
  /\ Golang!TypeOK
  /\ \A s \in open : target[s] # Nothing
  /\ \A s \in Golang!Ids :
       (s \in deleted \/ deleteSession[s] = "done") => s \notin open /\ target[s] # Nothing
  /\ goSessions.flight # Nothing => goSessions.flight \intersect deleted = {}
  /\ Golang!DeletedStaysGone
  /\ startSession # Nothing =>
       IF startSession.id = 0
       THEN startSession.target \in astray \/ \A s \in open : target[s] # startSession.target
       ELSE target[startSession.id] = startSession.target
  /\ \A s \in open : target[s] \in astray \/ GoStarting(s) \/ GoKnown(s)
  /\ Golang!OneSessionPerTarget

IdLists == (SUBSET Golang!Ids) \union {Nothing}
GoQueries == [data : IdLists, flight : IdLists]
Starts == [target : Targets, id : Golang!Ids \union {0}]

LEMMA GolangConstants ==
  /\ MaxStarts \in Nat /\ MaxErrors \in Nat /\ Nothing \notin Targets
  /\ \A ids \in SUBSET Golang!Ids : ids # Nothing
  /\ Nothing \notin Starts
<1>1. /\ MaxStarts \in Nat /\ MaxErrors \in Nat /\ Nothing \notin Targets
      /\ \A ids \in SUBSET Golang!Ids : ids # Nothing
      /\ \A start \in [target : Targets, id : 0 .. MaxStarts] : start # Nothing
  BY PartsAssumption DEF Golang!GolangPageAssumption, Golang!Ids
<1>2. Golang!Ids \union {0} = 0 .. MaxStarts BY <1>1 DEF Golang!Ids
<1>3. QED BY <1>1, <1>2 DEF Starts

LEMMA GolangInit == Golang!Init => GolangInv
<1> SUFFICES ASSUME Golang!Init PROVE GolangInv
  OBVIOUS
<1>1. /\ open \in {{}, {1} \intersect Golang!Ids}
      /\ goSessions = Golang!Fetch(Golang!NewQuery, open)
      /\ startSession = Nothing /\ deleteSession = [s \in Golang!Ids |-> "none"]
      /\ deleted = {} /\ selectedTarget = Nothing /\ astray = {} /\ goStale = TRUE /\ errors = 0
  BY DEF Golang!Init
<1>2. PICK t \in Targets : target = [s \in Golang!Ids |-> IF s \in open THEN t ELSE Nothing]
  BY DEF Golang!Init
<1>3. open \in SUBSET Golang!Ids /\ target \in [Golang!Ids -> Targets \union {Nothing}]
      /\ (\A s \in open : target[s] = t) /\ t # Nothing
  BY <1>1, <1>2, GolangConstants
<1>4. goSessions = [data |-> Nothing, flight |-> open]
  BY <1>1 DEF Golang!Fetch, Golang!NewQuery, Golang!Fetching
<1>5. goSessions \in GoQueries BY <1>3, <1>4 DEF GoQueries, IdLists
<1>6. Golang!TypeOK
  BY <1>1, <1>3, <1>5, GolangConstants DEF Golang!TypeOK, GoQueries, IdLists
<1>7. \A s, u \in open : s = u BY <1>1
<1>8. goSessions.flight = open /\ open # Nothing /\ Golang!Fetching(goSessions)
  BY <1>3, <1>4, GolangConstants DEF Golang!Fetching
<1>9. QED
  BY <1>1, <1>3, <1>6, <1>7, <1>8
     DEF GolangInv, Golang!DeletedStaysGone, Golang!OneSessionPerTarget, GoKnown, GoStarting

LEMMA GolangStep ==
  ASSUME GolangInv, Golang!Next
  PROVE  GolangInv'
<1>1. /\ target \in [Golang!Ids -> Targets \union {Nothing}]
      /\ open \in SUBSET Golang!Ids /\ goSessions \in GoQueries
      /\ startSession \in Starts \union {Nothing}
      /\ deleteSession \in [Golang!Ids -> {"none", "asked", "done"}]
      /\ deleted \in SUBSET Golang!Ids /\ selectedTarget \in Targets \union {Nothing}
      /\ astray \in SUBSET Targets /\ goStale \in BOOLEAN /\ errors \in 0 .. MaxErrors
  BY DEF GolangInv, Golang!TypeOK, GoQueries, IdLists, Starts
<1>2. /\ \A s \in open : target[s] # Nothing
      /\ \A s \in Golang!Ids :
           (s \in deleted \/ deleteSession[s] = "done") => s \notin open /\ target[s] # Nothing
      /\ goSessions.flight # Nothing => goSessions.flight \intersect deleted = {}
      /\ goSessions.flight = Nothing /\ ~goStale => Golang!Listed \intersect deleted = {}
      /\ startSession # Nothing =>
           IF startSession.id = 0
           THEN startSession.target \in astray \/ \A s \in open : target[s] # startSession.target
           ELSE target[startSession.id] = startSession.target
      /\ \A s \in open : target[s] \in astray \/ GoStarting(s) \/ GoKnown(s)
      /\ \A s, u \in open : s # u /\ target[s] = target[u] => target[s] \in astray
  BY DEF GolangInv, Golang!DeletedStaysGone, Golang!OneSessionPerTarget, Golang!Fetching
(* The facts that make the invariant of the next state.                    *)
<1>3. ASSUME target' \in [Golang!Ids -> Targets \union {Nothing}],
             open' \in SUBSET Golang!Ids, goSessions' \in GoQueries,
             startSession' \in Starts \union {Nothing},
             deleteSession' \in [Golang!Ids -> {"none", "asked", "done"}],
             deleted' \in SUBSET Golang!Ids, selectedTarget' \in Targets \union {Nothing},
             astray' \in SUBSET Targets, goStale' \in BOOLEAN, errors' \in 0 .. MaxErrors,
             \A s \in open' : target'[s] # Nothing,
             \A s \in Golang!Ids :
               (s \in deleted' \/ deleteSession'[s] = "done") => s \notin open' /\ target'[s] # Nothing,
             goSessions'.flight # Nothing => goSessions'.flight \intersect deleted' = {},
             goSessions'.flight = Nothing /\ ~goStale' => Golang!Listed' \intersect deleted' = {},
             startSession' # Nothing =>
               IF startSession'.id = 0
               THEN startSession'.target \in astray' \/ \A s \in open' : target'[s] # startSession'.target
               ELSE target'[startSession'.id] = startSession'.target,
             \A s \in open' : target'[s] \in astray' \/ GoStarting(s)' \/ GoKnown(s)',
             \A s, u \in open' : s # u /\ target'[s] = target'[u] => target'[s] \in astray'
      PROVE  GolangInv'
  <2>1. Golang!TypeOK' BY <1>3 DEF Golang!TypeOK, GoQueries, IdLists, Starts, Golang!Ids
  <2>2. Golang!DeletedStaysGone' /\ Golang!OneSessionPerTarget'
    BY <1>3 DEF Golang!DeletedStaysGone, Golang!OneSessionPerTarget, Golang!Fetching
  <2>3. QED BY <1>3, <2>1, <2>2 DEF GolangInv, Golang!Ids
<1> USE DEF Golang!server, Golang!list
<1>4. CASE Golang!SelectDefault \/ \E t \in Targets : Golang!SelectTarget(t)
  <2>1. /\ selectedTarget' \in Targets
        /\ UNCHANGED <<target, open, goSessions, goStale, startSession, deleteSession, deleted, astray,
                       errors>>
    BY <1>4 DEF Golang!SelectDefault, Golang!SelectTarget
  <2>2. UNCHANGED Golang!Listed /\ \A s \in open : (GoStarting(s)' <=> GoStarting(s)) /\ (GoKnown(s)' <=> GoKnown(s))
    BY <2>1 DEF Golang!Listed, GoStarting, GoKnown
  <2>3. QED BY <1>1, <1>2, <1>3, <2>1, <2>2
<1>5. ASSUME NEW t \in Targets, Golang!Start(t) PROVE GolangInv'
  <2>1. /\ startSession = Nothing /\ Golang!SessionOf(t) = {} /\ selectedTarget' = t
        /\ startSession' = [target |-> t, id |-> 0]
        /\ astray' = IF goStale THEN astray \union {t} ELSE astray
        /\ UNCHANGED <<target, open, goSessions, goStale, deleteSession, deleted, errors>>
    BY <1>5 DEF Golang!Start
  <2>2. startSession' \in Starts /\ startSession'.id = 0 /\ startSession'.target = t BY <2>1 DEF Starts
  <2>3. UNCHANGED Golang!Listed /\ \A s \in open : GoKnown(s)' <=> GoKnown(s)
    BY <2>1 DEF Golang!Listed, GoKnown
  <2>4. astray \subseteq astray' /\ astray' \in SUBSET Targets BY <1>1, <2>1
  <2>5. t \in astray' \/ \A s \in open : target[s] # t
    <3>1. SUFFICES ASSUME ~goStale, t \notin astray, NEW s \in open, target[s] = t PROVE FALSE
      BY <2>1
    <3>2. s \in Golang!Listed BY <1>2, <2>1, <3>1 DEF GoStarting, GoKnown
    <3>3. QED BY <2>1, <3>1, <3>2 DEF Golang!SessionOf
  <2>6. \A s \in open : target[s] \in astray \/ GoKnown(s) BY <1>2, <2>1 DEF GoStarting
  <2>7. QED BY <1>1, <1>2, <1>3, <2>1, <2>2, <2>3, <2>4, <2>5, <2>6
<1>6. ASSUME NEW s \in Golang!Ids, Golang!SessionCreated(s) PROVE GolangInv'
  <2>1. /\ startSession # Nothing /\ startSession.id = 0 /\ target[s] = Nothing
        /\ target' = [target EXCEPT ![s] = startSession.target] /\ open' = open \union {s}
        /\ startSession' = [startSession EXCEPT !.id = s]
        /\ UNCHANGED <<goSessions, goStale, deleteSession, deleted, selectedTarget, astray, errors>>
    BY <1>6 DEF Golang!SessionCreated
  <2> DEFINE t == startSession.target
  <2>2. /\ startSession' \in Starts /\ startSession'.id = s /\ startSession'.target = t
        /\ t \in Targets /\ t # Nothing /\ s # 0 /\ startSession' # Nothing
    <3>1. startSession \in Starts BY <1>1, <2>1
    <3>2. s # 0 BY GolangConstants DEF Golang!Ids
    <3>3. startSession' \in Starts /\ startSession'.id = s /\ startSession'.target = t /\ t \in Targets
      BY <2>1, <3>1 DEF Starts
    <3>4. startSession' # Nothing BY <3>3, GolangConstants
    <3>5. QED BY <3>2, <3>3, <3>4, GolangConstants
  <2>3. s \notin open /\ s \notin deleted /\ deleteSession[s] # "done" BY <1>2, <2>1
  <2>4. /\ target' \in [Golang!Ids -> Targets \union {Nothing}] /\ target'[s] = t
        /\ \A u \in Golang!Ids : u # s => target'[u] = target[u]
    BY <1>1, <2>1, <2>2
  <2>5. UNCHANGED Golang!Listed /\ (\A u \in open : GoKnown(u)' <=> GoKnown(u)) /\ GoStarting(s)'
    BY <2>1, <2>2 DEF Golang!Listed, GoKnown, GoStarting
  <2>6. \A u \in open : target[u] \in astray \/ GoKnown(u)
    <3>1. 0 \notin open BY <1>1, GolangConstants DEF Golang!Ids
    <3>2. QED BY <1>2, <2>1, <3>1 DEF GoStarting
  <2>7. \A u \in open : target[u] = t => t \in astray BY <1>2, <2>1
  <2>8. QED BY <1>1, <1>2, <1>3, <2>1, <2>2, <2>3, <2>4, <2>5, <2>6, <2>7
(* A list is shown, asked for again, or both.                              *)
<1>7. ASSUME NEW shown \in IdLists, goSessions' = Golang!Refetch([goSessions EXCEPT !.data = shown], open),
             shown # Nothing
      PROVE  /\ goSessions' \in GoQueries /\ goSessions'.data = shown /\ goSessions'.flight = open
             /\ Golang!Listed' = shown
  <2>1. goSessions' = [data |-> shown, flight |-> open]
    BY <1>1, <1>7 DEF Golang!Refetch, GoQueries
  <2>2. open \in IdLists BY <1>1 DEF IdLists
  <2>3. QED BY <1>7, <2>1, <2>2 DEF GoQueries, Golang!Listed
<1>8. CASE Golang!Started
  <2>1. /\ startSession # Nothing /\ startSession.id # 0
        /\ selectedTarget' = startSession.target /\ startSession' = Nothing
        /\ goSessions' = Golang!Refetch([goSessions EXCEPT !.data = Golang!Listed \union {startSession.id}], open)
        /\ UNCHANGED <<target, open, goStale, deleteSession, deleted, astray, errors>>
    BY <1>8 DEF Golang!Started, Golang!SetAndRefetch
  <2>2. startSession.target \in Targets /\ startSession.id \in Golang!Ids BY <1>1, <2>1 DEF Starts
  <2> DEFINE shown == Golang!Listed \union {startSession.id}
  <2>3. Golang!Listed \in SUBSET Golang!Ids BY <1>1 DEF Golang!Listed, GoQueries, IdLists
  <2>4. shown \in IdLists /\ shown # Nothing
    BY <2>2, <2>3, GolangConstants DEF IdLists
  <2> HIDE DEF shown
  <2>5. /\ goSessions' \in GoQueries /\ goSessions'.data = shown /\ goSessions'.flight = open
        /\ Golang!Listed' = shown
    BY <1>7, <2>1, <2>4 DEF shown
  <2>6. \A s \in open : target[s] \in astray \/ GoKnown(s)'
    BY <1>2, <2>1, <2>5 DEF shown, GoStarting, GoKnown
  <2>7. open # Nothing /\ open \intersect deleted = {} BY <1>1, <1>2, GolangConstants
  <2>8. QED BY <1>1, <1>2, <1>3, <2>1, <2>2, <2>5, <2>6, <2>7
<1>9. CASE Golang!StartFails
  <2>1. /\ startSession # Nothing /\ startSession' = Nothing /\ errors < MaxErrors
        /\ errors' = errors + 1
        /\ astray' = IF startSession.id # 0 THEN astray \union {startSession.target} ELSE astray
        /\ UNCHANGED <<target, open, goSessions, goStale, deleteSession, deleted, selectedTarget>>
    BY <1>9 DEF Golang!StartFails
  <2>2. startSession.target \in Targets /\ errors' \in 0 .. MaxErrors
    BY <1>1, <2>1, GolangConstants DEF Starts
  <2>3. UNCHANGED Golang!Listed /\ \A s \in open : GoKnown(s)' <=> GoKnown(s)
    BY <2>1 DEF Golang!Listed, GoKnown
  <2>4. astray \subseteq astray' /\ astray' \in SUBSET Targets BY <1>1, <2>1, <2>2
  <2>5. \A s \in open : target[s] \in astray' \/ GoKnown(s)
    <3>1. SUFFICES ASSUME NEW s \in open, target[s] \notin astray', ~GoKnown(s) PROVE FALSE
      OBVIOUS
    <3>2. startSession.id = s /\ s # 0
      BY <1>1, <1>2, <2>4, <3>1, GolangConstants DEF GoStarting, Golang!Ids
    <3>3. QED BY <1>2, <2>1, <3>1, <3>2
  <2>6. QED BY <1>1, <1>2, <1>3, <2>1, <2>2, <2>3, <2>4, <2>5
<1>10. ASSUME NEW s \in Golang!Ids,
              Golang!Delete(s) \/ Golang!SessionDeleted(s) \/ Golang!DeleteFails(s)
       PROVE  GolangInv'
  <2>1. /\ open' \in {open, open \ {s}} /\ errors' \in {errors, errors + 1}
        /\ errors' = errors + 1 => errors < MaxErrors
        /\ \E d \in {"none", "asked", "done"} :
             /\ deleteSession' = [deleteSession EXCEPT ![s] = d]
             /\ d = "done" => s \notin open' /\ s \in open
        /\ UNCHANGED <<target, goSessions, goStale, startSession, deleted, selectedTarget, astray>>
    BY <1>1, <1>10 DEF Golang!Delete, Golang!SessionDeleted, Golang!DeleteFails
  <2>2. PICK d \in {"none", "asked", "done"} :
             /\ deleteSession' = [deleteSession EXCEPT ![s] = d]
             /\ d = "done" => s \notin open' /\ s \in open
    BY <2>1
  <2>3. /\ deleteSession' \in [Golang!Ids -> {"none", "asked", "done"}] /\ deleteSession'[s] = d
        /\ \A u \in Golang!Ids : u # s => deleteSession'[u] = deleteSession[u]
    BY <1>1, <2>2
  <2>4. errors' \in 0 .. MaxErrors BY <1>1, <2>1, GolangConstants
  <2>5. /\ UNCHANGED Golang!Listed
        /\ \A u \in open : (GoKnown(u)' <=> GoKnown(u)) /\ (GoStarting(u)' <=> GoStarting(u))
    BY <2>1 DEF Golang!Listed, GoKnown, GoStarting
  <2>6. \A u \in Golang!Ids :
          (u \in deleted \/ deleteSession'[u] = "done") => u \notin open' /\ target[u] # Nothing
    BY <1>2, <2>1, <2>2, <2>3
  <2>7. open' \subseteq open BY <2>1
  <2>8. QED BY <1>1, <1>2, <1>3, <2>1, <2>3, <2>4, <2>5, <2>6, <2>7
<1>11. ASSUME NEW s \in Golang!Ids, Golang!Deleted(s) PROVE GolangInv'
  <2>1. /\ deleteSession[s] = "done" /\ deleteSession' = [deleteSession EXCEPT ![s] = "none"]
        /\ deleted' = deleted \union {s}
        /\ goSessions' = Golang!Refetch([goSessions EXCEPT !.data = Golang!Listed \ {s}], open)
        /\ UNCHANGED <<target, open, goStale, startSession, selectedTarget, astray, errors>>
    BY <1>11 DEF Golang!Deleted, Golang!SetAndRefetch
  <2> DEFINE shown == Golang!Listed \ {s}
  <2>2. Golang!Listed \in SUBSET Golang!Ids BY <1>1 DEF Golang!Listed, GoQueries, IdLists
  <2>3. shown \in IdLists /\ shown # Nothing BY <2>2, GolangConstants DEF IdLists
  <2> HIDE DEF shown
  <2>4. /\ goSessions' \in GoQueries /\ goSessions'.data = shown /\ goSessions'.flight = open
        /\ Golang!Listed' = shown
    BY <1>7, <2>1, <2>3 DEF shown
  <2>5. s \notin open /\ target[s] # Nothing BY <1>2, <2>1
  <2>6. \A u \in open : target[u] \in astray \/ GoStarting(u)' \/ GoKnown(u)'
    BY <1>2, <2>1, <2>4, <2>5 DEF shown, GoStarting, GoKnown
  <2>7. open # Nothing /\ open \intersect deleted' = {} BY <1>1, <1>2, <2>1, <2>5, GolangConstants
  <2>8. deleteSession' \in [Golang!Ids -> {"none", "asked", "done"}]
        /\ \A u \in Golang!Ids : deleteSession'[u] = "done" => deleteSession[u] = "done"
    BY <1>1, <2>1
  <2>9. QED BY <1>1, <1>2, <1>3, <2>1, <2>4, <2>5, <2>6, <2>7, <2>8
<1>12. CASE Golang!Poll
  <2>1. /\ goSessions' \in {goSessions, [goSessions EXCEPT !.flight = open]}
        /\ goSessions' # goSessions
        /\ UNCHANGED <<target, open, goStale, startSession, deleteSession, deleted, selectedTarget,
                       astray, errors>>
    BY <1>12 DEF Golang!Poll, Golang!Fetch, Golang!Refetch
  <2>2. goSessions' \in GoQueries /\ goSessions'.data = goSessions.data /\ goSessions'.flight = open
    BY <1>1, <2>1 DEF GoQueries, IdLists
  <2>3. UNCHANGED Golang!Listed BY <2>2 DEF Golang!Listed
  <2>4. \A u \in open : target[u] \in astray \/ GoStarting(u)' \/ GoKnown(u)'
    BY <1>2, <2>1, <2>2, <2>3 DEF GoStarting, GoKnown
  <2>5. open # Nothing /\ open \intersect deleted = {} BY <1>1, <1>2, GolangConstants
  <2>6. QED BY <1>1, <1>2, <1>3, <2>1, <2>2, <2>3, <2>4, <2>5
<1>13. CASE Golang!ListArrives
  <2>1. /\ goSessions.flight # Nothing /\ goStale' = FALSE
        /\ goSessions' = [data |-> goSessions.flight, flight |-> Nothing]
        /\ UNCHANGED <<target, open, startSession, deleteSession, deleted, selectedTarget, astray,
                       errors>>
    BY <1>13 DEF Golang!ListArrives, Golang!Fetching, Golang!Answered
  <2>2. goSessions' \in GoQueries /\ goSessions'.flight = Nothing /\ Golang!Listed' = goSessions.flight
    BY <1>1, <2>1 DEF GoQueries, IdLists, Golang!Listed
  <2>3. \A u \in open : target[u] \in astray \/ GoStarting(u)' \/ GoKnown(u)'
    BY <1>2, <2>1, <2>2 DEF GoStarting, GoKnown
  <2>4. QED BY <1>1, <1>2, <1>3, <2>1, <2>2, <2>3
<1>14. CASE Golang!ListFails
  <2>1. /\ errors < MaxErrors /\ errors' = errors + 1 /\ goStale' = TRUE
        /\ goSessions' = [goSessions EXCEPT !.flight = Nothing]
        /\ UNCHANGED <<target, open, startSession, deleteSession, deleted, selectedTarget, astray>>
    BY <1>14 DEF Golang!ListFails, Golang!Failed
  <2>2. goSessions' \in GoQueries /\ goSessions'.flight = Nothing
    BY <1>1, <2>1 DEF GoQueries, IdLists
  <2>3. \A u \in open : target[u] \in astray \/ GoStarting(u)' \/ GoKnown(u)'
    BY <2>1, <2>2 DEF GoKnown
  <2>4. errors' \in 0 .. MaxErrors BY <1>1, <2>1, GolangConstants
  <2>5. QED BY <1>1, <1>2, <1>3, <2>1, <2>2, <2>3, <2>4
<1>15. QED
  BY <1>4, <1>5, <1>6, <1>8, <1>9, <1>10, <1>11, <1>12, <1>13, <1>14 DEF Golang!Next

-----------------------------------------------------------------------------
(* The page of the arthas plugin.  What the page knows of the session that *)
(* it starts is not ahead of the job; what it knows of the sessions is not *)
(* ahead of theirs, and the latest list that it asked for has all of them. *)
Begun(j) == aJob[j].state # "none"
Settled(j) == aJob[j].state \notin {"none", "pending"}

ArStartInv ==
  /\ create # Nothing /\ create.job # 0 =>
       Begun(create.job) /\ (create.seen # "pending" => Settled(create.job))
  /\ createJobId # 0 => createJobId = mine /\ create = Nothing
  /\ mine # 0 => Begun(mine)
  /\ createJobId # 0 /\ createStatus.flight \notin {Nothing, "pending"} => Settled(createJobId)
  /\ mine # 0 /\ aJob[mine].state = "pending" => createJobId = mine

ArKnown(s) ==
  \/ s \in Arthas!Listed \/ (aSessions.flight # Nothing /\ s \in aSessions.flight)
  \/ deletes[s] # "none" \/ s \in aDeleted \/ s = selectedId

ArSelected ==
  ~blind /\ selectedId \in aOpen =>
    IF aSessions.flight = Nothing THEN aStale \/ selectedId \in Arthas!Listed
    ELSE selectedId \in aSessions.flight

ArListInv ==
  /\ \A s \in Arthas!Ids : ArKnown(s) => Settled(s)
  /\ \A s \in Arthas!Ids : (s \in aDeleted \/ deletes[s] = "done") => s \notin aOpen
  /\ \A s \in Arthas!Ids : deletes[s] # "none" => aSessions.data # Nothing
  /\ aSessions.flight # Nothing =>
       aSessions.flight \intersect aDeleted = {} /\ aOpen \intersect Arthas!Listed \subseteq aSessions.flight
  /\ aSessions.flight = Nothing /\ ~aStale => Arthas!Listed \intersect aDeleted = {}
  /\ ArSelected

ArthasInv ==
  /\ Arthas!TypeOK
  /\ \A s \in aOpen : aJob[s].state = "running"
  /\ ArStartInv
  /\ ArListInv

ArIdLists == (SUBSET Arthas!Ids) \union {Nothing}
ArQueries == [data : ArIdLists, flight : ArIdLists]
ArJobs == [target : Targets \union {Nothing}, state : Arthas!States]
Creates == [target : Targets, job : Arthas!Ids \union {0}, seen : Arthas!States]
StatusQueries == [data : {Nothing, "pending"}, flight : Arthas!States \union {Nothing}]

ArServerType ==
  /\ aJob \in [Arthas!Ids -> ArJobs] /\ aOpen \in SUBSET Arthas!Ids
  /\ aErrors \in 0 .. MaxErrors
ArStartType ==
  /\ create \in Creates \union {Nothing} /\ createStatus \in StatusQueries
  /\ createJobId \in Arthas!Ids \union {0} /\ mine \in Arthas!Ids \union {0}
ArListType ==
  /\ aSessions \in ArQueries /\ selectedId \in Arthas!Ids \union {0}
  /\ deletes \in [Arthas!Ids -> {"none", "asked", "done"}] /\ aDeleted \in SUBSET Arthas!Ids
  /\ blind \in BOOLEAN /\ aStale \in BOOLEAN

LEMMA ArthasConstants ==
  /\ MaxJobs \in Nat /\ MaxErrors \in Nat /\ Nothing \notin Targets
  /\ \A ids \in SUBSET Arthas!Ids : ids # Nothing
  /\ 0 \notin Arthas!Ids
BY PartsAssumption DEF Arthas!ArthasPageAssumption, Arthas!Ids

LEMMA ArthasTypes == Arthas!TypeOK <=> ArServerType /\ ArStartType /\ ArListType
BY DEF Arthas!TypeOK, ArServerType, ArStartType, ArListType, ArIdLists, ArQueries, ArJobs, Creates,
       StatusQueries

LEMMA ArthasInit == Arthas!Init => ArthasInv
<1> SUFFICES ASSUME Arthas!Init PROVE ArthasInv
  OBVIOUS
<1>1. /\ aOpen = {j \in Arthas!Ids : aJob[j].state = "running"}
      /\ aSessions = Arthas!Fetch(Arthas!NewQuery, aOpen)
      /\ create = Nothing /\ createStatus = Arthas!NewQuery
      /\ createJobId = 0 /\ selectedId = 0 /\ mine = 0
      /\ deletes = [s \in Arthas!Ids |-> "none"] /\ aDeleted = {}
      /\ blind = FALSE /\ aStale = TRUE /\ aErrors = 0
  BY DEF Arthas!Init
<1>2. PICK first \in {Arthas!Unused} \union [target : Targets, state : {"pending", "running"}] :
        aJob = [j \in Arthas!Ids |-> IF j = 1 THEN first ELSE Arthas!Unused]
  BY DEF Arthas!Init
<1>3. first \in ArJobs /\ Arthas!Unused \in ArJobs BY DEF ArJobs, Arthas!Unused, Arthas!States
<1>4. ArServerType BY <1>1, <1>2, <1>3, ArthasConstants DEF ArServerType
<1>5. aSessions = [data |-> Nothing, flight |-> aOpen]
  BY <1>1 DEF Arthas!Fetch, Arthas!NewQuery, Arthas!Fetching
<1>6. aSessions \in ArQueries BY <1>4, <1>5 DEF ArQueries, ArIdLists, ArServerType
<1>7. ArListType BY <1>1, <1>6 DEF ArListType
<1>8. ArStartType BY <1>1 DEF ArStartType, Arthas!NewQuery, StatusQueries
<1>9. ArStartInv BY <1>1 DEF ArStartInv
<1>10. Arthas!Listed = {} /\ aSessions.flight = aOpen /\ aOpen # Nothing /\ 0 \notin Arthas!Ids
  BY <1>4, <1>5, ArthasConstants DEF Arthas!Listed, ArServerType
<1>11. ArListInv
  <2>1. \A s \in Arthas!Ids : ArKnown(s) => Settled(s) BY <1>1, <1>10 DEF ArKnown, Settled
  <2>2. ArSelected BY <1>1, <1>10 DEF ArSelected
  <2>3. QED BY <1>1, <1>10, <2>1, <2>2 DEF ArListInv
<1>12. \A s \in aOpen : aJob[s].state = "running" BY <1>1
<1>13. QED BY <1>4, <1>7, <1>8, <1>9, <1>11, <1>12, ArthasTypes DEF ArthasInv

(* The jobs advance: what has begun stays begun, what is settled stays so. *)
Advances(j) ==
  /\ Begun(j) => Begun(j)'
  /\ Settled(j) => Settled(j)'
  /\ Begun(j) /\ aJob'[j].state = "pending" => aJob[j].state = "pending"

LEMMA StartOutlivesAdvance ==
  ASSUME ArStartType, ArStartInv, UNCHANGED <<create, createStatus, createJobId, mine>>,
         \A j \in Arthas!Ids : Advances(j)
  PROVE  ArStartInv'
<1>1. createJobId \in Arthas!Ids \union {0} /\ mine \in Arthas!Ids \union {0}
      /\ (create # Nothing => create.job \in Arthas!Ids \union {0})
  BY DEF ArStartType, Creates
<1>2. create # Nothing /\ create.job # 0 =>
        Begun(create.job)' /\ (create.seen # "pending" => Settled(create.job)')
  BY <1>1 DEF ArStartInv, Advances
<1>3. mine # 0 => Begun(mine)' /\ (aJob'[mine].state = "pending" => createJobId = mine)
  BY <1>1 DEF ArStartInv, Advances
<1>4. createJobId # 0 /\ createStatus.flight \notin {Nothing, "pending"} => Settled(createJobId)'
  BY <1>1 DEF ArStartInv, Advances
<1>5. QED BY <1>2, <1>3, <1>4 DEF ArStartInv, Begun, Settled

LEMMA ListOutlivesAdvance ==
  ASSUME ArListType, ArListInv, UNCHANGED <<aSessions, selectedId, blind, aDeleted, aStale>>,
         \A j \in Arthas!Ids : Advances(j),
         \A j \in Arthas!Ids : /\ deletes'[j] # "none" => deletes[j] # "none"
                               /\ deletes'[j] = "done" => deletes[j] = "done" \/ j \notin aOpen',
         aOpen' \in SUBSET Arthas!Ids, \A j \in aOpen' : j \in aOpen \/ ~Settled(j)
  PROVE  ArListInv'
<1>1. \A s \in Arthas!Ids : ArKnown(s) => Settled(s) BY DEF ArListInv
<1>2. UNCHANGED Arthas!Listed BY DEF Arthas!Listed
<1>3. \A s \in Arthas!Ids : ArKnown(s)' => ArKnown(s) BY <1>2 DEF ArKnown
<1>4. \A s \in Arthas!Ids : ArKnown(s)' => Settled(s)' BY <1>1, <1>3 DEF Advances
<1>5. \A s \in Arthas!Ids : ArKnown(s) /\ s \in aOpen' => s \in aOpen BY <1>1
<1>6. \A s \in Arthas!Ids : (s \in aDeleted \/ deletes'[s] = "done") => s \notin aOpen'
  BY <1>5 DEF ArKnown, ArListInv
<1>7. aSessions.flight # Nothing => aOpen' \intersect Arthas!Listed \subseteq aSessions.flight
  BY <1>5 DEF ArKnown, ArListInv
<1>8. selectedId \in aOpen' => selectedId \in aOpen BY <1>5 DEF ArKnown
<1>9. ArSelected' BY <1>2, <1>8 DEF ArSelected, ArListInv
<1>10. QED BY <1>2, <1>4, <1>6, <1>7, <1>9 DEF ArListInv

LEMMA ArthasStep ==
  ASSUME ArthasInv, Arthas!Next
  PROVE  ArthasInv'
<1>1. /\ ArServerType /\ ArStartType /\ ArListType /\ ArStartInv /\ ArListInv
      /\ \A s \in aOpen : aJob[s].state = "running"
  BY ArthasTypes DEF ArthasInv
<1>2. ASSUME ArServerType', ArStartType', ArListType', ArStartInv', ArListInv',
             \A s \in aOpen' : aJob'[s].state = "running"
      PROVE  ArthasInv'
  <2>1. Arthas!TypeOK'
    BY <1>2 DEF Arthas!TypeOK, ArServerType, ArStartType, ArListType, ArIdLists, ArQueries, ArJobs,
                Creates, StatusQueries
  <2>2. QED BY <1>2, <2>1 DEF ArthasInv
<1>3. /\ aJob \in [Arthas!Ids -> ArJobs] /\ aOpen \in SUBSET Arthas!Ids
      /\ \A j \in Arthas!Ids : aJob[j] \in ArJobs
  BY <1>1 DEF ArServerType
<1>4. UNCHANGED aJob => \A j \in Arthas!Ids : Advances(j) BY DEF Advances, Begun, Settled
<1> USE DEF Arthas!server, Arthas!list, Arthas!starting, Arthas!chosen, Arthas!deleting
(* The plugin.                                                             *)
<1>5. CASE Arthas!CreateHandled
  <2>1. PICK j \in Arthas!Ids :
          /\ CASE Arthas!SessionOf(create.target) # {} -> j \in Arthas!SessionOf(create.target)
               [] /\ Arthas!SessionOf(create.target) = {}
                  /\ Arthas!Pending(create.target) # {} -> j \in Arthas!Pending(create.target)
               [] OTHER -> aJob[j] = Arthas!Unused /\ \A i \in 1 .. j - 1 : aJob[i] # Arthas!Unused
          /\ aJob' = IF aJob[j] = Arthas!Unused
                       THEN [aJob EXCEPT ![j] = [target |-> create.target, state |-> "pending"]]
                       ELSE aJob
          /\ create' = [create EXCEPT !.job = j, !.seen = aJob'[j].state]
    BY <1>5 DEF Arthas!CreateHandled
  <2>2. /\ create # Nothing /\ create.job = 0
        /\ UNCHANGED <<aOpen, aSessions, aStale, createStatus, createJobId, mine, selectedId, blind,
                       deletes, aDeleted, aErrors>>
    BY <1>5 DEF Arthas!CreateHandled
  <2>3. create \in Creates /\ create.target \in Targets BY <1>1, <2>2 DEF ArStartType, Creates
  <2>4. aJob[j] = Arthas!Unused \/ aJob[j].state \in {"pending", "running"}
    BY <1>1, <2>1 DEF Arthas!SessionOf, Arthas!Pending
  <2>5. /\ aJob' \in [Arthas!Ids -> ArJobs]
        /\ \A i \in Arthas!Ids : i # j => aJob'[i] = aJob[i]
        /\ aJob'[j].state \in {"pending", "running"}
        /\ aJob[j] = Arthas!Unused \/ aJob'[j] = aJob[j]
    <3>1. CASE aJob[j] = Arthas!Unused
      <4>1. [target |-> create.target, state |-> "pending"] \in ArJobs
        BY <2>3 DEF ArJobs, Arthas!States
      <4>2. QED BY <1>3, <2>1, <3>1, <4>1
    <3>2. CASE aJob[j] # Arthas!Unused BY <1>3, <2>1, <2>4, <3>2
    <3>3. QED BY <3>1, <3>2
  <2>6. \A i \in Arthas!Ids : Advances(i)
    BY <2>5 DEF Advances, Begun, Settled, Arthas!Unused
  <2>7. /\ create' \in Creates /\ create'.job = j /\ create'.seen = aJob'[j].state
    BY <2>1, <2>3, <2>5 DEF Creates, Arthas!States
  <2>8. ArStartInv'
    <3>1. createJobId = 0 BY <1>1, <2>2 DEF ArStartInv
    <3>2. Begun(j)' /\ (aJob'[j].state # "pending" => Settled(j)') BY <2>5 DEF Begun, Settled
    <3>3. mine \in Arthas!Ids \union {0} BY <1>1 DEF ArStartType
    <3>4. mine # 0 => Begun(mine)' /\ (aJob'[mine].state = "pending" => createJobId = mine)
      BY <1>1, <2>2, <2>6, <3>3 DEF Advances, ArStartInv
    <3>5. QED BY <2>2, <2>7, <3>1, <3>2, <3>4 DEF ArStartInv, Begun, Settled
  <2>9. ArListInv' BY <1>1, <1>3, <2>2, <2>6, ListOutlivesAdvance
  <2>10. ArServerType' /\ ArListType' /\ ArStartType'
    BY <1>1, <2>2, <2>5, <2>7 DEF ArServerType, ArListType, ArStartType
  <2>11. \A s \in aOpen : aJob'[s].state = "running" BY <1>1, <1>3, <2>5 DEF Arthas!Unused
  <2>12. QED BY <1>2, <2>2, <2>8, <2>9, <2>10, <2>11
<1>6. ASSUME NEW j \in Arthas!Ids, Arthas!JobSettles(j) PROVE ArthasInv'
  <2>1. PICK s \in {"running", "failed"} :
          /\ aJob' = [aJob EXCEPT ![j].state = s]
          /\ aOpen' = IF s = "running" THEN aOpen \union {j} ELSE aOpen
    BY <1>6 DEF Arthas!JobSettles
  <2>2. /\ aJob[j].state = "pending"
        /\ UNCHANGED <<aSessions, aStale, create, createStatus, createJobId, mine, selectedId, blind,
                       deletes, aDeleted, aErrors>>
    BY <1>6 DEF Arthas!JobSettles
  <2>3. /\ aJob' \in [Arthas!Ids -> ArJobs] /\ aJob'[j].state = s
        /\ \A i \in Arthas!Ids : i # j => aJob'[i] = aJob[i]
    BY <1>3, <2>1 DEF ArJobs, Arthas!States
  <2>4. \A i \in Arthas!Ids : Advances(i) BY <2>2, <2>3 DEF Advances, Begun, Settled
  <2>5. aOpen' \in SUBSET Arthas!Ids /\ \A i \in aOpen' : i \in aOpen \/ ~Settled(i)
    BY <1>3, <2>1, <2>2 DEF Settled
  <2>6. ArStartInv' BY <1>1, <2>2, <2>4, StartOutlivesAdvance
  <2>7. ArListInv' BY <1>1, <2>2, <2>4, <2>5, ListOutlivesAdvance
  <2>8. ArServerType' /\ ArListType' /\ ArStartType'
    BY <1>1, <2>2, <2>3, <2>5 DEF ArServerType, ArListType, ArStartType
  <2>9. \A i \in aOpen' : aJob'[i].state = "running" BY <1>1, <1>3, <2>1, <2>2, <2>3
  <2>10. QED BY <1>2, <2>6, <2>7, <2>8, <2>9
<1>7. CASE Arthas!Restart
  <2>1. /\ aErrors < MaxErrors /\ aErrors' = aErrors + 1 /\ aOpen' = {}
        /\ aJob' = [j \in Arthas!Ids |-> IF aJob[j] = Arthas!Unused THEN Arthas!Unused
                                          ELSE [aJob[j] EXCEPT !.state = "lost"]]
        /\ UNCHANGED <<aSessions, aStale, create, createStatus, createJobId, mine, selectedId, blind,
                       deletes, aDeleted>>
    BY <1>7 DEF Arthas!Restart
  <2>2. \A j \in Arthas!Ids : /\ aJob'[j] \in ArJobs
                              /\ \/ aJob[j] = Arthas!Unused /\ aJob'[j] = aJob[j]
                                 \/ aJob'[j].state = "lost"
    BY <1>3, <2>1 DEF ArJobs, Arthas!States, Arthas!Unused
  <2>3. aJob' \in [Arthas!Ids -> ArJobs] BY <2>1, <2>2
  <2>4. \A i \in Arthas!Ids : Advances(i) BY <2>2 DEF Advances, Begun, Settled, Arthas!Unused
  <2>5. ArStartInv' BY <1>1, <2>1, <2>4, StartOutlivesAdvance
  <2>6. ArListInv' BY <1>1, <2>1, <2>4, ListOutlivesAdvance
  <2>7. aErrors' \in 0 .. MaxErrors BY <1>1, <2>1, ArthasConstants DEF ArServerType
  <2>8. ArServerType' /\ ArListType' /\ ArStartType'
    BY <1>1, <2>1, <2>3, <2>7 DEF ArServerType, ArListType, ArStartType
  <2>9. QED BY <1>2, <2>1, <2>5, <2>6, <2>8
<1>8. ASSUME NEW s \in Arthas!Ids, Arthas!SessionDeleted(s) PROVE ArthasInv'
  <2>1. /\ deletes[s] = "asked" /\ aOpen' = aOpen \ {s}
        /\ deletes' = [deletes EXCEPT ![s] = "done"]
        /\ UNCHANGED <<aJob, aSessions, aStale, create, createStatus, createJobId, mine, selectedId,
                       blind, aDeleted, aErrors>>
    BY <1>8 DEF Arthas!SessionDeleted
  <2>2. /\ deletes' \in [Arthas!Ids -> {"none", "asked", "done"}]
        /\ \A i \in Arthas!Ids : /\ deletes'[i] # "none" => deletes[i] # "none"
                                 /\ deletes'[i] = "done" => deletes[i] = "done" \/ i \notin aOpen'
    BY <1>1, <2>1 DEF ArListType
  <2>3. aOpen' \in SUBSET Arthas!Ids /\ aOpen' \subseteq aOpen BY <1>3, <2>1
  <2>4. ArListInv' BY <1>1, <1>4, <2>1, <2>2, <2>3, ListOutlivesAdvance
  <2>5. ArStartInv' BY <1>1, <1>4, <2>1, StartOutlivesAdvance
  <2>6. ArServerType' /\ ArListType' /\ ArStartType'
    BY <1>1, <2>1, <2>2, <2>3 DEF ArServerType, ArListType, ArStartType
  <2>7. QED BY <1>1, <1>2, <2>1, <2>3, <2>4, <2>5, <2>6
(* The page: the plugin is left alone.  Either the start or the list is.   *)
<1>9. ASSUME UNCHANGED <<aJob, aOpen>>, aErrors' \in 0 .. MaxErrors,
             ArStartType', ArListType', ArStartInv', ArListInv'
      PROVE  ArthasInv'
  <2>1. ArServerType' BY <1>1, <1>9 DEF ArServerType
  <2>2. QED BY <1>1, <1>2, <1>9, <2>1
<1>10. ASSUME UNCHANGED <<aJob, create, createStatus, createJobId, mine>>
       PROVE  ArStartType' /\ ArStartInv'
  <2>1. ArStartInv' BY <1>1, <1>4, <1>10, StartOutlivesAdvance
  <2>2. QED BY <1>1, <1>10, <2>1 DEF ArStartType
<1>11. ASSUME UNCHANGED <<aJob, aOpen, aSessions, aStale, selectedId, blind, deletes, aDeleted>>
       PROVE  ArListType' /\ ArListInv'
  <2>1. ArListInv' BY <1>1, <1>3, <1>4, <1>11, ListOutlivesAdvance
  <2>2. QED BY <1>1, <1>11, <2>1 DEF ArListType
<1>12. aErrors \in 0 .. MaxErrors /\ (aErrors < MaxErrors => aErrors + 1 \in 0 .. MaxErrors)
  BY <1>1, ArthasConstants DEF ArServerType
<1>13. ASSUME NEW t \in Targets, Arthas!Start(t) PROVE ArthasInv'
  <2>1. /\ create = Nothing /\ createJobId = 0 /\ create' = [target |-> t, job |-> 0, seen |-> "none"]
        /\ UNCHANGED <<aJob, aOpen, aSessions, aStale, createStatus, createJobId, mine, selectedId,
                       blind, deletes, aDeleted, aErrors>>
    BY <1>13 DEF Arthas!Start
  <2>2. create' \in Creates /\ create'.job = 0 BY <2>1 DEF Creates, Arthas!States
  <2>3. ArStartType' BY <1>1, <2>1, <2>2 DEF ArStartType
  <2>4. ArStartInv' BY <1>1, <2>1, <2>2 DEF ArStartInv, Begun, Settled
  <2>5. QED BY <1>9, <1>11, <1>12, <2>1, <2>3, <2>4
<1>14. CASE Arthas!CreateFails
  <2>1. /\ create' = Nothing /\ aErrors < MaxErrors /\ aErrors' = aErrors + 1
        /\ UNCHANGED <<aJob, aOpen, aSessions, aStale, createStatus, createJobId, mine, selectedId,
                       blind, deletes, aDeleted>>
    BY <1>14 DEF Arthas!CreateFails
  <2>2. ArStartType' BY <1>1, <2>1 DEF ArStartType
  <2>3. ArStartInv' BY <1>1, <2>1 DEF ArStartInv, Begun, Settled
  <2>4. QED BY <1>9, <1>11, <1>12, <2>1, <2>2, <2>3
(* What is asked for again, or for the first time, has all sessions.       *)
<1>15. ASSUME aSessions' = Arthas!Refetch(aSessions, aOpen) \/ aSessions' = Arthas!Fetch(aSessions, aOpen)
       PROVE  /\ aSessions' \in ArQueries /\ Arthas!Listed' = Arthas!Listed
              /\ aSessions'.data = aSessions.data /\ aSessions'.flight # Nothing
              /\ aSessions' = aSessions \/ aSessions'.flight = aOpen
  <2>1. aOpen \in ArIdLists /\ aOpen # Nothing BY <1>3, ArthasConstants DEF ArIdLists
  <2>2. aSessions \in ArQueries BY <1>1 DEF ArListType
  <2>3. \/ aSessions' = aSessions /\ aSessions.flight # Nothing
        \/ aSessions' = [aSessions EXCEPT !.flight = aOpen]
    BY <1>15 DEF Arthas!Refetch, Arthas!Fetch, Arthas!Fetching
  <2>4. /\ aSessions' \in ArQueries /\ aSessions'.data = aSessions.data /\ aSessions'.flight # Nothing
        /\ aSessions' = aSessions \/ aSessions'.flight = aOpen
    BY <2>1, <2>2, <2>3 DEF ArQueries
  <2>5. QED BY <2>4 DEF Arthas!Listed
<1>16. aSessions.data # Nothing /\ aSessions' = Arthas!Refetch(aSessions, aOpen) => aSessions'.flight = aOpen
  BY <1>1 DEF ArListType, ArQueries, Arthas!Refetch
(* A session that has been created is selected.                            *)
<1>17. ASSUME NEW s \in Arthas!Ids, Arthas!SessionStarted(s), Settled(s),
              UNCHANGED <<aJob, aOpen, aStale, deletes, aDeleted>>
       PROVE  ArListType' /\ ArListInv'
  <2>1. /\ selectedId' = s /\ blind' = (aSessions.data = Nothing)
        /\ aSessions' = Arthas!Refetch(aSessions, aOpen)
    BY <1>17 DEF Arthas!SessionStarted
  <2>2. ArListType' BY <1>1, <1>15, <1>17, <2>1 DEF ArListType
  <2>3. \A i \in Arthas!Ids : ArKnown(i)' => ArKnown(i) \/ i \in aOpen \/ i = s
    BY <1>15, <1>17, <2>1 DEF ArKnown
  <2>4. \A i \in Arthas!Ids : ArKnown(i)' => Settled(i)'
    BY <1>1, <1>17, <2>3 DEF ArListInv, Settled
  <2>5. ArSelected' BY <1>15, <1>16, <1>17, <2>1 DEF ArSelected
  <2>6. /\ aSessions'.flight \intersect aDeleted = {}
        /\ aOpen \intersect Arthas!Listed \subseteq aSessions'.flight
    <3>1. aOpen \intersect aDeleted = {} BY <1>1, <1>3 DEF ArListInv
    <3>2. QED BY <1>1, <1>15, <2>1, <3>1 DEF ArListInv
  <2>7. QED BY <1>1, <1>15, <1>17, <2>1, <2>2, <2>4, <2>5, <2>6 DEF ArListInv
<1>18. CASE Arthas!CreateAnswered
  <2>1. /\ create # Nothing /\ create.job # 0 /\ create' = Nothing /\ mine' = create.job
        /\ UNCHANGED <<aJob, aOpen, aStale, deletes, aDeleted, aErrors>>
        /\ \/ /\ create.seen = "running" /\ Arthas!SessionStarted(create.job)
              /\ UNCHANGED <<createJobId, createStatus>>
           \/ /\ create.seen = "pending" /\ createJobId' = create.job
              /\ createStatus' = Arthas!Fetch(Arthas!NewQuery, aJob[create.job].state)
              /\ UNCHANGED <<aSessions, selectedId, blind>>
    BY <1>18 DEF Arthas!CreateAnswered
  <2>2. PICK j \in Arthas!Ids : j = create.job BY <1>1, <2>1 DEF ArStartType, Creates
  <2>3. Begun(j) /\ (create.seen # "pending" => Settled(j)) /\ createJobId = 0
    BY <1>1, <2>1, <2>2 DEF ArStartInv
  <2>4. CASE create.seen = "running"
    <3>1. Arthas!SessionStarted(j) /\ UNCHANGED <<createJobId, createStatus>> /\ Settled(j)
      BY <2>1, <2>2, <2>3, <2>4
    <3>2. ArListType' /\ ArListInv' BY <1>17, <2>1, <3>1
    <3>3. ArStartType' BY <1>1, <2>1, <2>2, <3>1 DEF ArStartType
    <3>4. ArStartInv' BY <2>1, <2>2, <2>3, <3>1 DEF ArStartInv, Begun, Settled
    <3>5. QED BY <1>9, <1>12, <2>1, <3>2, <3>3, <3>4
  <2>5. CASE create.seen = "pending"
    <3>1. /\ createJobId' = j /\ createStatus' = Arthas!Fetch(Arthas!NewQuery, aJob[j].state)
          /\ UNCHANGED <<aSessions, selectedId, blind>>
      BY <2>1, <2>2, <2>5
    <3>2. createStatus' = [data |-> Nothing, flight |-> aJob[j].state]
      BY <3>1 DEF Arthas!Fetch, Arthas!NewQuery, Arthas!Fetching
    <3>3. aJob[j].state \in Arthas!States BY <1>3 DEF ArJobs
    <3>4. createStatus' \in StatusQueries /\ createStatus'.flight = aJob[j].state
      BY <3>2, <3>3 DEF StatusQueries
    <3>5. ArStartType' BY <2>1, <2>2, <3>1, <3>4 DEF ArStartType
    <3>6. ArStartInv' BY <2>1, <2>2, <2>3, <3>1, <3>4 DEF ArStartInv, Begun, Settled
    <3>7. QED BY <1>9, <1>11, <1>12, <2>1, <3>1, <3>5, <3>6
  <2>6. QED BY <2>1, <2>4, <2>5
<1>19. CASE Arthas!PollStatus
  <2>1. /\ createJobId # 0 /\ createStatus' = Arthas!Fetch(createStatus, aJob[createJobId].state)
        /\ UNCHANGED <<aJob, aOpen, aSessions, aStale, create, createJobId, mine, selectedId, blind,
                       deletes, aDeleted, aErrors>>
    BY <1>19 DEF Arthas!PollStatus
  <2>2. createJobId \in Arthas!Ids /\ createJobId = mine /\ Begun(createJobId)
    BY <1>1, <2>1 DEF ArStartType, ArStartInv
  <2>3. aJob[createJobId].state \in Arthas!States BY <1>3, <2>2 DEF ArJobs
  <2>4. createStatus' = createStatus \/ createStatus' = [createStatus EXCEPT !.flight = aJob[createJobId].state]
    BY <2>1 DEF Arthas!Fetch
  <2>5. createStatus' \in StatusQueries /\ createStatus'.flight \in {createStatus.flight, aJob[createJobId].state}
    BY <1>1, <2>3, <2>4 DEF ArStartType, StatusQueries
  <2>6. ArStartType' BY <1>1, <2>1, <2>5 DEF ArStartType
  <2>7. ArStartInv' BY <1>1, <2>1, <2>2, <2>5 DEF ArStartInv, Begun, Settled
  <2>8. QED BY <1>9, <1>11, <1>12, <2>1, <2>6, <2>7
<1>20. CASE Arthas!StatusArrives
  <2>1. /\ createJobId # 0 /\ createStatus.flight # Nothing
        /\ UNCHANGED <<aJob, aOpen, aStale, create, mine, deletes, aDeleted, aErrors>>
        /\ IF createStatus.flight = "pending"
             THEN createStatus' = Arthas!Answered(createStatus) /\ createJobId' = createJobId
             ELSE createStatus' = Arthas!NewQuery /\ createJobId' = 0
        /\ IF createStatus.flight = "running"
             THEN Arthas!SessionStarted(createJobId)
             ELSE UNCHANGED <<aSessions, selectedId, blind>>
    BY <1>20 DEF Arthas!StatusArrives, Arthas!Fetching
  <2>2. createJobId \in Arthas!Ids /\ createJobId = mine /\ create = Nothing
    BY <1>1, <2>1 DEF ArStartType, ArStartInv
  <2>3. createStatus.flight # "pending" => Settled(createJobId) BY <1>1, <2>1 DEF ArStartInv
  <2>4. ArListType' /\ ArListInv'
    <3>1. CASE createStatus.flight = "running" BY <1>17, <2>1, <2>2, <2>3, <3>1
    <3>2. CASE createStatus.flight # "running" BY <1>11, <2>1, <3>2
    <3>3. QED BY <3>1, <3>2
  <2>5. ArStartType' /\ ArStartInv'
    <3>1. CASE createStatus.flight = "pending"
      <4>1. createStatus' = [data |-> "pending", flight |-> Nothing] /\ createJobId' = createJobId
        BY <2>1, <3>1 DEF Arthas!Answered
      <4>2. createStatus' \in StatusQueries /\ createStatus'.flight = Nothing BY <4>1 DEF StatusQueries
      <4>3. QED BY <1>1, <2>1, <4>1, <4>2 DEF ArStartType, ArStartInv, Begun, Settled
    <3>2. CASE createStatus.flight # "pending"
      <4>1. createStatus' = [data |-> Nothing, flight |-> Nothing] /\ createJobId' = 0
        BY <2>1, <3>2 DEF Arthas!NewQuery
      <4>2. createStatus' \in StatusQueries BY <4>1 DEF StatusQueries
      <4>3. QED BY <1>1, <2>1, <2>2, <2>3, <3>2, <4>1, <4>2 DEF ArStartType, ArStartInv, Begun, Settled
    <3>3. QED BY <3>1, <3>2
  <2>6. QED BY <1>9, <1>12, <2>1, <2>4, <2>5
<1>21. CASE Arthas!StatusFails
  <2>1. /\ createStatus' = Arthas!Failed(createStatus)
        /\ aErrors' = aErrors \/ (aErrors < MaxErrors /\ aErrors' = aErrors + 1)
        /\ UNCHANGED <<aJob, aOpen, aSessions, aStale, create, createJobId, mine, selectedId, blind,
                       deletes, aDeleted>>
    BY <1>21 DEF Arthas!StatusFails
  <2>2. createStatus' \in StatusQueries /\ createStatus'.flight = Nothing
    BY <1>1, <2>1 DEF ArStartType, StatusQueries, Arthas!Failed
  <2>3. ArStartType' BY <1>1, <2>1, <2>2 DEF ArStartType
  <2>4. ArStartInv' BY <1>1, <2>1, <2>2 DEF ArStartInv, Begun, Settled
  <2>5. QED BY <1>9, <1>11, <1>12, <2>1, <2>3, <2>4
<1>22. ASSUME NEW s \in Arthas!Ids, Arthas!SelectSession(s) PROVE ArthasInv'
  <2>1. /\ s \in Arthas!Listed /\ selectedId' = s /\ blind' = FALSE
        /\ UNCHANGED <<aJob, aOpen, aSessions, aStale, create, createStatus, createJobId, mine,
                       deletes, aDeleted, aErrors>>
    BY <1>22 DEF Arthas!SelectSession
  <2>2. ArListType' BY <1>1, <2>1 DEF ArListType
  <2>3. UNCHANGED Arthas!Listed BY <2>1 DEF Arthas!Listed
  <2>4. \A i \in Arthas!Ids : ArKnown(i)' => ArKnown(i) BY <2>1, <2>3 DEF ArKnown
  <2>5. \A i \in Arthas!Ids : ArKnown(i)' => Settled(i)'
    BY <1>1, <2>1, <2>4 DEF ArListInv, Settled
  <2>6. ArSelected' BY <1>1, <2>1, <2>3 DEF ArSelected, ArListInv
  <2>7. ArListInv' BY <1>1, <2>1, <2>3, <2>5, <2>6 DEF ArListInv
  <2>8. QED BY <1>9, <1>10, <1>12, <2>1, <2>2, <2>7
<1>23. ASSUME NEW s \in Arthas!Ids, Arthas!Delete(s) \/ Arthas!DeleteFails(s) PROVE ArthasInv'
  <2>1. /\ \/ s \in Arthas!Listed /\ deletes' = [deletes EXCEPT ![s] = "asked"]
           \/ deletes' = [deletes EXCEPT ![s] = "none"]
        /\ aErrors' = aErrors \/ (aErrors < MaxErrors /\ aErrors' = aErrors + 1)
        /\ UNCHANGED <<aJob, aOpen, aSessions, aStale, create, createStatus, createJobId, mine,
                       selectedId, blind, aDeleted>>
    BY <1>23 DEF Arthas!Delete, Arthas!DeleteFails
  <2>2. ArListType' BY <1>1, <2>1 DEF ArListType
  <2>3. \A i \in Arthas!Ids : /\ deletes'[i] # "none" => deletes[i] # "none" \/ i \in Arthas!Listed
                              /\ deletes'[i] = "done" => deletes[i] = "done"
    BY <1>1, <2>1 DEF ArListType
  <2>4. UNCHANGED Arthas!Listed BY <2>1 DEF Arthas!Listed
  <2>5. \A i \in Arthas!Ids : ArKnown(i)' => ArKnown(i) BY <2>1, <2>3, <2>4 DEF ArKnown
  <2>6. \A i \in Arthas!Ids : ArKnown(i)' => Settled(i)'
    BY <1>1, <2>1, <2>5 DEF ArListInv, Settled
  <2>7. \A i \in Arthas!Ids : i \in Arthas!Listed => aSessions.data # Nothing BY DEF Arthas!Listed
  <2>8. ArSelected' BY <1>1, <2>1, <2>4 DEF ArSelected, ArListInv
  <2>9. ArListInv' BY <1>1, <2>1, <2>3, <2>4, <2>6, <2>7, <2>8 DEF ArListInv
  <2>10. QED BY <1>9, <1>10, <1>12, <2>1, <2>2, <2>9
<1>24. ASSUME NEW s \in Arthas!Ids, Arthas!Deleted(s) PROVE ArthasInv'
  <2>1. /\ deletes[s] = "done" /\ deletes' = [deletes EXCEPT ![s] = "none"]
        /\ aDeleted' = aDeleted \union {s} /\ selectedId' \in {0, selectedId}
        /\ aSessions' = Arthas!Refetch(aSessions, aOpen)
        /\ UNCHANGED <<aJob, aOpen, aStale, create, createStatus, createJobId, mine, blind, aErrors>>
    BY <1>24 DEF Arthas!Deleted
  <2>2. /\ aSessions.data # Nothing /\ s \notin aOpen /\ Settled(s)
    BY <1>1, <2>1 DEF ArListInv, ArKnown
  <2>3. /\ aSessions' \in ArQueries /\ Arthas!Listed' = Arthas!Listed
        /\ aSessions'.data = aSessions.data /\ aSessions'.flight = aOpen /\ aOpen # Nothing
    BY <1>15, <1>16, <2>1, <2>2
  <2>4. /\ deletes' \in [Arthas!Ids -> {"none", "asked", "done"}]
        /\ \A i \in Arthas!Ids : deletes'[i] # "none" => deletes'[i] = deletes[i]
    BY <1>1, <2>1 DEF ArListType
  <2>5. ArListType' BY <1>1, <2>1, <2>3, <2>4 DEF ArListType
  <2>6. \A i \in Arthas!Ids : ArKnown(i)' => ArKnown(i) \/ i = s \/ i \in aOpen
    BY <2>1, <2>3, <2>4, ArthasConstants DEF ArKnown
  <2>7. \A i \in Arthas!Ids : ArKnown(i)' => Settled(i)'
    BY <1>1, <2>1, <2>2, <2>6 DEF ArListInv, Settled
  <2>8. ArSelected' BY <1>3, <2>1, <2>3, ArthasConstants DEF ArSelected
  <2>9. aOpen \intersect aDeleted' = {} BY <1>1, <1>3, <2>1, <2>2 DEF ArListInv
  <2>10. \A i \in Arthas!Ids : (i \in aDeleted' \/ deletes'[i] = "done") => i \notin aOpen
    BY <1>1, <2>1, <2>2, <2>4 DEF ArListInv
  <2>11. \A i \in Arthas!Ids : deletes'[i] # "none" => aSessions'.data # Nothing BY <2>2, <2>3
  <2>12. ArListInv' BY <2>1, <2>3, <2>7, <2>8, <2>9, <2>10, <2>11 DEF ArListInv
  <2>13. QED BY <1>9, <1>10, <1>12, <2>1, <2>5, <2>12
<1>25. CASE Arthas!Poll
  <2>1. /\ aSessions' = Arthas!Fetch(aSessions, aOpen)
        /\ UNCHANGED <<aJob, aOpen, aStale, create, createStatus, createJobId, mine, selectedId, blind,
                       deletes, aDeleted, aErrors>>
    BY <1>25 DEF Arthas!Poll
  <2>2. ArListType' BY <1>1, <1>15, <2>1 DEF ArListType
  <2>3. \A i \in Arthas!Ids : ArKnown(i)' => ArKnown(i) \/ i \in aOpen BY <1>15, <2>1 DEF ArKnown
  <2>4. \A i \in Arthas!Ids : ArKnown(i)' => Settled(i)'
    BY <1>1, <2>1, <2>3 DEF ArListInv, Settled
  <2>5. ArSelected' BY <1>1, <1>15, <2>1 DEF ArSelected, ArListInv
  <2>6. /\ aSessions'.flight \intersect aDeleted = {}
        /\ aOpen \intersect Arthas!Listed \subseteq aSessions'.flight
    <3>1. aOpen \intersect aDeleted = {} BY <1>1, <1>3 DEF ArListInv
    <3>2. QED BY <1>1, <1>15, <2>1, <3>1 DEF ArListInv
  <2>7. ArListInv' BY <1>1, <1>15, <2>1, <2>4, <2>5, <2>6 DEF ArListInv
  <2>8. QED BY <1>9, <1>10, <1>12, <2>1, <2>2, <2>7
<1>26. CASE Arthas!ListArrives
  <2>1. /\ aSessions.flight # Nothing /\ aStale' = FALSE
        /\ aSessions' = [data |-> aSessions.flight, flight |-> Nothing]
        /\ UNCHANGED <<aJob, aOpen, create, createStatus, createJobId, mine, selectedId, blind,
                       deletes, aDeleted, aErrors>>
    BY <1>26 DEF Arthas!ListArrives, Arthas!Fetching, Arthas!Answered
  <2>2. /\ aSessions' \in ArQueries /\ aSessions'.data = aSessions.flight /\ aSessions'.flight = Nothing
        /\ Arthas!Listed' = aSessions.flight
    BY <1>1, <2>1 DEF ArListType, ArQueries, ArIdLists, Arthas!Listed
  <2>3. ArListType' BY <1>1, <2>1, <2>2 DEF ArListType
  <2>4. \A i \in Arthas!Ids : ArKnown(i)' => ArKnown(i) BY <2>1, <2>2 DEF ArKnown
  <2>5. \A i \in Arthas!Ids : ArKnown(i)' => Settled(i)'
    BY <1>1, <2>1, <2>4 DEF ArListInv, Settled
  <2>6. ArSelected' BY <1>1, <2>1, <2>2 DEF ArSelected, ArListInv
  <2>7. ArListInv' BY <1>1, <2>1, <2>2, <2>5, <2>6 DEF ArListInv
  <2>8. QED BY <1>9, <1>10, <1>12, <2>1, <2>3, <2>7
<1>27. CASE Arthas!ListFails
  <2>1. /\ aErrors < MaxErrors /\ aErrors' = aErrors + 1 /\ aStale' = TRUE
        /\ aSessions' = [aSessions EXCEPT !.flight = Nothing]
        /\ UNCHANGED <<aJob, aOpen, create, createStatus, createJobId, mine, selectedId, blind,
                       deletes, aDeleted>>
    BY <1>27 DEF Arthas!ListFails, Arthas!Failed
  <2>2. /\ aSessions' \in ArQueries /\ aSessions'.data = aSessions.data /\ aSessions'.flight = Nothing
        /\ Arthas!Listed' = Arthas!Listed
    BY <1>1, <2>1 DEF ArListType, ArQueries, ArIdLists, Arthas!Listed
  <2>3. ArListType' BY <1>1, <2>1, <2>2 DEF ArListType
  <2>4. \A i \in Arthas!Ids : ArKnown(i)' => ArKnown(i) BY <2>1, <2>2 DEF ArKnown
  <2>5. \A i \in Arthas!Ids : ArKnown(i)' => Settled(i)'
    BY <1>1, <2>1, <2>4 DEF ArListInv, Settled
  <2>6. ArSelected' BY <2>1, <2>2 DEF ArSelected
  <2>7. ArListInv' BY <1>1, <2>1, <2>2, <2>5, <2>6 DEF ArListInv
  <2>8. QED BY <1>9, <1>10, <1>12, <2>1, <2>3, <2>7
<1>28. QED
  BY <1>5, <1>6, <1>7, <1>8, <1>13, <1>14, <1>18, <1>19, <1>20, <1>21, <1>22, <1>23, <1>24, <1>25,
     <1>26, <1>27
     DEF Arthas!Next

LEMMA ArthasFollows == ArthasInv => Arthas!StartIsFollowed /\ Arthas!DeletedStaysGone
BY DEF ArthasInv, ArStartInv, ArListInv, ArSelected, Arthas!StartIsFollowed,
       Arthas!DeletedStaysGone, Arthas!Fetching

-----------------------------------------------------------------------------
(* A non-empty set of numbers up to n has a greatest one.                  *)
LEMMA GreatestNumber ==
  ASSUME NEW n \in Nat, NEW S \in SUBSET (1 .. n), S # {}
  PROVE  \E m \in S : \A k \in S : k <= m
<1> DEFINE T == {n - k : k \in S}
<1>1. T \subseteq Nat /\ T # {}
  <2>1. \A k \in S : n - k \in Nat OBVIOUS
  <2>2. QED BY <2>1
<1>2. PICK least \in T : \A y \in T : ~ (<<y, least>> \in OpToRel(<, Nat))
  <2> HIDE DEF T
  <2>1. QED BY <1>1, WFMin, NatLessThanWellFounded
<1>a. \A x, y \in Nat : x < y => <<x, y>> \in OpToRel(<, Nat) BY DEF OpToRel
<1>3. \A y \in T : least <= y
  <2>1. \A y \in T : y \in Nat /\ least \in Nat BY <1>1
  <2> HIDE DEF T
  <2>2. \A y \in T : ~(y < least) BY <1>2, <1>a, <2>1
  <2>3. QED BY <2>1, <2>2
<1>4. PICK m \in S : least = n - m BY DEF T
<1>5. ASSUME NEW k \in S PROVE k <= m
  <2>1. n - k \in T OBVIOUS
  <2>2. least <= n - k BY <1>3, <2>1
  <2>3. k \in Nat /\ m \in Nat OBVIOUS
  <2>4. QED BY <1>4, <2>2, <2>3
<1>6. QED BY <1>5

(* The page of the inspektor-gadget plugin.  No list is ahead of the       *)
(* sessions, and unless a refresh has come in between the load that runs,  *)
(* or the events that are shown, are those of the selection that the       *)
(* effect has seen.                                                        *)
NotAhead(l) == \A s \in Gadget!Ids : l[s] = "completed" => session[s].over

GSession == {q \in [state : Gadget!States, over : BOOLEAN, n : 0 .. MaxEvents] :
               q.state = "completed" => q.over}
GSessions == [Gadget!Ids -> GSession]

GRefresh(r) ==
  \/ r.step = "list" /\ r.preferred \in Gadget!Ids \union {0} /\ r.list \in Gadget!Lists /\ NotAhead(r.list)
  \/ r.step = "events" /\ r.answer \in Gadget!Answers

Latest == IF load # Nothing THEN load ELSE events

GSeenInFull ==
  ~disturbed /\ gSeen.id # 0 =>
    /\ Latest \in Gadget!Answers /\ Latest.of = gSeen.id
    /\ gSeen.state = "completed" =>
         Latest = Gadget!EventsOf(gSeen.id) /\ session[gSeen.id].over

GadgetInv ==
  /\ Gadget!TypeOK
  /\ session \in GSessions
  /\ polls \in Seq(Gadget!Lists)
  /\ NotAhead(sessions)
  /\ \A i \in DOMAIN polls : NotAhead(polls[i])
  /\ \A r \in refreshes : GRefresh(r)
  /\ starting => \E s \in Gadget!Ids : session[s].state # "none"
  /\ GSeenInFull

GMaybe == Gadget!Answers \union {Nothing}
GSeen == [id : Gadget!Ids \union {0}, state : Gadget!States]

LEMMA GadgetConstants ==
  /\ MaxSessions \in Nat /\ MaxEvents \in Nat /\ MaxPolls \in Nat /\ MaxRefreshes \in Nat
  /\ PageLimit \in 0 .. MaxEvents
  /\ Nothing \notin Gadget!Answers /\ 0 \notin Gadget!Ids
BY PartsAssumption DEF Gadget!GadgetPageAssumption, Gadget!Answers, Gadget!Ids

LEMMA GadgetListed ==
  ASSUME session \in GSessions
  PROVE  /\ Gadget!Listed \in Gadget!Lists /\ NotAhead(Gadget!Listed)
         /\ \A s \in Gadget!Ids : /\ Gadget!EventsOf(s) \in Gadget!Answers
                                  /\ Gadget!EventsOf(s).of = s
<1>1. \A s \in Gadget!Ids : session[s].state \in Gadget!States /\ session[s].n \in 0 .. MaxEvents
  BY DEF GSessions, GSession
<1>2. Gadget!Listed \in Gadget!Lists /\ NotAhead(Gadget!Listed)
  <2>1. \A s \in Gadget!Ids : session[s].state = "completed" => session[s].over
    BY DEF GSessions, GSession
  <2>2. QED BY <1>1, <2>1 DEF Gadget!Listed, Gadget!Lists, NotAhead
<1>3. \A n \in 0 .. MaxEvents :
        (IF n > PageLimit THEN n - PageLimit + 1 ELSE 1) \in 1 .. MaxEvents + 1
  BY GadgetConstants
<1>4. QED BY <1>1, <1>2, <1>3 DEF Gadget!EventsOf, Gadget!Answers

LEMMA GadgetSelects ==
  ASSUME NEW l, NEW s \in Gadget!Ids \union {0}
  PROVE  Gadget!SelectIn(l, s) \in Gadget!Ids \union {0}
<1> DEFINE there == {t \in Gadget!Ids : l[t] # "none"}
<1>1. CASE s # 0 /\ l[s] # "none" BY <1>1 DEF Gadget!SelectIn
<1>2. CASE ~(s # 0 /\ l[s] # "none") /\ there = {} BY <1>2 DEF Gadget!SelectIn
<1>3. CASE ~(s # 0 /\ l[s] # "none") /\ there # {}
  <2>1. \E t \in there : \A u \in there : u <= t
    <3>1. there \in SUBSET (1 .. MaxSessions) BY DEF Gadget!Ids
    <3> HIDE DEF there
    <3>2. QED BY <1>3, <3>1, GadgetConstants, GreatestNumber
  <2>2. Gadget!SelectIn(l, s) = CHOOSE t \in there : \A u \in there : u <= t
    BY <1>3 DEF Gadget!SelectIn
  <2>3. (CHOOSE t \in there : \A u \in there : u <= t) \in there
    <3> HIDE DEF there
    <3>1. QED BY <2>1
  <2>4. QED BY <2>2, <2>3
<1>4. QED BY <1>1, <1>2, <1>3

LEMMA GadgetNewest ==
  ASSUME \E s \in Gadget!Ids : session[s].state # "none"
  PROVE  Gadget!Newest \in Gadget!Ids
<1> DEFINE there == {t \in Gadget!Ids : session[t].state # "none"}
<1>1. PICK m \in there : \A k \in there : k <= m
  <2>1. there \in SUBSET (1 .. MaxSessions) /\ there # {} BY DEF Gadget!Ids
  <2> HIDE DEF there
  <2>2. QED BY <2>1, GadgetConstants, GreatestNumber
<1>2. \A t \in Gadget!Ids : t > m => session[t].state = "none"
  <2>1. \A t \in Gadget!Ids : t \in Nat /\ m \in Nat BY <1>1 DEF Gadget!Ids
  <2>2. \A t \in Gadget!Ids : t > m => ~(t <= m) BY <2>1
  <2>3. QED BY <1>1, <2>2
<1>3. \E s \in Gadget!Ids : /\ session[s].state # "none"
                            /\ \A t \in Gadget!Ids : t > s => session[t].state = "none"
  BY <1>1, <1>2
<1>4. QED BY <1>3 DEF Gadget!Newest

LEMMA GadgetInit == Gadget!Init => GadgetInv
<1> SUFFICES ASSUME Gadget!Init PROVE GadgetInv
  OBVIOUS
<1>1. /\ session = [s \in Gadget!Ids |-> [state |-> IF s = 1 THEN "running" ELSE "none",
                                        over |-> FALSE, n |-> IF s = 1 THEN PageLimit ELSE 0]]
      /\ sessions = [s \in Gadget!Ids |-> "none"] /\ polls = <<>>
      /\ refreshes = {[step |-> "list", preferred |-> 0, list |-> Gadget!Listed]}
      /\ refreshed = 0 /\ starting = FALSE /\ selectedSession = 0
      /\ gSeen = [id |-> 0, state |-> "none"]
      /\ load = Nothing /\ events = Nothing /\ disturbed = FALSE
  BY DEF Gadget!Init
<1>2. session \in GSessions BY <1>1, GadgetConstants DEF GSessions, GSession, Gadget!States
<1>3. sessions \in Gadget!Lists /\ NotAhead(sessions)
  BY <1>1 DEF Gadget!Lists, Gadget!States, NotAhead
<1>4. polls \in Seq(Gadget!Lists) /\ Len(polls) = 0 /\ DOMAIN polls = {} BY <1>1
<1>5. \A r \in refreshes : GRefresh(r) BY <1>1, <1>2, GadgetListed DEF GRefresh
<1>6. gSeen \in GSeen /\ gSeen.id = 0 BY <1>1 DEF GSeen, Gadget!States
<1>7. Len(polls) <= MaxPolls /\ refreshed \in 0 .. MaxRefreshes BY <1>1, <1>4, GadgetConstants
<1>8. Gadget!TypeOK
  BY <1>1, <1>2, <1>3, <1>4, <1>5, <1>6, <1>7 DEF Gadget!TypeOK, GSessions, GSession, GRefresh, GSeen
<1>9. QED BY <1>1, <1>2, <1>3, <1>4, <1>5, <1>6, <1>8 DEF GadgetInv, GSeenInFull

LEMMA GadgetStep ==
  ASSUME GadgetInv, Gadget!Next
  PROVE  GadgetInv'
<1>1. /\ session \in GSessions /\ sessions \in Gadget!Lists
      /\ polls \in Seq(Gadget!Lists) /\ Len(polls) <= MaxPolls
      /\ refreshed \in 0 .. MaxRefreshes /\ starting \in BOOLEAN
      /\ selectedSession \in Gadget!Ids \union {0} /\ gSeen \in GSeen
      /\ load \in GMaybe /\ events \in GMaybe /\ disturbed \in BOOLEAN
  BY DEF GadgetInv, Gadget!TypeOK, GSeen, GMaybe
<1>2. /\ NotAhead(sessions) /\ \A i \in DOMAIN polls : NotAhead(polls[i])
      /\ \A r \in refreshes : GRefresh(r)
      /\ starting => \E s \in Gadget!Ids : session[s].state # "none"
      /\ GSeenInFull
  BY DEF GadgetInv
<1>3. ASSUME session' \in GSessions, sessions' \in Gadget!Lists,
             polls' \in Seq(Gadget!Lists), Len(polls') <= MaxPolls,
             refreshed' \in 0 .. MaxRefreshes, starting' \in BOOLEAN,
             selectedSession' \in Gadget!Ids \union {0}, gSeen' \in GSeen,
             load' \in GMaybe, events' \in GMaybe, disturbed' \in BOOLEAN,
             NotAhead(sessions)', \A i \in DOMAIN polls' : NotAhead(polls[i])',
             \A r \in refreshes' : GRefresh(r)',
             starting' => \E s \in Gadget!Ids : session'[s].state # "none",
             GSeenInFull'
      PROVE  GadgetInv'
  <2>1. \A i \in DOMAIN polls' : polls'[i] \in Gadget!Lists BY <1>3, ElementOfSeq, LenProperties
  <2>2. \A r \in refreshes' :
          \/ r.step = "list" /\ r.preferred \in Gadget!Ids \union {0} /\ r.list \in Gadget!Lists
          \/ r.step = "events" /\ r.answer \in Gadget!Answers
    BY <1>3 DEF GRefresh
  <2>3. Gadget!TypeOK' BY <1>3, <2>1, <2>2 DEF Gadget!TypeOK, GSessions, GSession, GSeen, GMaybe
  <2>4. QED BY <1>3, <2>3 DEF GadgetInv
<1> USE DEF Gadget!effect, Gadget!shown
(* The server advances: a session that is over gets no more events.        *)
<1> DEFINE StayOver == \A s \in Gadget!Ids :
             session[s].over => session'[s].over /\ session'[s].n = session[s].n
<1>4. ASSUME session' \in GSessions, StayOver
      PROVE  /\ \A l : NotAhead(l) => (\A s \in Gadget!Ids : l[s] = "completed" => session'[s].over)
             /\ UNCHANGED <<gSeen, load, events, disturbed>> => GSeenInFull'
  <2>1. \A l : NotAhead(l) => (\A s \in Gadget!Ids : l[s] = "completed" => session'[s].over)
    BY <1>4 DEF NotAhead
  <2>2. gSeen.id \in Gadget!Ids \union {0} BY <1>1 DEF GSeen
  <2>3. ASSUME UNCHANGED <<gSeen, load, events, disturbed>>, ~disturbed, gSeen.id # 0
        PROVE  /\ Latest \in Gadget!Answers /\ Latest.of = gSeen.id
               /\ gSeen.state = "completed" =>
                    Latest = Gadget!EventsOf(gSeen.id)' /\ session'[gSeen.id].over
    <3>1. gSeen.id \in Gadget!Ids BY <2>2, <2>3
    <3>2. gSeen.state = "completed" => session'[gSeen.id].n = session[gSeen.id].n
      BY <1>2, <1>4, <2>3, <3>1 DEF GSeenInFull
    <3>3. gSeen' = gSeen BY <2>3
    <3>4. gSeen.state = "completed" => Gadget!EventsOf(gSeen.id)' = Gadget!EventsOf(gSeen.id)
      BY <3>2, <3>3 DEF Gadget!EventsOf
    <3>5. QED BY <1>2, <1>4, <2>3, <3>1, <3>4 DEF GSeenInFull
  <2>4. UNCHANGED <<gSeen, load, events, disturbed>> => GSeenInFull'
    <3>1. SUFFICES ASSUME UNCHANGED <<gSeen, load, events, disturbed>>, ~disturbed, gSeen.id # 0
                   PROVE  /\ Latest' \in Gadget!Answers /\ Latest'.of = gSeen.id
                          /\ gSeen.state = "completed" =>
                               Latest' = Gadget!EventsOf(gSeen.id)' /\ session'[gSeen.id].over
      BY DEF GSeenInFull
    <3>2. Latest' = Latest BY <3>1 DEF Latest
    <3>3. QED BY <2>3, <3>1, <3>2
  <2>5. QED BY <2>1, <2>4
(* A step that leaves the lists and what is shown alone.                   *)
<1>5. ASSUME session' \in GSessions, StayOver,
             UNCHANGED <<sessions, polls, gSeen, load, events, disturbed>>,
             refreshed' \in 0 .. MaxRefreshes, starting' \in BOOLEAN,
             selectedSession' \in Gadget!Ids \union {0},
             starting' => \E s \in Gadget!Ids : session'[s].state # "none",
             NEW p \in Gadget!Ids \union {0},
             refreshes' \subseteq
               refreshes \union {[step |-> "list", preferred |-> p, list |-> Gadget!Listed]}
      PROVE  GadgetInv'
  <2>1. GSeenInFull' BY <1>4, <1>5
  <2>2. \A l : NotAhead(l) => (\A s \in Gadget!Ids : l[s] = "completed" => session'[s].over)
    BY <1>4, <1>5
  <2>3. NotAhead(sessions)' /\ \A i \in DOMAIN polls : NotAhead(polls[i])'
    BY <1>2, <1>5, <2>2 DEF NotAhead
  <2>4. \A r \in refreshes : GRefresh(r)' BY <1>2, <2>2 DEF GRefresh, NotAhead
  <2>5. \A r : r = [step |-> "list", preferred |-> p, list |-> Gadget!Listed] => GRefresh(r)'
    <3>1. PICK l \in Gadget!Lists : l = Gadget!Listed /\ NotAhead(l) BY <1>1, GadgetListed
    <3>2. \A s \in Gadget!Ids : l[s] = "completed" => session'[s].over
      BY <2>2, <3>1
    <3>3. [step |-> "list", preferred |-> p, list |-> Gadget!Listed]
            = [step |-> "list", preferred |-> p, list |-> l]
      BY <3>1
    <3>4. \A r : r = [step |-> "list", preferred |-> p, list |-> l] => GRefresh(r)'
      BY <1>5, <3>2 DEF GRefresh, NotAhead
    <3>5. QED BY <3>3, <3>4
  <2>6. \A r \in refreshes' : GRefresh(r)' BY <1>5, <2>4, <2>5
  <2>7. QED BY <1>1, <1>3, <1>5, <2>1, <2>3, <2>6
<1>6. ASSUME NEW s \in Gadget!Ids,
             Gadget!Trace(s) \/ Gadget!Complete(s) \/ Gadget!StartTrace(s) \/ Gadget!StopTrace(s)
      PROVE  GadgetInv'
  <2>1. /\ session' \in GSessions /\ StayOver
        /\ \A t \in Gadget!Ids : session[t].state # "none" => session'[t].state # "none"
    <3>1. session[s] \in GSession BY <1>1 DEF GSessions
    <3>2. PICK q \in GSession : /\ session' = [session EXCEPT ![s] = q]
                                /\ session[s].state # "none" => q.state # "none"
                                /\ session[s].over => q.over /\ q.n = session[s].n
      <4> DEFINE r1 == [session[s] EXCEPT !.n = @ + 1]
                 r2(st) == [session[s] EXCEPT !.state = st]
                 r3(st) == [session[s] EXCEPT !.state = st, !.over = TRUE]
      <4>1. CASE Gadget!Trace(s)
        <5>1. /\ session[s].state # "none" /\ ~session[s].over /\ session[s].n + s <= MaxEvents
              /\ session' = [session EXCEPT ![s] = r1]
          BY <1>1, <4>1 DEF Gadget!Trace, GSessions
        <5>2. s \in Nat \ {0} /\ session[s].n \in Nat BY <3>1, GadgetConstants DEF Gadget!Ids, GSession
        <5>3. session[s].n + 1 \in 0 .. MaxEvents BY <5>1, <5>2, GadgetConstants
        <5>4. r1 \in GSession /\ r1.state = session[s].state BY <3>1, <5>3 DEF GSession
        <5>5. QED BY <5>1, <5>4
      <4>2. CASE Gadget!Complete(s)
        <5>1. PICK st \in {"completed", "stopped"} :
                session' = [session EXCEPT ![s] = r3(st)] /\ ~session[s].over
          BY <1>1, <4>2 DEF Gadget!Complete, GSessions
        <5>2. r3(st) \in GSession /\ r3(st).state = st BY <3>1 DEF GSession, Gadget!States
        <5>3. QED BY <5>1, <5>2
      <4>3. CASE Gadget!StartTrace(s) \/ Gadget!StopTrace(s)
        <5>1. CASE UNCHANGED session
          <6>1. session' = [session EXCEPT ![s] = session[s]] BY <1>1, <5>1 DEF GSessions
          <6>2. QED BY <3>1, <6>1
        <5>2. CASE session' # session
          <6>1. PICK st \in {"running", "stopped"} : session' = [session EXCEPT ![s] = r2(st)]
            BY <1>1, <4>3, <5>2 DEF Gadget!StartTrace, Gadget!StopTrace, GSessions
          <6>2. /\ r2(st) \in GSession /\ r2(st).state = st
                /\ r2(st).over = session[s].over /\ r2(st).n = session[s].n
            BY <3>1 DEF GSession, Gadget!States
          <6>3. QED BY <6>1, <6>2
        <5>3. QED BY <5>1, <5>2
      <4>4. QED BY <1>6, <4>1, <4>2, <4>3
    <3>3. QED BY <1>1, <3>2 DEF GSessions
  <2>2. UNCHANGED <<sessions, polls, gSeen, load, events, disturbed, selectedSession>>
    BY <1>6 DEF Gadget!Trace, Gadget!Complete, Gadget!StartTrace, Gadget!StopTrace, Gadget!Refresh
  <2>3. /\ refreshed' \in 0 .. MaxRefreshes
        /\ refreshes' \subseteq refreshes \union
             {[step |-> "list", preferred |-> selectedSession, list |-> Gadget!Listed]}
    BY <1>1, <1>6, GadgetConstants
       DEF Gadget!Trace, Gadget!Complete, Gadget!StartTrace, Gadget!StopTrace, Gadget!Refresh
  <2>4. starting' \in BOOLEAN /\ (starting' => starting \/ session'[s].state # "none")
    <3>1. CASE Gadget!StartTrace(s)
      BY <1>1, <3>1 DEF Gadget!StartTrace, GSessions
    <3>2. CASE ~Gadget!StartTrace(s)
      BY <1>1, <1>6, <3>2 DEF Gadget!Trace, Gadget!Complete, Gadget!StopTrace
    <3>3. QED BY <3>1, <3>2
  <2>5. starting' => \E t \in Gadget!Ids : session'[t].state # "none" BY <1>2, <2>1, <2>4
  <2>6. QED BY <1>1, <1>5, <2>1, <2>2, <2>3, <2>4, <2>5
<1>7. CASE \/ \E s \in Gadget!Ids : Gadget!ClickSession(s)
           \/ Gadget!ClickRefresh \/ Gadget!TraceStarted \/ Gadget!StartFails
  <2>1. UNCHANGED <<session, sessions, polls, gSeen, load, events, disturbed>>
    BY <1>7 DEF Gadget!ClickSession, Gadget!ClickRefresh, Gadget!TraceStarted, Gadget!StartFails,
                Gadget!Refresh
  <2>2. PICK p \in Gadget!Ids \union {0} :
          /\ refreshes' \subseteq
               refreshes \union {[step |-> "list", preferred |-> p, list |-> Gadget!Listed]}
          /\ refreshed' \in 0 .. MaxRefreshes /\ selectedSession' \in Gadget!Ids \union {0}
          /\ starting' \in BOOLEAN /\ (starting' => starting)
    <3>1. CASE \E s \in Gadget!Ids : Gadget!ClickSession(s)
      BY <1>1, <3>1 DEF Gadget!ClickSession
    <3>2. CASE Gadget!ClickRefresh
      BY <1>1, <3>2, GadgetConstants DEF Gadget!ClickRefresh, Gadget!Refresh
    <3>3. CASE Gadget!TraceStarted
      <4>1. Gadget!Newest \in Gadget!Ids BY <1>2, <3>3, GadgetNewest DEF Gadget!TraceStarted
      <4>2. PICK n \in Gadget!Ids : n = Gadget!Newest BY <4>1
      <4>3. /\ refreshes' = refreshes \union
                 {[step |-> "list", preferred |-> n, list |-> Gadget!Listed]}
            /\ refreshed < MaxRefreshes /\ refreshed' = refreshed + 1
            /\ selectedSession' = n /\ starting' = FALSE
        BY <3>3, <4>2 DEF Gadget!TraceStarted, Gadget!Refresh
      <4>4. refreshed' \in 0 .. MaxRefreshes /\ n \in Gadget!Ids \union {0}
        BY <1>1, <4>3, GadgetConstants
      <4>5. QED BY <4>3, <4>4
    <3>4. CASE Gadget!StartFails
      BY <1>1, <3>4 DEF Gadget!StartFails
    <3>5. QED BY <1>7, <3>1, <3>2, <3>3, <3>4
  <2>3. QED BY <1>1, <1>2, <1>5, <2>1, <2>2
(* A step that leaves the server alone keeps what is known of it.          *)
<1>8. ASSUME UNCHANGED session
      PROVE  /\ \A l : NotAhead(l)' <=> NotAhead(l)
             /\ \A r : GRefresh(r)' <=> GRefresh(r)
             /\ starting => \E s \in Gadget!Ids : session'[s].state # "none"
             /\ session' \in GSessions
  <2>1. \A l : NotAhead(l)' <=> NotAhead(l) BY <1>8 DEF NotAhead
  <2>2. \A r : GRefresh(r)' <=> GRefresh(r) BY <1>8 DEF GRefresh, NotAhead
  <2>3. QED BY <1>1, <1>2, <1>8, <2>1, <2>2
<1>9. CASE Gadget!Effects
  <2>1. /\ gSeen' = Gadget!Wanted
        /\ load' = IF selectedSession = 0 THEN Nothing ELSE Gadget!EventsOf(selectedSession)
        /\ events' = Nothing /\ disturbed' = FALSE
        /\ UNCHANGED <<session, sessions, polls, refreshes, refreshed, starting, selectedSession>>
    BY <1>9 DEF Gadget!Effects
  <2>2. /\ gSeen' \in GSeen /\ gSeen'.id = selectedSession
        /\ selectedSession # 0 => gSeen'.state = sessions[selectedSession]
    BY <1>1, <2>1 DEF Gadget!Wanted, GSeen, Gadget!Lists, Gadget!States
  <2>3. PICK a \in GMaybe : /\ load' = a
                            /\ selectedSession # 0 => /\ a \in Gadget!Answers /\ a.of = selectedSession
                                                      /\ a = Gadget!EventsOf(selectedSession)
    BY <1>1, <2>1, GadgetListed DEF GMaybe
  <2>4. GSeenInFull'
    <3>1. SUFFICES ASSUME selectedSession # 0
                   PROVE  /\ Latest' \in Gadget!Answers /\ Latest'.of = selectedSession
                          /\ gSeen'.state = "completed" =>
                               Latest' = Gadget!EventsOf(gSeen.id)' /\ session'[gSeen'.id].over
      BY <2>2 DEF GSeenInFull
    <3>2. Latest' = a BY <2>1, <2>3, <3>1, GadgetConstants DEF Latest
    <3>3. Gadget!EventsOf(gSeen.id)' = Gadget!EventsOf(selectedSession)
      BY <2>1, <2>2 DEF Gadget!EventsOf
    <3>4. gSeen'.state = "completed" => session'[gSeen'.id].over
      BY <1>1, <1>2, <2>1, <2>2, <3>1 DEF NotAhead
    <3>5. QED BY <2>3, <3>1, <3>2, <3>3, <3>4
  <2>5. load' \in GMaybe /\ events' \in GMaybe BY <1>1, <2>1, <2>3 DEF GMaybe
  <2>6. NotAhead(sessions)' /\ \A i \in DOMAIN polls : NotAhead(polls[i])'
    BY <1>2, <1>8, <2>1 DEF NotAhead
  <2>7. QED BY <1>1, <1>2, <1>3, <1>8, <2>1, <2>2, <2>4, <2>5, <2>6
<1>10. CASE Gadget!LoadArrives
  <2>1. /\ load' \in {load, Nothing}
        /\ \/ UNCHANGED <<load, events, disturbed>>
           \/ load # Nothing /\ load' = Nothing /\ events' = load /\ UNCHANGED disturbed
           \/ load' = Nothing /\ UNCHANGED events /\ disturbed' = TRUE
        /\ UNCHANGED <<session, sessions, polls, refreshes, refreshed, starting, selectedSession, gSeen>>
    BY <1>10 DEF Gadget!LoadArrives
  <2>2. GSeenInFull' BY <1>2, <2>1 DEF GSeenInFull, Latest, Gadget!EventsOf
  <2>3. load' \in GMaybe /\ events' \in GMaybe /\ disturbed' \in BOOLEAN
    BY <1>1, <2>1 DEF GMaybe
  <2>4. NotAhead(sessions)' /\ \A i \in DOMAIN polls : NotAhead(polls[i])'
    BY <1>2, <1>8, <2>1 DEF NotAhead
  <2>5. QED BY <1>1, <1>2, <1>3, <1>8, <2>1, <2>2, <2>3, <2>4
<1>11. CASE Gadget!Poll
  <2>1. /\ Len(polls) < MaxPolls /\ polls' = Append(polls, Gadget!Listed)
        /\ UNCHANGED <<session, sessions, refreshes, refreshed, starting, selectedSession, gSeen, load,
                       events, disturbed>>
    BY <1>11 DEF Gadget!Poll
  <2>2. PICK l \in Gadget!Lists : l = Gadget!Listed /\ NotAhead(l) BY <1>1, GadgetListed
  <2>3. /\ polls' = Append(polls, l) /\ polls' \in Seq(Gadget!Lists) /\ Len(polls') = Len(polls) + 1
        /\ Len(polls) \in Nat
        /\ \A i \in DOMAIN polls' : polls'[i] = l \/ (i \in DOMAIN polls /\ polls'[i] = polls[i])
    <3>1. polls' = Append(polls, l) BY <2>1, <2>2
    <3>2. QED BY <1>1, <3>1, AppendFacts
  <2>4. \A i \in DOMAIN polls' : NotAhead(polls'[i]) BY <1>2, <2>2, <2>3
  <2>5. \A i \in DOMAIN polls' : NotAhead(polls[i])' BY <2>1, <2>4 DEF NotAhead
  <2>6. NotAhead(sessions)' /\ GSeenInFull' BY <1>2, <2>1 DEF NotAhead, GSeenInFull, Latest, Gadget!EventsOf
  <2>7. Len(polls') <= MaxPolls BY <2>1, <2>3, GadgetConstants
  <2>8. QED BY <1>1, <1>2, <1>3, <1>8, <2>1, <2>3, <2>5, <2>6, <2>7
<1>12. ASSUME NEW i \in DOMAIN polls, Gadget!PollArrives(i) PROVE GadgetInv'
  <2>1. /\ polls' = [j \in 1 .. Len(polls) - 1 |-> IF j < i THEN polls[j] ELSE polls[j + 1]]
        /\ sessions' = polls[i] /\ selectedSession' = Gadget!SelectIn(polls[i], selectedSession)
        /\ UNCHANGED <<session, refreshes, refreshed, starting, gSeen, load, events, disturbed>>
    BY <1>12 DEF Gadget!PollArrives
  <2>2. Len(polls) \in Nat \ {0} /\ DOMAIN polls = 1 .. Len(polls) /\ i \in 1 .. Len(polls)
    BY <1>1, LenProperties
  <2>3. \A j \in 1 .. Len(polls) : polls[j] \in Gadget!Lists /\ NotAhead(polls[j])
    BY <1>1, <1>2, <2>2, ElementOfSeq
  <2>4. \A j \in 1 .. Len(polls) - 1 : j \in 1 .. Len(polls) /\ j + 1 \in 1 .. Len(polls) BY <2>2
  <2>5. \A j \in 1 .. Len(polls) - 1 : polls'[j] \in Gadget!Lists /\ NotAhead(polls'[j])
    <3>1. SUFFICES ASSUME NEW j \in 1 .. Len(polls) - 1
                   PROVE  polls'[j] \in Gadget!Lists /\ NotAhead(polls'[j])
      OBVIOUS
    <3>2. PICK k \in 1 .. Len(polls) : polls'[j] = polls[k]
      <4>1. polls'[j] = IF j < i THEN polls[j] ELSE polls[j + 1] BY <2>1
      <4>2. QED BY <2>4, <4>1
    <3>3. QED BY <2>3, <3>2
  <2>6. polls' \in Seq(Gadget!Lists) /\ Len(polls') = Len(polls) - 1 /\ DOMAIN polls' = 1 .. Len(polls) - 1
    <3>1. PICK n \in Nat : n = Len(polls) - 1
      <4>1. \A k \in Nat \ {0} : k - 1 \in Nat OBVIOUS
      <4>2. QED BY <2>2, <4>1, Zenon
    <3>2. polls' \in [1 .. n -> Gadget!Lists]
      <4>1. DOMAIN polls' = 1 .. n /\ \A j \in 1 .. n : polls'[j] \in Gadget!Lists BY <2>1, <2>5, <3>1
      <4>2. polls' = [j \in 1 .. n |-> polls'[j]] BY <2>1, <3>1
      <4>3. QED BY <4>1, <4>2
    <3>3. polls' \in Seq(Gadget!Lists) BY <3>2
    <3>4. Len(polls') \in Nat /\ DOMAIN polls' = 1 .. Len(polls') /\ DOMAIN polls' = 1 .. n
      BY <3>2, <3>3, LenProperties
    <3>5. Len(polls') = n BY <3>1, <3>4
    <3>6. QED BY <3>1, <3>3, <3>4, <3>5
  <2>7. \A j \in DOMAIN polls' : NotAhead(polls[j])' BY <2>1, <2>5, <2>6 DEF NotAhead
  <2>8. NotAhead(sessions)' /\ sessions' \in Gadget!Lists BY <2>1, <2>2, <2>3 DEF NotAhead
  <2>9. GSeenInFull' BY <1>2, <2>1 DEF GSeenInFull, Latest, Gadget!EventsOf
  <2>10. selectedSession' \in Gadget!Ids \union {0} BY <1>1, <2>1, GadgetSelects
  <2>11. Len(polls') <= MaxPolls BY <1>1, <2>2, <2>6, GadgetConstants
  <2>12. QED BY <1>1, <1>2, <1>3, <1>8, <2>1, <2>6, <2>7, <2>8, <2>9, <2>10, <2>11
<1>13. ASSUME NEW r \in refreshes, Gadget!RefreshLists(r) PROVE GadgetInv'
  <2> DEFINE s == Gadget!SelectIn(r.list, r.preferred)
  <2>1. /\ r.step = "list" /\ sessions' = r.list /\ selectedSession' = s
        /\ \/ /\ s = 0 /\ refreshes' = refreshes \ {r} /\ events' = Nothing /\ disturbed' = TRUE
           \/ /\ s # 0
              /\ refreshes' = (refreshes \ {r}) \union {[step |-> "events", answer |-> Gadget!EventsOf(s)]}
              /\ UNCHANGED <<events, disturbed>>
        /\ UNCHANGED <<session, polls, refreshed, starting, gSeen, load>>
    BY <1>13 DEF Gadget!RefreshLists
  <2>2. r.preferred \in Gadget!Ids \union {0} /\ r.list \in Gadget!Lists /\ NotAhead(r.list)
    BY <1>2, <2>1 DEF GRefresh
  <2>3. s \in Gadget!Ids \union {0} BY <2>2, GadgetSelects
  <2> HIDE DEF s
  <2>4. \A e : s # 0 /\ e = [step |-> "events", answer |-> Gadget!EventsOf(s)] => GRefresh(e)
    BY <1>1, <2>3, GadgetListed DEF GRefresh
  <2>5. \A e \in refreshes' : GRefresh(e)' BY <1>2, <1>8, <2>1, <2>4
  <2>6. GSeenInFull' BY <1>2, <2>1 DEF GSeenInFull, Latest, Gadget!EventsOf
  <2>7. NotAhead(sessions)' BY <2>1, <2>2 DEF NotAhead
  <2>8. \A i \in DOMAIN polls : NotAhead(polls[i])' BY <1>2, <2>1 DEF NotAhead
  <2>9. events' \in GMaybe /\ disturbed' \in BOOLEAN BY <1>1, <2>1 DEF GMaybe
  <2>10. QED BY <1>1, <1>3, <1>8, <2>1, <2>2, <2>3, <2>5, <2>6, <2>7, <2>8, <2>9
<1>14. ASSUME NEW r \in refreshes, Gadget!RefreshEvents(r) PROVE GadgetInv'
  <2>1. /\ r.step = "events" /\ refreshes' = refreshes \ {r} /\ events' = r.answer /\ disturbed' = TRUE
        /\ UNCHANGED <<session, sessions, polls, refreshed, starting, selectedSession, gSeen, load>>
    BY <1>14 DEF Gadget!RefreshEvents
  <2>2. events' \in GMaybe BY <1>2, <2>1 DEF GRefresh, GMaybe
  <2>3. \A e \in refreshes' : GRefresh(e)' BY <1>2, <1>8, <2>1
  <2>4. NotAhead(sessions)' /\ \A i \in DOMAIN polls : NotAhead(polls[i])' BY <1>2, <2>1 DEF NotAhead
  <2>5. GSeenInFull' BY <2>1 DEF GSeenInFull
  <2>6. QED BY <1>1, <1>3, <1>8, <2>1, <2>2, <2>3, <2>4, <2>5
<1>15. QED
  BY <1>6, <1>7, <1>9, <1>10, <1>11, <1>12, <1>13, <1>14 DEF Gadget!Next

LEMMA GadgetShown == GadgetInv => Gadget!CompletedIsShownToTheEnd
<1> SUFFICES ASSUME GadgetInv, gSeen = Gadget!Wanted, load = Nothing, ~disturbed, selectedSession # 0
             PROVE  /\ events # Nothing /\ events.of = selectedSession
                    /\ sessions[selectedSession] = "completed" =>
                         /\ events.last = session[selectedSession].n
                         /\ \A n \in 1 .. events.last :
                              n >= events.first <=> n + PageLimit > events.last
  BY DEF Gadget!CompletedIsShownToTheEnd, Gadget!Settled
<1>1. gSeen.id = selectedSession /\ gSeen.state = sessions[selectedSession] BY DEF Gadget!Wanted
<1>2. /\ events \in Gadget!Answers /\ events.of = selectedSession
      /\ sessions[selectedSession] = "completed" => events = Gadget!EventsOf(selectedSession)
  BY <1>1 DEF GadgetInv, GSeenInFull, Latest
<1>3. sessions[selectedSession] = "completed" =>
        /\ events.last = session[selectedSession].n /\ events.last \in 0 .. MaxEvents
        /\ events.first = IF events.last > PageLimit THEN events.last - PageLimit + 1 ELSE 1
  BY <1>2 DEF Gadget!EventsOf, Gadget!Answers
<1>4. \A m \in 0 .. MaxEvents : \A n \in 1 .. m :
        n >= (IF m > PageLimit THEN m - PageLimit + 1 ELSE 1) <=> n + PageLimit > m
  BY GadgetConstants
<1>5. QED BY <1>2, <1>3, <1>4, GadgetConstants

-----------------------------------------------------------------------------
(* The follow stream of kubernetes-logs: the mutex is held by whoever      *)
(* writes, and what has been written of a container's log depends on where *)
(* its goroutine is.                                                       *)
FrameRecords == Follow!Writers \X (0 .. MaxLines)

PlacesOf(F, k) == {i \in DOMAIN F : F[i][1] = k}

(* The frames of k in F are its first m lines.                             *)
WrittenOf(F, k, m) ==
  /\ {F[i][2] : i \in PlacesOf(F, k)} = 1 .. m
  /\ \A i, j \in PlacesOf(F, k) : i < j => F[i][2] < F[j][2]

OnlyError(F, k) == \E i \in DOMAIN F : PlacesOf(F, k) = {i} /\ F[i][2] = 0

ContainerInv(k) ==
  /\ fPc[k] # "tick"
  /\ fPc[k] = "connect" => read[k] = 0 /\ WrittenOf(frames, k, 0)
  /\ fPc[k] = "scan" => WrittenOf(frames, k, read[k])
  /\ fPc[k] = "frame" => WrittenOf(frames, k, IF read[k] = 0 THEN 0 ELSE read[k] - 1)
  /\ fPc[k] = "writing" =>
       IF read[k] = 0 THEN OnlyError(frames, k) ELSE WrittenOf(frames, k, read[k])
  /\ fPc[k] = "done" =>
       \/ WrittenOf(frames, k, read[k])
       \/ read[k] = 0 /\ OnlyError(frames, k)
       \/ read[k] # 0 /\ ~connected /\ WrittenOf(frames, k, read[k] - 1)

FollowInv ==
  /\ Follow!TypeOK
  /\ cut = {}
  /\ \A a \in Follow!Writers : fPc[a] = "writing" <=> lock = a
  /\ fPc[Follow!Heartbeat] \in {"tick", "frame", "writing", "done"}
  /\ \A k \in Containers : ContainerInv(k)
  /\ handler = "returned" => \A k \in Containers : fPc[k] = "done"

FollowPoints == {"connect", "scan", "frame", "writing", "tick", "done"}

LEMMA FollowConstants ==
  /\ MaxLines \in Nat /\ MaxBeats \in Nat
  /\ Follow!Heartbeat \notin Containers /\ "free" \notin Follow!Writers
  /\ Follow!Writers = Containers \union {Follow!Heartbeat}
<1>1. /\ MaxLines \in Nat /\ MaxBeats \in Nat
      /\ "heartbeat" \notin Containers /\ "free" \notin Containers
  BY PartsAssumption DEF Follow!LogsFollowAssumption
<1>2. Follow!Heartbeat = "heartbeat" /\ Follow!Writers = Containers \union {Follow!Heartbeat}
  BY DEF Follow!Heartbeat, Follow!Writers
<1>3. "free" # "heartbeat" OBVIOUS
<1>4. QED BY <1>1, <1>2, <1>3

LEMMA FollowInit == Follow!Init => FollowInv
<1> SUFFICES ASSUME Follow!Init PROVE FollowInv
  OBVIOUS
<1>1. /\ fPc = [a \in Follow!Writers |-> IF a = Follow!Heartbeat THEN "tick" ELSE "connect"]
      /\ read = [k \in Containers |-> 0] /\ lock = "free" /\ frames = <<>> /\ cut = {}
      /\ beats = 0 /\ connected = TRUE /\ handler = "following"
  BY DEF Follow!Init
<1>2. Follow!TypeOK BY <1>1, FollowConstants DEF Follow!TypeOK
<1>3. \A k \in Containers : ContainerInv(k)
  BY <1>1, FollowConstants DEF ContainerInv, WrittenOf, PlacesOf
<1>4. QED BY <1>1, <1>2, <1>3, FollowConstants DEF FollowInv

(* A frame that is added last.                                             *)
LEMMA FrameAdded ==
  ASSUME NEW F \in Seq(FrameRecords), NEW f \in FrameRecords
  PROVE  /\ \A k : f[1] # k => PlacesOf(Append(F, f), k) = PlacesOf(F, k)
         /\ \A k : f[1] = k => PlacesOf(Append(F, f), k) = PlacesOf(F, k) \union {Len(F) + 1}
         /\ \A i \in DOMAIN F : Append(F, f)[i] = F[i]
         /\ Append(F, f)[Len(F) + 1] = f
         /\ DOMAIN F \subseteq DOMAIN Append(F, f) /\ Len(F) + 1 \in DOMAIN Append(F, f)
         /\ Len(F) \in Nat /\ DOMAIN F = 1 .. Len(F)
<1> DEFINE G == Append(F, f)
<1>1. /\ Len(F) \in Nat /\ DOMAIN F = 1 .. Len(F) /\ DOMAIN G = 1 .. Len(F) + 1
      /\ G[Len(F) + 1] = f /\ \A i \in 1 .. Len(F) : G[i] = F[i]
  BY AppendFacts
<1> HIDE DEF G
<1>2. \A k : f[1] # k => PlacesOf(G, k) = PlacesOf(F, k) BY <1>1 DEF PlacesOf
<1>3. \A k : f[1] = k => PlacesOf(G, k) = PlacesOf(F, k) \union {Len(F) + 1}
  BY <1>1 DEF PlacesOf
<1>4. QED BY <1>1, <1>2, <1>3 DEF G

LEMMA OthersStayWritten ==
  ASSUME NEW F \in Seq(FrameRecords), NEW f \in FrameRecords, NEW k, f[1] # k
  PROVE  /\ \A m : WrittenOf(F, k, m) => WrittenOf(Append(F, f), k, m)
         /\ OnlyError(F, k) => OnlyError(Append(F, f), k)
<1> DEFINE G == Append(F, f)
<1>1. /\ PlacesOf(G, k) = PlacesOf(F, k) /\ \A i \in DOMAIN F : G[i] = F[i]
      /\ DOMAIN F \subseteq DOMAIN G
  BY FrameAdded
<1> HIDE DEF G
<1>2. \A i \in PlacesOf(F, k) : G[i] = F[i] BY <1>1 DEF PlacesOf
<1>3. {G[i][2] : i \in PlacesOf(G, k)} = {F[i][2] : i \in PlacesOf(F, k)} BY <1>1, <1>2
<1>4. \A m : WrittenOf(F, k, m) => WrittenOf(G, k, m) BY <1>1, <1>2, <1>3 DEF WrittenOf
<1>5. OnlyError(F, k) => OnlyError(G, k) BY <1>1 DEF OnlyError
<1>6. QED BY <1>4, <1>5 DEF G

LEMMA NextIsWritten ==
  ASSUME NEW F \in Seq(FrameRecords), NEW k \in Follow!Writers, NEW n \in 1 .. MaxLines,
         WrittenOf(F, k, n - 1)
  PROVE  WrittenOf(Append(F, <<k, n>>), k, n)
<1> DEFINE f == <<k, n>>
           G == Append(F, f)
<1>1. f \in FrameRecords /\ f[1] = k /\ f[2] = n /\ n \in Nat BY FollowConstants DEF FrameRecords
<1> HIDE DEF f
<1>2. /\ PlacesOf(G, k) = PlacesOf(F, k) \union {Len(F) + 1} /\ \A i \in DOMAIN F : G[i] = F[i]
      /\ G[Len(F) + 1] = f /\ Len(F) \in Nat /\ DOMAIN F = 1 .. Len(F)
  BY <1>1, FrameAdded
<1> HIDE DEF G
<1> DEFINE old == PlacesOf(F, k)
<1>3. \A i \in old : G[i] = F[i] /\ i \in 1 .. Len(F) BY <1>2 DEF PlacesOf
<1>4. {F[i][2] : i \in old} = 1 .. n - 1 /\ \A i, j \in old : i < j => F[i][2] < F[j][2]
  BY DEF WrittenOf
<1>5. PlacesOf(G, k) = old \union {Len(F) + 1} BY <1>2
<1> HIDE DEF old
<1>6. {G[i][2] : i \in PlacesOf(G, k)} = {F[i][2] : i \in old} \union {n}
  <2>1. G[Len(F) + 1][2] = n BY <1>1, <1>2
  <2>2. \A i \in old : G[i][2] = F[i][2] BY <1>3
  <2>3. QED BY <1>5, <2>1, <2>2
<1>7. {G[i][2] : i \in PlacesOf(G, k)} = 1 .. n
  <2>1. (1 .. n - 1) \union {n} = 1 .. n BY <1>1
  <2>2. QED BY <1>4, <1>6, <2>1, Zenon
<1>8. \A i \in old : F[i][2] \in 1 .. n - 1 BY <1>4
<1>9. ASSUME NEW i \in PlacesOf(G, k), NEW j \in PlacesOf(G, k), i < j PROVE G[i][2] < G[j][2]
  <2>1. i \in old BY <1>2, <1>3, <1>5, <1>9
  <2>2. CASE j \in old BY <1>3, <1>4, <1>9, <2>1, <2>2
  <2>3. CASE j = Len(F) + 1
    <3>1. G[j][2] = n /\ G[i][2] = F[i][2] /\ F[i][2] \in 1 .. n - 1
      BY <1>1, <1>2, <1>3, <1>8, <2>1, <2>3
    <3>2. QED BY <1>1, <3>1
  <2>4. QED BY <1>5, <2>2, <2>3
<1>10. QED BY <1>7, <1>9 DEF WrittenOf, G, f

(* A step of one goroutine, or of none, that writes nothing.               *)
LEMMA QuietGoroutine ==
  ASSUME FollowInv, NEW a \in Follow!Writers, NEW p \in FollowPoints,
         Follow!Goto(a, p), UNCHANGED <<lock, frames, cut, connected, handler>>,
         fPc[a] # "writing", p # "writing",
         read' \in [Containers -> 0 .. MaxLines], beats' \in 0 .. MaxBeats,
         \A k \in Containers : k # a => read'[k] = read[k],
         a \in Containers => ContainerInv(a)' /\ fPc[a] # "done",
         a = Follow!Heartbeat => p \in {"tick", "frame", "done"}
  PROVE  FollowInv'
<1>1. /\ fPc' = [fPc EXCEPT ![a] = p] /\ fPc \in [Follow!Writers -> FollowPoints]
      /\ fPc'[a] = p /\ \A b \in Follow!Writers : b # a => fPc'[b] = fPc[b]
  BY DEF Follow!Goto, FollowInv, Follow!TypeOK, FollowPoints
<1>2. Follow!TypeOK'
  BY <1>1 DEF FollowInv, Follow!TypeOK, FollowPoints
<1>3. \A b \in Follow!Writers : fPc'[b] = "writing" <=> lock' = b
  BY <1>1 DEF FollowInv
<1>4. ASSUME NEW k \in Containers PROVE ContainerInv(k)'
  <2>1. CASE k = a BY <2>1
  <2>2. CASE k # a
    <3>1. fPc'[k] = fPc[k] /\ read'[k] = read[k] BY <1>1, <2>2, FollowConstants
    <3>2. ContainerInv(k) BY DEF FollowInv
    <3>3. QED BY <3>1, <3>2 DEF ContainerInv
  <2>3. QED BY <2>1, <2>2
<1>5. fPc'[Follow!Heartbeat] \in {"tick", "frame", "writing", "done"}
  BY <1>1, FollowConstants DEF FollowInv
<1>6. handler' = "returned" => \A k \in Containers : fPc'[k] = "done"
  BY <1>1, FollowConstants DEF FollowInv
<1>7. QED BY <1>2, <1>3, <1>4, <1>5, <1>6 DEF FollowInv

LEMMA FollowStep ==
  ASSUME FollowInv, Follow!Next
  PROVE  FollowInv'
<1>1. /\ fPc \in [Follow!Writers -> FollowPoints] /\ read \in [Containers -> 0 .. MaxLines]
      /\ lock \in Follow!Writers \union {"free"} /\ frames \in Seq(FrameRecords)
      /\ beats \in 0 .. MaxBeats /\ connected \in BOOLEAN /\ cut = {}
      /\ \A a \in Follow!Writers : fPc[a] = "writing" <=> lock = a
      /\ \A k \in Containers : ContainerInv(k)
      /\ handler = "returned" => \A k \in Containers : fPc[k] = "done"
  BY DEF FollowInv, Follow!TypeOK, FollowPoints, FrameRecords
<1>2. ASSUME NEW k \in Containers, Follow!StreamFails(k) \/ Follow!StreamOpens(k)
      PROVE  FollowInv'
  <2>1. PICK p \in {"frame", "scan"} :
          /\ fPc[k] = "connect" /\ Follow!Goto(k, p)
          /\ UNCHANGED <<read, lock, frames, cut, beats, connected, handler>>
    BY <1>2 DEF Follow!StreamFails, Follow!StreamOpens
  <2>2. fPc'[k] = p BY <1>1, <2>1, FollowConstants DEF Follow!Goto
  <2>3. ContainerInv(k)' BY <1>1, <2>1, <2>2 DEF ContainerInv
  <2>4. p \in FollowPoints /\ k # Follow!Heartbeat /\ k \in Follow!Writers
    BY FollowConstants DEF FollowPoints
  <2>5. QED BY <1>1, <2>1, <2>3, <2>4, QuietGoroutine
<1>3. ASSUME NEW k \in Containers, Follow!ScanLine(k) PROVE FollowInv'
  <2>1. PICK p \in {"frame", "done"} :
          /\ fPc[k] = "scan" /\ Follow!Goto(k, p) /\ (p = "done" => ~connected)
          /\ read[k] < MaxLines /\ read' = [read EXCEPT ![k] = @ + 1]
          /\ UNCHANGED <<lock, frames, cut, beats, connected, handler>>
    BY <1>3 DEF Follow!ScanLine
  <2>2. fPc'[k] = p BY <1>1, <2>1, FollowConstants DEF Follow!Goto
  <2>3. /\ read' \in [Containers -> 0 .. MaxLines] /\ read'[k] = read[k] + 1
        /\ \A c \in Containers : c # k => read'[c] = read[c]
        /\ read'[k] # 0 /\ read'[k] - 1 = read[k]
    BY <1>1, <2>1, FollowConstants
  <2>4. WrittenOf(frames, k, read[k]) BY <1>1, <2>1 DEF ContainerInv
  <2>5. ContainerInv(k)' BY <2>1, <2>2, <2>3, <2>4 DEF ContainerInv
  <2>6. p \in FollowPoints /\ k # Follow!Heartbeat /\ k \in Follow!Writers
    BY FollowConstants DEF FollowPoints
  <2>7. QED BY <1>1, <2>1, <2>3, <2>5, <2>6, QuietGoroutine
<1>4. ASSUME NEW k \in Containers, Follow!ScanEnds(k) PROVE FollowInv'
  <2>1. /\ fPc[k] = "scan" /\ Follow!Goto(k, "done")
        /\ UNCHANGED <<read, lock, frames, cut, beats, connected, handler>>
    BY <1>4 DEF Follow!ScanEnds
  <2>2. fPc'[k] = "done" BY <1>1, <2>1, FollowConstants DEF Follow!Goto
  <2>3. ContainerInv(k)' BY <1>1, <2>1, <2>2 DEF ContainerInv
  <2>4. "done" \in FollowPoints /\ k # Follow!Heartbeat /\ k \in Follow!Writers
    BY FollowConstants DEF FollowPoints
  <2>5. QED BY <1>1, <2>1, <2>3, <2>4, QuietGoroutine
<1>5. CASE Follow!Tick \/ Follow!HeartbeatEnds
  <2>1. PICK p \in {"frame", "done"} :
          /\ fPc[Follow!Heartbeat] = "tick" /\ Follow!Goto(Follow!Heartbeat, p)
          /\ beats' \in 0 .. MaxBeats
          /\ UNCHANGED <<read, lock, frames, cut, connected, handler>>
    BY <1>1, <1>5, FollowConstants DEF Follow!Tick, Follow!HeartbeatEnds
  <2>2. p \in FollowPoints /\ Follow!Heartbeat \in Follow!Writers BY FollowConstants DEF FollowPoints
  <2>3. QED BY <1>1, <2>1, <2>2, FollowConstants, QuietGoroutine
<1>6. ASSUME NEW a \in Follow!Writers, Follow!BeginFrame(a) PROVE FollowInv'
  <2>1. /\ fPc[a] = "frame" /\ lock = "free" /\ lock' = a
        /\ fPc' = [fPc EXCEPT ![a] = "writing"] /\ frames' = Append(frames, Follow!Frame(a))
        /\ cut' = cut \union {Follow!Frame(b) : b \in {b \in Follow!Writers : fPc[b] = "writing"}}
        /\ UNCHANGED <<read, beats, connected, handler>>
    BY <1>6 DEF Follow!BeginFrame, Follow!Acquire, Follow!Goto
  <2>2. cut' = {} BY <1>1, <2>1, FollowConstants
  <2>3. PICK f \in FrameRecords :
          f = Follow!Frame(a) /\ f[1] = a /\ f[2] = IF a = Follow!Heartbeat THEN 0 ELSE read[a]
    <3>1. PICK n \in 0 .. MaxLines : n = IF a = Follow!Heartbeat THEN 0 ELSE read[a]
      BY <1>1, FollowConstants
    <3>2. Follow!Frame(a) = <<a, n>> BY <3>1 DEF Follow!Frame
    <3>3. <<a, n>> \in FrameRecords BY DEF FrameRecords
    <3>4. QED BY <3>1, <3>2, <3>3
  <2>4. frames' = Append(frames, f) /\ frames' \in Seq(FrameRecords)
    BY <1>1, <2>1, <2>3, AppendFacts
  <2>5. /\ fPc' \in [Follow!Writers -> FollowPoints] /\ fPc'[a] = "writing"
        /\ \A b \in Follow!Writers : b # a => fPc'[b] = fPc[b]
    BY <1>1, <2>1 DEF FollowPoints
  <2>6. ASSUME NEW k \in Containers PROVE ContainerInv(k)'
    <3>1. ContainerInv(k) /\ read'[k] = read[k] /\ k \in Follow!Writers /\ k # Follow!Heartbeat
      BY <1>1, <2>1, FollowConstants
    <3>2. CASE k # a
      <4>1. fPc'[k] = fPc[k] BY <2>5, <3>1, <3>2
      <4>2. /\ \A m : WrittenOf(frames, k, m) => WrittenOf(frames', k, m)
            /\ OnlyError(frames, k) => OnlyError(frames', k)
        BY <1>1, <2>3, <2>4, <3>2, OthersStayWritten
      <4>3. QED BY <2>1, <3>1, <4>1, <4>2 DEF ContainerInv
    <3>3. CASE k = a /\ read[k] = 0
      <4>1. WrittenOf(frames, k, 0) BY <2>1, <3>1, <3>3 DEF ContainerInv
      <4>2. PlacesOf(frames, k) = {} BY <4>1 DEF WrittenOf
      <4>3. /\ PlacesOf(frames', k) = {Len(frames) + 1} /\ frames'[Len(frames) + 1] = f
            /\ Len(frames) + 1 \in DOMAIN frames'
        <5>1. PICK g \in FrameRecords : g = f /\ g[1] = k BY <2>3, <3>3
        <5>a. frames \in Seq(FrameRecords) BY <1>1
        <5>b. /\ \A c : g[1] = c => PlacesOf(Append(frames, g), c)
                                    = PlacesOf(frames, c) \union {Len(frames) + 1}
              /\ Append(frames, g)[Len(frames) + 1] = g
              /\ Len(frames) + 1 \in DOMAIN Append(frames, g)
          BY <5>a, FrameAdded
        <5>2. /\ PlacesOf(Append(frames, g), k) = PlacesOf(frames, k) \union {Len(frames) + 1}
              /\ Append(frames, g)[Len(frames) + 1] = g
              /\ Len(frames) + 1 \in DOMAIN Append(frames, g)
          BY <5>1, <5>b
        <5>3. QED BY <2>4, <4>2, <5>1, <5>2
      <4>4. OnlyError(frames', k) BY <2>3, <3>1, <3>3, <4>3 DEF OnlyError
      <4>5. QED BY <2>1, <2>5, <3>1, <3>3, <4>4 DEF ContainerInv
    <3>4. CASE k = a /\ read[k] # 0
      <4>1. PICK n \in 1 .. MaxLines : n = read[k] BY <1>1, <3>4, FollowConstants
      <4>2. WrittenOf(frames, k, n - 1) BY <2>1, <3>1, <3>4, <4>1 DEF ContainerInv
      <4>3. f = <<k, n>> BY <2>3, <3>1, <3>4, <4>1 DEF Follow!Frame
      <4>4. WrittenOf(frames', k, n) BY <1>1, <2>4, <3>1, <4>2, <4>3, NextIsWritten
      <4>5. QED BY <2>1, <2>5, <3>1, <3>4, <4>1, <4>4 DEF ContainerInv
    <3>5. QED BY <3>2, <3>3, <3>4
  <2>7. Follow!TypeOK'
    BY <1>1, <2>1, <2>2, <2>4, <2>5 DEF FollowInv, Follow!TypeOK, FollowPoints, FrameRecords
  <2>8. \A b \in Follow!Writers : fPc'[b] = "writing" <=> lock' = b
    BY <1>1, <2>1, <2>5, FollowConstants
  <2>9. /\ fPc'[Follow!Heartbeat] \in {"tick", "frame", "writing", "done"}
        /\ handler' = "returned" => \A k \in Containers : fPc'[k] = "done"
    BY <1>1, <2>1, <2>5, FollowConstants DEF FollowInv
  <2>10. QED BY <2>2, <2>6, <2>7, <2>8, <2>9 DEF FollowInv
<1>7. ASSUME NEW a \in Follow!Writers, Follow!EndFrame(a) PROVE FollowInv'
  <2>1. PICK p \in {"tick", "done", "scan"} :
          /\ p = IF a = Follow!Heartbeat THEN "tick" ELSE IF read[a] = 0 THEN "done" ELSE "scan"
          /\ fPc[a] = "writing" /\ lock' = "free" /\ fPc' = [fPc EXCEPT ![a] = p]
          /\ UNCHANGED <<read, frames, cut, beats, connected, handler>>
    BY <1>7 DEF Follow!EndFrame, Follow!Goto
  <2>2. /\ fPc' \in [Follow!Writers -> FollowPoints] /\ fPc'[a] = p
        /\ \A b \in Follow!Writers : b # a => fPc'[b] = fPc[b]
    BY <1>1, <2>1 DEF FollowPoints
  <2>3. ASSUME NEW k \in Containers PROVE ContainerInv(k)'
    <3>1. ContainerInv(k) /\ read'[k] = read[k] /\ k \in Follow!Writers /\ k # Follow!Heartbeat
      BY <1>1, <2>1, FollowConstants
    <3>2. CASE k # a
      <4>1. fPc'[k] = fPc[k] BY <2>2, <3>1, <3>2
      <4>2. QED BY <2>1, <3>1, <4>1 DEF ContainerInv
    <3>3. CASE k = a
      BY <2>1, <2>2, <3>1, <3>3 DEF ContainerInv
    <3>4. QED BY <3>2, <3>3
  <2>4. Follow!TypeOK' BY <1>1, <2>1, <2>2 DEF FollowInv, Follow!TypeOK, FollowPoints
  <2>5. \A b \in Follow!Writers : fPc'[b] = "writing" <=> lock' = b
    BY <1>1, <2>1, <2>2, FollowConstants
  <2>6. /\ fPc'[Follow!Heartbeat] \in {"tick", "frame", "writing", "done"}
        /\ handler' = "returned" => \A k \in Containers : fPc'[k] = "done"
    BY <1>1, <2>1, <2>2, FollowConstants DEF FollowInv
  <2>7. QED BY <1>1, <2>1, <2>3, <2>4, <2>5, <2>6 DEF FollowInv
<1>8. CASE Follow!Return \/ Follow!Disconnect
  <2>1. /\ UNCHANGED <<fPc, read, lock, frames, cut, beats>>
        /\ connected' \in {connected, FALSE} /\ handler' \in {handler, "returned"}
        /\ handler' = "returned" => \A k \in Containers : fPc[k] = "done"
    BY <1>1, <1>8 DEF Follow!Return, Follow!Disconnect, Follow!Waited
  <2>2. ASSUME NEW k \in Containers PROVE ContainerInv(k)'
    <3>1. ContainerInv(k) BY <1>1
    <3>2. CASE connected' = connected BY <2>1, <3>1, <3>2 DEF ContainerInv
    <3>3. CASE connected' = FALSE BY <2>1, <3>1, <3>3 DEF ContainerInv
    <3>4. QED BY <2>1, <3>2, <3>3
  <2>3. Follow!TypeOK' BY <1>1, <2>1 DEF FollowInv, Follow!TypeOK
  <2>4. QED BY <1>1, <2>1, <2>2, <2>3 DEF FollowInv
<1>9. QED BY <1>2, <1>3, <1>4, <1>5, <1>6, <1>7, <1>8 DEF Follow!Next

LEMMA FollowWrites ==
  ASSUME FollowInv
  PROVE  Follow!FramesAreWholeAndOrdered /\ Follow!ReturnedAfterLastLine
<1>1. \A k : Follow!FramesOf(k) = PlacesOf(frames, k) BY DEF Follow!FramesOf, PlacesOf
<1>2. \A k : Follow!LinesOf(k) = {frames[i][2] : i \in PlacesOf(frames, k)}
  BY <1>1 DEF Follow!LinesOf
<1>3. ASSUME NEW k \in Containers
      PROVE  \/ OnlyError(frames, k) /\ read[k] = 0
             \/ \E n \in 0 .. read[k] : WrittenOf(frames, k, n)
  <2>1. ContainerInv(k) /\ read[k] \in 0 .. MaxLines /\ fPc[k] \in FollowPoints
    BY FollowConstants DEF FollowInv, Follow!TypeOK, FollowPoints
  <2>2. \A n \in {read[k], 0, IF read[k] = 0 THEN 0 ELSE read[k] - 1} : n \in 0 .. read[k]
    BY <2>1, FollowConstants
  <2>3. \/ OnlyError(frames, k) /\ read[k] = 0
        \/ \E n \in {read[k], 0, IF read[k] = 0 THEN 0 ELSE read[k] - 1} : WrittenOf(frames, k, n)
    BY <2>1 DEF ContainerInv, FollowPoints
  <2>4. QED BY <2>2, <2>3
<1>4. Follow!FramesAreWholeAndOrdered
  <2>1. cut = {} BY DEF FollowInv
  <2>2. QED BY <1>1, <1>2, <1>3, <2>1 DEF Follow!FramesAreWholeAndOrdered, OnlyError, WrittenOf
<1>5. Follow!ReturnedAfterLastLine
  <2> SUFFICES ASSUME handler = "returned"
               PROVE  /\ \A k \in Containers : fPc[k] = "done"
                      /\ connected => \A k \in Containers :
                           read[k] > 0 => Follow!LinesOf(k) = 1 .. read[k]
    BY DEF Follow!ReturnedAfterLastLine
  <2>1. \A k \in Containers : fPc[k] = "done" /\ ContainerInv(k) BY DEF FollowInv
  <2>2. ASSUME NEW k \in Containers, connected, read[k] > 0
        PROVE  Follow!LinesOf(k) = 1 .. read[k]
    <3>1. read[k] # 0 BY <2>2 DEF FollowInv, Follow!TypeOK
    <3>2. WrittenOf(frames, k, read[k]) BY <2>1, <2>2, <3>1 DEF ContainerInv
    <3>3. QED BY <1>2, <3>2 DEF WrittenOf
  <2>3. QED BY <2>1, <2>2
<1>6. QED BY <1>4, <1>5

-----------------------------------------------------------------------------
(* The triage of a health scan: what it recommends is what it has seen     *)
(* calls for.                                                              *)
Recommends == Triage!IndexFixes \o Triage!StatsFixes(Triage!Stale)

TriageInv ==
  /\ scan \in Scans /\ triaged \in BOOLEAN
  /\ fixes = IF triaged THEN Triage!OrderFixes(Recommends) ELSE <<>>

IndexNames == {r.index : r \in Triage!Rows}
FixRecords == [kind : Triage!FixKinds, table : {1},
               index : IndexNames \union Triage!StaleNames \union {All}]

LEMMA TriageInit == Triage!Init => TriageInv
BY DEF Triage!Init, TriageInv

(* What is recommended depends on the scan alone.                          *)
LEMMA SameScan ==
  ASSUME scan' = scan
  PROVE  (Triage!OrderFixes(Recommends))' = Triage!OrderFixes(Recommends)
<1>1. UNCHANGED <<Triage!Rows, Triage!StaleNames>> BY DEF Triage!Rows, Triage!StaleNames
<1>2. \A r : Triage!DropCandidate(r)' <=> Triage!DropCandidate(r)
  BY <1>1 DEF Triage!DropCandidate, Triage!Redundant
<1>3. UNCHANGED <<Triage!Maintained, Triage!Drops>>
  BY <1>1, <1>2 DEF Triage!Maintained, Triage!Drops
<1>4. UNCHANGED Triage!Rebuilt BY <1>1, <1>3 DEF Triage!Rebuilt
<1>5. UNCHANGED <<Triage!IndexFixes, Triage!Stale>>
  BY <1>1, <1>3, <1>4 DEF Triage!IndexFixes, Triage!Stale, Triage!Collapsed
<1>6. Recommends' = Recommends BY <1>5 DEF Recommends
<1>7. QED BY <1>6 DEF Triage!OrderFixes

LEMMA TriageStep ==
  ASSUME TriageInv, Triage!Next
  PROVE  TriageInv'
<1>1. triaged' = TRUE /\ scan' = scan /\ fixes' = Triage!OrderFixes(Recommends)
  BY DEF Triage!Next, Triage!RecommendFixes, Recommends
<1>2. QED BY <1>1, SameScan DEF TriageInv

LEMMA TriageStutter ==
  ASSUME TriageInv, UNCHANGED triageVars
  PROVE  TriageInv'
<1>1. scan' = scan /\ triaged' = triaged /\ fixes' = fixes BY DEF triageVars
<1>2. QED BY <1>1, SameScan DEF TriageInv

LEMMA TriageCardinality == \A S : Triage!Cardinality(S) = Cardinality(S)
BY DEF Triage!Cardinality, Cardinality

(* orderFixes recommends the same fixes: within a table, by rank and then  *)
(* by position is a strict total order.                                    *)
LEMMA OrderKeepsFixes ==
  ASSUME NEW K, NEW b \in Seq([kind : Triage!FixKinds, table : {1}, index : K])
  PROVE  DOMAIN Triage!OrderFixes(b) = DOMAIN b /\ Elements(Triage!OrderFixes(b)) = Elements(b)
<1> DEFINE D == DOMAIN b
           order(i) == Triage!KindRank(b[i].kind)
           R == {r \in D \X D : Triage!GoesBefore(b, r[1], r[2])}
<1>1. D = 1 .. Len(b) /\ Len(b) \in Nat BY LenProperties
<1>2. \A i \in D : b[i].table = 1 /\ order(i) \in Nat
  <2>1. \A i \in D : b[i] \in [kind : Triage!FixKinds, table : {1}, index : K]
    BY <1>1, ElementOfSeq
  <2>2. QED BY <2>1 DEF Triage!KindRank
<1>3. \A i, j \in D : <<i, j>> \in R <=> (order(i) < order(j) \/ (order(i) = order(j) /\ i < j))
  <2> TAKE i, j \in D
  <2>1. <<i, j>> \in R <=> Triage!GoesBefore(b, i, j) OBVIOUS
  <2>2. /\ b[i].table = 1 /\ b[j].table = 1 /\ order(i) \in Nat /\ order(j) \in Nat
        /\ i \in Nat /\ j \in Nat
    BY <1>1, <1>2
  <2>3. Triage!Less(b[i], b[j]) <=> order(i) < order(j) BY <2>2 DEF Triage!Less
  <2>4. Triage!Less(b[j], b[i]) <=> order(j) < order(i) BY <2>2 DEF Triage!Less
  <2> HIDE DEF order, R
  <2>5. QED BY <2>1, <2>2, <2>3, <2>4 DEF Triage!GoesBefore
<1> HIDE DEF order
<1>4. /\ \A i \in D : <<i, i>> \notin R
      /\ \A i, j \in D : i # j => <<i, j>> \in R \/ <<j, i>> \in R
      /\ \A i, j, k \in D : <<i, j>> \in R /\ <<j, k>> \in R => <<i, k>> \in R
  <2>1. \A i \in D : i \in Nat /\ order(i) \in Nat BY <1>1, <1>2
  <2> HIDE DEF D, R
  <2>2. QED BY <1>3, <2>1
<1>5. IsFiniteSet(D) /\ Cardinality(D) = Len(b) BY <1>1, FS_Interval
<1>6. \E p \in [1 .. Cardinality(D) -> D] :
        /\ \A k \in 1 .. Cardinality(D) :
             p[k] = CHOOSE i \in D : Cardinality({j \in D : <<j, i>> \in R}) = k - 1
        /\ \A i \in D : \E k \in 1 .. Cardinality(D) : p[k] = i
        /\ \A k, m \in 1 .. Cardinality(D) : k < m => <<p[k], p[m]>> \in R
  <2>1. IsFiniteSet(D) BY <1>5
  <2> HIDE DEF D, R
  <2>2. QED BY <1>4, <2>1, InARow, Zenon
<1>7. PICK p \in [D -> D] :
        /\ \A k \in D : p[k] = CHOOSE i \in D : Cardinality({j \in D : <<j, i>> \in R}) = k - 1
        /\ \A i \in D : \E k \in D : p[k] = i
  <2>1. 1 .. Cardinality(D) = D BY <1>1, <1>5
  <2> HIDE DEF D, R
  <2>2. QED BY <1>6, <2>1
<1> DEFINE c(k) == CHOOSE i \in D :
                     Triage!Cardinality({j \in D : Triage!GoesBefore(b, j, i)}) = k - 1
           O == Triage!OrderFixes(b)
<1>8. O = [k \in D |-> b[c(k)]] BY Zenon DEF Triage!OrderFixes
<1>9. \A k \in D : p[k] = c(k)
  <2>1. \A i \in D : {j \in D : <<j, i>> \in R} = {j \in D : Triage!GoesBefore(b, j, i)} OBVIOUS
  <2> TAKE k \in D
  <2>2. \A i \in D : Cardinality({j \in D : <<j, i>> \in R}) = k - 1
                     <=> Triage!Cardinality({j \in D : Triage!GoesBefore(b, j, i)}) = k - 1
    BY <2>1, TriageCardinality
  <2> HIDE DEF D, R
  <2>3. QED BY <1>7, <2>2
<1> HIDE DEF c, O, R
<1>10. DOMAIN O = D /\ \A k \in D : O[k] = b[p[k]] BY <1>8, <1>9
<1> HIDE DEF D
<1>11. {O[k] : k \in D} = {b[k] : k \in D} BY <1>7, <1>10
<1>12. QED BY <1>10, <1>11 DEF Elements, O, D

LEMMA TriageFilter == \A s, S : Triage!Filter(s, S) = Filter(s, S)
BY Zenon DEF Triage!Filter, Filter, Triage!Cardinality, Cardinality

LEMMA ScanFacts ==
  ASSUME TriageInv
  PROVE  /\ scan.rows \in Seq(Triage!Rows) /\ Elements(scan.rows) = Triage!Rows
         /\ scan.stale \in Seq(Triage!StaleNames) /\ Elements(scan.stale) = Triage!StaleNames
         /\ \A r \in Triage!Rows :
              /\ r.wear \in Triage!Wear /\ Triage!IsList(r.key)
              /\ r.essential \in BOOLEAN /\ r.read \in BOOLEAN
              /\ r.index # All
         /\ \A q, r \in Triage!Rows :
              q.index = r.index => q.key = r.key /\ q.essential = r.essential /\ q.read = r.read
         /\ IsFiniteSet(Triage!Rows)
<1>1. Triage!IsScan(scan) BY PartsAssumption DEF TriageInv, Triage!TriageAssumption
<1>2. scan.rows \in Seq(Triage!Rows) /\ scan.stale \in Seq(Triage!StaleNames)
  BY <1>1 DEF Triage!IsScan, Triage!IsList, Triage!Rows, Triage!StaleNames
<1>3. Elements(scan.rows) = Triage!Rows /\ Elements(scan.stale) = Triage!StaleNames
  BY DEF Elements, Triage!Rows, Triage!StaleNames
<1>4. \A r \in Triage!Rows :
        /\ r.wear \in Triage!Wear /\ Triage!IsList(r.key)
        /\ r.essential \in BOOLEAN /\ r.read \in BOOLEAN
        /\ r.index # All
  BY <1>1 DEF Triage!IsScan, Triage!Rows
<1>5. \A q, r \in Triage!Rows :
        q.index = r.index => q.key = r.key /\ q.essential = r.essential /\ q.read = r.read
  BY <1>1 DEF Triage!IsScan, Triage!Rows
<1>6. IsFiniteSet(Triage!Rows)
  <2> DEFINE D == DOMAIN scan.rows
             f == [n \in D |-> scan.rows[n]]
  <2>1. D = 1 .. Len(scan.rows) /\ Len(scan.rows) \in Nat BY <1>2, LenProperties
  <2>2. IsFiniteSet(D) BY <2>1, FS_Interval
  <2>3. f \in [D -> Triage!Rows] /\ \A r \in Triage!Rows : \E n \in D : f[n] = r
    BY DEF Triage!Rows
  <2> HIDE DEF D, f
  <2>4. f \in Surjection(D, Triage!Rows) BY <2>3, Fun_IsSurj
  <2>5. QED BY <2>2, <2>4, FS_Surjection
<1>7. QED BY <1>2, <1>3, <1>4, <1>5, <1>6

(* What is recommended, before it is put in order.                         *)
Maintenance == {r \in Triage!Rows : ~Triage!DropCandidate(r) /\ r.wear # "none"}
Candidates == {r \in Triage!Rows : Triage!DropCandidate(r)}
Needs == {r \in Maintenance : r.wear = "rebuild"}

LEMMA Lists ==
  ASSUME TriageInv
  PROVE  /\ Triage!Maintained \in Seq(Maintenance) /\ Elements(Triage!Maintained) = Maintenance
         /\ Triage!Rebuilt \in Seq(Needs) /\ Elements(Triage!Rebuilt) = Needs
         /\ Triage!Drops \in Seq(FixRecords)
         /\ Elements(Triage!Drops) = {Triage!Fix("drop-index", r.index) : r \in Candidates}
<1>1. /\ scan.rows \in Seq(Triage!Rows) /\ Elements(scan.rows) = Triage!Rows BY ScanFacts
<1>2. ASSUME NEW S \in SUBSET Triage!Rows
      PROVE  Triage!Filter(scan.rows, S) \in Seq(S) /\ Elements(Triage!Filter(scan.rows, S)) = S
  <2>1. /\ Filter(scan.rows, S) \in Seq(Triage!Rows \intersect S)
        /\ Elements(Filter(scan.rows, S)) = Triage!Rows \intersect S
    BY <1>1, FilterPlaces, FilterElements
  <2>2. Triage!Rows \intersect S = S OBVIOUS
  <2>3. QED BY <2>1, <2>2, TriageFilter
<1>3. Triage!Maintained \in Seq(Maintenance) /\ Elements(Triage!Maintained) = Maintenance
  <2>1. Maintenance \in SUBSET Triage!Rows BY DEF Maintenance
  <2>2. Triage!Maintained = Triage!Filter(scan.rows, Maintenance) BY DEF Triage!Maintained, Maintenance
  <2>3. QED BY <1>2, <2>1, <2>2
<1>4. Triage!Rebuilt \in Seq(Needs) /\ Elements(Triage!Rebuilt) = Needs
  <2> DEFINE S == {r \in Triage!Rows : r.wear = "rebuild"}
  <2>1. Triage!Rebuilt = Filter(Triage!Maintained, S) BY TriageFilter DEF Triage!Rebuilt
  <2>2. Maintenance \intersect S = Needs BY DEF Maintenance, Needs
  <2> HIDE DEF S
  <2>3. QED BY <1>3, <2>1, <2>2, FilterPlaces, FilterElements
<1>5. /\ Triage!Drops \in Seq(FixRecords)
      /\ Elements(Triage!Drops) = {Triage!Fix("drop-index", r.index) : r \in Candidates}
  <2> DEFINE rows == Triage!Filter(scan.rows, Candidates)
  <2>1. Candidates \in SUBSET Triage!Rows BY DEF Candidates
  <2>2. rows \in Seq(Candidates) /\ Elements(rows) = Candidates BY <1>2, <2>1
  <2>3. Triage!Drops = [n \in DOMAIN rows |-> Triage!Fix("drop-index", rows[n].index)]
    BY DEF Triage!Drops, Candidates
  <2> HIDE DEF rows
  <2>4. DOMAIN rows = 1 .. Len(rows) /\ Len(rows) \in Nat BY <2>2, LenProperties
  <2>5. \A r \in Candidates : Triage!Fix("drop-index", r.index) \in FixRecords
    BY <2>1 DEF Triage!Fix, FixRecords, IndexNames, Triage!FixKinds
  <2>6. \A n \in DOMAIN rows : rows[n] \in Candidates BY <2>2 DEF Elements
  <2>7. Triage!Drops \in [1 .. Len(rows) -> FixRecords] BY <2>3, <2>4, <2>5, <2>6
  <2>8. Triage!Drops \in Seq(FixRecords) BY <2>4, <2>7
  <2>9. Elements(Triage!Drops) = {Triage!Fix("drop-index", r.index) : r \in Candidates}
    <3>1. DOMAIN Triage!Drops = DOMAIN rows
          /\ \A n \in DOMAIN rows : Triage!Drops[n] = Triage!Fix("drop-index", rows[n].index)
      BY <2>3
    <3>2. \A r \in Candidates : \E n \in DOMAIN rows : rows[n] = r BY <2>2 DEF Elements
    <3>3. QED BY <2>6, <3>1, <3>2 DEF Elements
  <2>10. QED BY <2>8, <2>9
<1>6. QED BY <1>3, <1>4, <1>5

(* The fixes of the indexes, and of the statistics.                        *)
IndexFixed ==
  (IF Triage!Collapsed THEN {Triage!Fix("rebuild-all", All)}
   ELSE {Triage!Fix(r.wear, r.index) : r \in Maintenance})
  \union {Triage!Fix("drop-index", r.index) : r \in Candidates}

StatsFixed == Elements(Triage!StatsFixes(Triage!Stale))

LEMMA IndexesFixed ==
  ASSUME TriageInv
  PROVE  Triage!IndexFixes \in Seq(FixRecords) /\ Elements(Triage!IndexFixes) = IndexFixed
<1> DEFINE one == <<Triage!Fix("rebuild-all", All)>>
           many == [n \in DOMAIN Triage!Maintained |->
                      Triage!Fix(Triage!Maintained[n].wear, Triage!Maintained[n].index)]
           dropped == {Triage!Fix("drop-index", r.index) : r \in Candidates}
<1>1. Triage!Drops \in Seq(FixRecords) /\ Elements(Triage!Drops) = dropped BY Lists
<1>2. one \in Seq(FixRecords) /\ Elements(one) = {Triage!Fix("rebuild-all", All)}
  BY DEF Elements, Triage!Fix, FixRecords, Triage!FixKinds
<1>3. many \in Seq(FixRecords)
      /\ Elements(many) = {Triage!Fix(r.wear, r.index) : r \in Maintenance}
  <2> DEFINE rows == Triage!Maintained
  <2>1. rows \in Seq(Maintenance) /\ Elements(rows) = Maintenance BY Lists
  <2>2. DOMAIN many = DOMAIN rows
        /\ \A n \in DOMAIN rows : many[n] = Triage!Fix(rows[n].wear, rows[n].index)
    OBVIOUS
  <2> HIDE DEF rows, many
  <2>3. DOMAIN rows = 1 .. Len(rows) /\ Len(rows) \in Nat BY <2>1, LenProperties
  <2>4. \A r \in Maintenance : Triage!Fix(r.wear, r.index) \in FixRecords
    <3>1. \A r \in Triage!Rows : r.wear \in Triage!Wear BY ScanFacts
    <3>2. QED BY <3>1
            DEF Triage!Fix, FixRecords, IndexNames, Triage!FixKinds, Triage!Wear, Maintenance
  <2>5. \A n \in DOMAIN rows : rows[n] \in Maintenance BY <2>1 DEF Elements
  <2>6. many = [n \in DOMAIN rows |-> Triage!Fix(rows[n].wear, rows[n].index)] BY DEF many, rows
  <2>7. many \in [1 .. Len(rows) -> FixRecords] BY <2>3, <2>4, <2>5, <2>6
  <2>8. many \in Seq(FixRecords) BY <2>3, <2>7
  <2>9. \A r \in Maintenance : \E n \in DOMAIN rows : rows[n] = r BY <2>1 DEF Elements
  <2>10. QED BY <2>2, <2>5, <2>8, <2>9 DEF Elements
<1>4. Triage!IndexFixes = IF Triage!Collapsed THEN one \o Triage!Drops ELSE many \o Triage!Drops
  BY Zenon DEF Triage!IndexFixes
<1> HIDE DEF one, many, dropped
<1>5. CASE Triage!Collapsed
  <2>1. one \o Triage!Drops \in Seq(FixRecords)
        /\ Elements(one \o Triage!Drops) = Elements(one) \union Elements(Triage!Drops)
    BY <1>1, <1>2, ConcatElements
  <2>2. QED BY <1>1, <1>2, <1>4, <1>5, <2>1 DEF IndexFixed, dropped
<1>6. CASE ~Triage!Collapsed
  <2>1. many \o Triage!Drops \in Seq(FixRecords)
        /\ Elements(many \o Triage!Drops) = Elements(many) \union Elements(Triage!Drops)
    BY <1>1, <1>3, ConcatElements
  <2>2. QED BY <1>1, <1>3, <1>4, <1>6, <2>1 DEF IndexFixed, dropped
<1>7. QED BY <1>5, <1>6

(* A statistics is stale after the fixes of the indexes unless one of them *)
(* rebuilds its index.                                                     *)
LEMMA StatisticsFixed ==
  ASSUME TriageInv
  PROVE  /\ Triage!StatsFixes(Triage!Stale) \in Seq(FixRecords)
         /\ \A f \in StatsFixed : f.kind \in {"update-stats", "update-all-stats"}
         /\ ~Triage!Collapsed => \A s \in Triage!StaleNames :
              \/ \E r \in Needs : r.index = s
              \/ \E f \in StatsFixed : f.index \in {s, All}
<1> DEFINE kept == {s \in Triage!StaleNames :
                      \A n \in DOMAIN Triage!Rebuilt : Triage!Rebuilt[n].index # s}
           names == Triage!Stale
<1>1. scan.stale \in Seq(Triage!StaleNames) /\ Elements(scan.stale) = Triage!StaleNames
  BY ScanFacts
<1>2. names \in Seq(Triage!StaleNames) /\ (~Triage!Collapsed => Elements(names) = kept)
  <2>1. CASE Triage!Collapsed
    <3>1. names = <<>> BY <2>1 DEF Triage!Stale
    <3>2. QED BY <2>1, <3>1
  <2>2. CASE ~Triage!Collapsed
    <3>1. names = Filter(scan.stale, kept) BY <2>2, TriageFilter DEF Triage!Stale
    <3>2. /\ names \in Seq(Triage!StaleNames \intersect kept)
          /\ Elements(names) = Triage!StaleNames \intersect kept
      BY <1>1, <3>1, FilterPlaces, FilterElements
    <3>3. Triage!StaleNames \intersect kept = kept OBVIOUS
    <3>4. kept \subseteq Triage!StaleNames OBVIOUS
    <3> HIDE DEF kept, names
    <3>5. QED BY <3>2, <3>3, <3>4
  <2>3. QED BY <2>1, <2>2
<1>3. \A s \in Triage!StaleNames : s \in kept \/ \E r \in Needs : r.index = s
  <2>1. Triage!Rebuilt \in Seq(Needs) BY Lists
  <2>2. \A n \in DOMAIN Triage!Rebuilt : Triage!Rebuilt[n] \in Needs BY <2>1
  <2>3. QED BY <2>2
<1> DEFINE S == Triage!StatsFixes(names)
<1>4. S = CASE names = <<>> -> <<>>
            [] Len(names) = 1 -> <<Triage!Fix("update-stats", names[1])>>
            [] OTHER -> <<Triage!Fix("update-all-stats", All)>>
  BY DEF Triage!StatsFixes
<1> HIDE DEF names, S, kept
<1>5. CASE names = <<>>
  <2>1. S = <<>> BY <1>4, <1>5
  <2>2. S \in Seq(FixRecords) /\ Elements(S) = {} /\ Elements(names) = {}
    BY <1>5, <2>1 DEF Elements
  <2>3. QED BY <1>2, <1>3, <2>2 DEF StatsFixed, S, names
<1>6. CASE names # <<>> /\ Len(names) = 1
  <2>1. S = <<Triage!Fix("update-stats", names[1])>> BY <1>4, <1>6
  <2>2. DOMAIN names = {1} /\ names[1] \in Triage!StaleNames BY <1>2, <1>6
  <2>3. Elements(names) = {names[1]} BY <2>2 DEF Elements
  <2>4. Triage!Fix("update-stats", names[1]) \in FixRecords
    BY <2>2 DEF Triage!Fix, FixRecords, Triage!FixKinds
  <2>5. S \in Seq(FixRecords) /\ Elements(S) = {Triage!Fix("update-stats", names[1])}
    BY <2>1, <2>4 DEF Elements
  <2>6. /\ Triage!Fix("update-stats", names[1]).kind = "update-stats"
        /\ Triage!Fix("update-stats", names[1]).index = names[1]
    BY DEF Triage!Fix
  <2>7. StatsFixed = Elements(S) BY DEF StatsFixed, S, names
  <2>8. S = Triage!StatsFixes(Triage!Stale) BY DEF S, names
  <2>9. QED BY <1>2, <1>3, <2>3, <2>5, <2>6, <2>7, <2>8
<1>7. CASE names # <<>> /\ Len(names) # 1
  <2>1. S = <<Triage!Fix("update-all-stats", All)>> BY <1>4, <1>7
  <2>2. Triage!Fix("update-all-stats", All) \in FixRecords
    BY DEF Triage!Fix, FixRecords, Triage!FixKinds
  <2>3. S \in Seq(FixRecords) /\ Elements(S) = {Triage!Fix("update-all-stats", All)}
    BY <2>1, <2>2 DEF Elements
  <2>4. /\ Triage!Fix("update-all-stats", All).kind = "update-all-stats"
        /\ Triage!Fix("update-all-stats", All).index = All
    BY DEF Triage!Fix
  <2>5. StatsFixed = Elements(S) BY DEF StatsFixed, S, names
  <2>6. S = Triage!StatsFixes(Triage!Stale) BY DEF S, names
  <2>7. QED BY <2>3, <2>4, <2>5, <2>6
<1>8. QED BY <1>5, <1>6, <1>7

LEMMA FixesOfATriage ==
  ASSUME TriageInv, triaged
  PROVE  /\ \A n \in DOMAIN fixes : fixes[n] \in FixRecords
         /\ Elements(fixes) = IndexFixed \union StatsFixed
<1> DEFINE I == Triage!IndexFixes
           S == Triage!StatsFixes(Triage!Stale)
<1>1. I \in Seq(FixRecords) /\ Elements(I) = IndexFixed BY IndexesFixed
<1>2. S \in Seq(FixRecords) /\ Elements(S) = StatsFixed BY StatisticsFixed DEF StatsFixed
<1>3. Recommends = I \o S BY DEF Recommends
<1>4. fixes = Triage!OrderFixes(Recommends) BY DEF TriageInv
<1> HIDE DEF I, S
<1>5. /\ Recommends \in Seq(FixRecords)
      /\ Elements(Recommends) = IndexFixed \union StatsFixed
  BY <1>1, <1>2, <1>3, ConcatElements
<1>6. Elements(fixes) = Elements(Recommends) BY <1>4, <1>5, OrderKeepsFixes DEF FixRecords
<1>7. \A n \in DOMAIN Recommends : Recommends[n] \in FixRecords BY <1>5
<1>8. Elements(Recommends) \subseteq FixRecords BY <1>7 DEF Elements
<1>9. QED BY <1>5, <1>6, <1>8 DEF Elements

LEMMA WhatIsRecommended ==
  ASSUME TriageInv, triaged, NEW kinds, NEW index
  PROVE  Triage!Recommended(kinds, index) <=>
           \E f \in IndexFixed \union StatsFixed : f.kind \in kinds /\ f.index \in {index, All}
<1>1. \A f : f \in IndexFixed \union StatsFixed <=> \E n \in DOMAIN fixes : fixes[n] = f
  BY FixesOfATriage DEF Elements
<1>2. QED BY <1>1 DEF Triage!Recommended

(* All rows of an index are dropped, or none.                              *)
LEMMA DroppedRows ==
  ASSUME TriageInv, NEW row \in Triage!Rows
  PROVE  Triage!Dropped(row) <=> triaged /\ Triage!DropCandidate(row)
<1>1. CASE ~triaged
  <2>1. fixes = <<>> BY <1>1 DEF TriageInv
  <2>2. DOMAIN fixes = {} BY <2>1
  <2>3. ~Triage!Dropped(row) BY <2>2 DEF Triage!Dropped, Triage!Recommended
  <2>4. QED BY <1>1, <2>3
<1>2. CASE triaged
  <2>1. Triage!Dropped(row) <=>
          \E f \in IndexFixed \union StatsFixed :
            f.kind \in {"drop-index"} /\ f.index \in {row.index, All}
    BY <1>2, WhatIsRecommended DEF Triage!Dropped
  <2>2. ASSUME NEW f \in IndexFixed \union StatsFixed,
               f.kind \in {"drop-index"}, f.index \in {row.index, All}
        PROVE  Triage!DropCandidate(row)
    <3>1. f \in IndexFixed BY <2>2, StatisticsFixed
    <3>2. \A r \in Maintenance : r.wear \in Triage!Wear BY ScanFacts DEF Maintenance
    <3>3. PICK r \in Candidates : f = Triage!Fix("drop-index", r.index)
      BY <2>2, <3>1, <3>2 DEF IndexFixed, Triage!Fix, Triage!Wear
    <3>4. r \in Triage!Rows /\ Triage!DropCandidate(r) BY DEF Candidates
    <3>5. r.index = row.index
      <4>1. f.index = r.index BY <3>3 DEF Triage!Fix
      <4>2. r.index # All BY <3>4, ScanFacts
      <4>3. QED BY <2>2, <4>1, <4>2
    <3>6. r.key = row.key /\ r.essential = row.essential /\ r.read = row.read
      BY <3>4, <3>5, ScanFacts
    <3>7. QED BY <3>4, <3>6 DEF Triage!DropCandidate, Triage!Droppable, Triage!Redundant
  <2>3. ASSUME Triage!DropCandidate(row) PROVE Triage!Dropped(row)
    <3>1. row \in Candidates BY <2>3 DEF Candidates
    <3>2. Triage!Fix("drop-index", row.index) \in IndexFixed BY <3>1 DEF IndexFixed
    <3>3. /\ Triage!Fix("drop-index", row.index).kind = "drop-index"
          /\ Triage!Fix("drop-index", row.index).index = row.index
      BY DEF Triage!Fix
    <3>4. QED BY <2>1, <3>2, <3>3
  <2>4. QED BY <1>2, <2>1, <2>2, <2>3
<1>3. QED BY <1>1, <1>2

LEMMA NeedsAreMet ==
  ASSUME TriageInv
  PROVE  Triage!UnmetNeedIsOfAColumn
<1> SUFFICES ASSUME triaged
             PROVE  /\ \A row \in Triage!Rows : ~Triage!Dropped(row) =>
                         /\ row.wear = "rebuild" =>
                              Triage!Recommended({"rebuild", "rebuild-all"}, row.index)
                         /\ row.wear = "reorganize" =>
                              Triage!Recommended({"reorganize", "rebuild", "rebuild-all"}, row.index)
                    /\ \A s \in Triage!StaleNames :
                         \/ Triage!Recommended({"update-stats", "update-all-stats"}, s)
                         \/ /\ s \in Triage!IndexNames
                            /\ Triage!Recommended({"rebuild", "rebuild-all"}, s)
                         \/ /\ s \notin Triage!IndexNames
                            /\ Triage!Recommended({"rebuild-all"}, All)
  BY DEF Triage!UnmetNeedIsOfAColumn
<1>1. ASSUME NEW kinds, NEW f \in IndexFixed \union StatsFixed, NEW index,
             f.kind \in kinds, f.index \in {index, All}
      PROVE  Triage!Recommended(kinds, index)
  BY <1>1, WhatIsRecommended
<1>2. ASSUME Triage!Collapsed
      PROVE  \E f \in IndexFixed : f.kind = "rebuild-all" /\ f.index = All
  <2>1. Triage!Fix("rebuild-all", All) \in IndexFixed BY <1>2 DEF IndexFixed
  <2>2. /\ Triage!Fix("rebuild-all", All).kind = "rebuild-all"
        /\ Triage!Fix("rebuild-all", All).index = All
    BY DEF Triage!Fix
  <2>3. QED BY <2>1, <2>2
<1>3. ASSUME ~Triage!Collapsed, NEW r \in Maintenance
      PROVE  \E f \in IndexFixed : f.kind = r.wear /\ f.index = r.index
  <2>1. Triage!Fix(r.wear, r.index) \in IndexFixed BY <1>3 DEF IndexFixed
  <2>2. /\ Triage!Fix(r.wear, r.index).kind = r.wear
        /\ Triage!Fix(r.wear, r.index).index = r.index
    BY DEF Triage!Fix
  <2>3. QED BY <2>1, <2>2
<1>4. ASSUME NEW row \in Triage!Rows, ~Triage!Dropped(row), row.wear # "none"
      PROVE  \E f \in IndexFixed : f.kind \in {row.wear, "rebuild-all"} /\ f.index \in {row.index, All}
  <2>1. row \in Maintenance BY <1>4, DroppedRows DEF Maintenance
  <2>2. QED BY <1>2, <1>3, <2>1
<1>5. ASSUME NEW row \in Triage!Rows, ~Triage!Dropped(row), row.wear = "rebuild"
      PROVE  Triage!Recommended({"rebuild", "rebuild-all"}, row.index)
  BY <1>1, <1>4, <1>5
<1>6. ASSUME NEW row \in Triage!Rows, ~Triage!Dropped(row), row.wear = "reorganize"
      PROVE  Triage!Recommended({"reorganize", "rebuild", "rebuild-all"}, row.index)
  <2>1. PICK f \in IndexFixed : /\ f.kind \in {"reorganize", "rebuild-all"}
                                /\ f.index \in {row.index, All}
    BY <1>4, <1>6
  <2>2. f.kind \in {"reorganize", "rebuild", "rebuild-all"} BY <2>1
  <2>3. QED BY <1>1, <2>1, <2>2
<1>7. ASSUME NEW s \in Triage!StaleNames
      PROVE  \/ Triage!Recommended({"update-stats", "update-all-stats"}, s)
             \/ s \in Triage!IndexNames /\ Triage!Recommended({"rebuild", "rebuild-all"}, s)
             \/ s \notin Triage!IndexNames /\ Triage!Recommended({"rebuild-all"}, All)
  <2>1. CASE Triage!Collapsed
    <3>1. PICK f \in IndexFixed : f.kind = "rebuild-all" /\ f.index = All BY <1>2, <2>1
    <3>2. Triage!Recommended({"rebuild", "rebuild-all"}, s) BY <1>1, <3>1
    <3>3. Triage!Recommended({"rebuild-all"}, All) BY <1>1, <3>1
    <3>4. QED BY <3>2, <3>3
  <2>2. CASE ~Triage!Collapsed /\ \E r \in Needs : r.index = s
    <3>1. PICK r \in Needs : r.index = s BY <2>2
    <3>2. r \in Maintenance /\ r.wear = "rebuild" BY DEF Needs
    <3>3. PICK f \in IndexFixed : f.kind = "rebuild" /\ f.index = s
      BY <1>3, <2>2, <3>1, <3>2
    <3>4. Triage!Recommended({"rebuild", "rebuild-all"}, s) BY <1>1, <3>3
    <3>5. s \in Triage!IndexNames BY <3>1, <3>2 DEF Maintenance, Triage!IndexNames
    <3>6. QED BY <3>4, <3>5
  <2>3. CASE ~Triage!Collapsed /\ \E f \in StatsFixed : f.index \in {s, All}
    <3>1. PICK f \in StatsFixed : f.index \in {s, All} BY <2>3
    <3>2. f.kind \in {"update-stats", "update-all-stats"} BY StatisticsFixed
    <3>3. QED BY <1>1, <3>1, <3>2
  <2>4. QED BY <2>1, <2>2, <2>3, StatisticsFixed
<1>8. QED BY <1>5, <1>6, <1>7

(* To be the beginning of another key is a strict partial order.           *)
LEMMA KeyPrefixes ==
  ASSUME NEW a, NEW b, NEW c, Triage!IsList(a), Triage!IsList(b), Triage!IsList(c)
  PROVE  /\ ~Triage!IsKeyPrefix(a, a)
         /\ Triage!IsKeyPrefix(a, b) /\ Triage!IsKeyPrefix(b, c) => Triage!IsKeyPrefix(a, c)
<1>1. /\ Len(a) \in Nat /\ DOMAIN a = 1 .. Len(a)
      /\ Len(b) \in Nat /\ DOMAIN b = 1 .. Len(b)
      /\ Len(c) \in Nat /\ DOMAIN c = 1 .. Len(c)
  BY LenProperties DEF Triage!IsList
<1>2. QED BY <1>1 DEF Triage!IsKeyPrefix

(* Of the indexes whose keys begin with that of a dropped one, the one     *)
(* with the fewest of that kind itself is not redundant.                   *)
LEMMA SubstituteStays ==
  ASSUME TriageInv
  PROVE  Triage!UsedIndexHasSubstitute
<1> SUFFICES ASSUME NEW row \in Triage!Rows, Triage!Dropped(row)
             PROVE  /\ ~row.essential
                    /\ row.read => \E other \in Triage!Rows :
                         /\ Triage!IsKeyPrefix(row.key, other.key)
                         /\ ~Triage!Dropped(other) \/ ~other.read
  BY DEF Triage!UsedIndexHasSubstitute
<1>1. Triage!DropCandidate(row) BY DroppedRows
<1>2. ~row.essential BY <1>1 DEF Triage!DropCandidate, Triage!Droppable
<1>3. ASSUME row.read
      PROVE  \E other \in Triage!Rows : /\ Triage!IsKeyPrefix(row.key, other.key)
                                        /\ ~Triage!Dropped(other) \/ ~other.read
  <2> DEFINE longer(r) == {o \in Triage!Rows : Triage!IsKeyPrefix(r.key, o.key)}
             sizes == {Cardinality(longer(r)) : r \in longer(row)}
  <2>1. IsFiniteSet(Triage!Rows) /\ \A r \in Triage!Rows : Triage!IsList(r.key) BY ScanFacts
  <2>2. \A r \in Triage!Rows : IsFiniteSet(longer(r)) BY <2>1, FS_Subset
  <2>3. \A r \in Triage!Rows : Cardinality(longer(r)) \in Nat BY <2>2, FS_CardinalityType
  <2>4. longer(row) # {} BY <1>1, <1>3 DEF Triage!DropCandidate, Triage!Redundant
  <2>5. sizes # {} BY <2>4
  <2>6. sizes \subseteq Nat BY <2>3
  <2> HIDE DEF sizes
  <2>7. PICK least \in sizes : \A s \in sizes : ~(<<s, least>> \in OpToRel(<, Nat))
    BY <2>5, <2>6, NatLessThanWellFounded, WFMin
  <2>8. PICK other \in longer(row) : Cardinality(longer(other)) = least BY DEF sizes
  <2>9. \A r \in longer(row) : Cardinality(longer(other)) <= Cardinality(longer(r))
    <3> SUFFICES ASSUME NEW r \in longer(row)
                 PROVE  Cardinality(longer(other)) <= Cardinality(longer(r))
      OBVIOUS
    <3>1. Cardinality(longer(r)) \in sizes BY DEF sizes
    <3>2. ~(<<Cardinality(longer(r)), least>> \in OpToRel(<, Nat)) BY <2>7, <3>1
    <3>3. Cardinality(longer(r)) \in Nat /\ least \in Nat BY <2>6, <3>1
    <3> HIDE DEF longer
    <3>4. QED BY <2>8, <3>2, <3>3 DEF OpToRel
  <2>10. ~Triage!Redundant(other)
    <3> SUFFICES ASSUME NEW o \in Triage!Rows, Triage!IsKeyPrefix(other.key, o.key)
                 PROVE  FALSE
      BY DEF Triage!Redundant
    <3>1. o \in longer(row) BY <2>1, KeyPrefixes
    <3>2. longer(o) \subseteq longer(other) BY <2>1, KeyPrefixes
    <3>3. o \in longer(other) /\ o \notin longer(o) BY <2>1, KeyPrefixes
    <3>4. IsFiniteSet(longer(other)) BY <2>2
    <3>5. Cardinality(longer(o)) <= Cardinality(longer(other)) BY <3>2, <3>4, FS_Subset
    <3>6. Cardinality(longer(o)) # Cardinality(longer(other)) BY <3>2, <3>3, <3>4, FS_Subset
    <3>7. Cardinality(longer(other)) <= Cardinality(longer(o)) BY <2>9, <3>1
    <3>8. Cardinality(longer(o)) \in Nat /\ Cardinality(longer(other)) \in Nat BY <2>3
    <3> HIDE DEF longer
    <3>9. QED BY <3>5, <3>6, <3>7, <3>8
  <2>11. ~Triage!Dropped(other) \/ ~other.read
    BY <2>10, DroppedRows DEF Triage!DropCandidate
  <2>12. QED BY <2>11
<1>4. QED BY <1>2, <1>3

LEMMA TriageIsTyped ==
  ASSUME TriageInv
  PROVE  Triage!TypeOK
<1>1. scan \in Scans BY DEF TriageInv
<1>2. Triage!IsScan(scan) BY <1>1, PartsAssumption DEF Triage!TriageAssumption
<1>3. \A n \in DOMAIN fixes : fixes[n] \in FixRecords
  <2>1. CASE triaged BY <2>1, FixesOfATriage
  <2>2. CASE ~triaged
    <3>1. fixes = <<>> BY <2>2 DEF TriageInv
    <3>2. QED BY <3>1
  <2>3. QED BY <2>1, <2>2
<1>4. QED BY <1>2, <1>3 DEF Triage!TypeOK, TriageInv, FixRecords, IndexNames

-----------------------------------------------------------------------------
(* The console of the sql-server plugin.  The entries of the history are   *)
(* the statements that were run, each where it was run last, and none is   *)
(* missing but older ones of a full history.                               *)
FirstOf(q) == {n \in DOMAIN q : \A k \in 1 .. n - 1 : q[k] # q[n]}

HistoryAt(h, r, p) ==
  /\ Len(h) <= MaxHistory
  /\ p \in [1 .. Len(h) -> FirstOf(r)]
  /\ \A i \in 1 .. Len(h) : h[i] = r[p[i]]
  /\ \A i, j \in 1 .. Len(h) : i < j => p[i] < p[j]
  /\ \A n \in FirstOf(r) :
       \/ \E i \in 1 .. Len(h) : p[i] = n
       \/ Len(h) = MaxHistory /\ \A i \in 1 .. Len(h) : p[i] < n

LEMMA ConsoleFilter == \A s, S : Console!Filter(s, S) = Filter(s, S)
BY Zenon DEF Console!Filter, Filter, Console!Cardinality, Cardinality

LEMMA ConsoleCardinality == \A S : Console!Cardinality(S) = Cardinality(S)
BY DEF Console!Cardinality, Cardinality

LEMMA HistoryDiffers ==
  ASSUME NEW h, NEW r, NEW p, HistoryAt(h, r, p), Len(h) \in Nat, Len(r) \in Nat,
         DOMAIN r = 1 .. Len(r)
  PROVE  \A i, j \in 1 .. Len(h) : h[i] = h[j] => i = j
<1> SUFFICES ASSUME NEW i \in 1 .. Len(h), NEW j \in 1 .. Len(h), i < j PROVE h[i] # h[j]
  OBVIOUS
<1>1. p[i] < p[j] /\ h[i] = r[p[i]] /\ h[j] = r[p[j]] BY DEF HistoryAt
<1>2. p[i] \in FirstOf(r) /\ p[j] \in FirstOf(r) BY DEF HistoryAt
<1>3. /\ p[i] \in 1 .. Len(r) /\ p[j] \in 1 .. Len(r)
      /\ \A k \in 1 .. p[j] - 1 : r[k] # r[p[j]]
  BY <1>2 DEF FirstOf
<1>4. p[i] \in 1 .. p[j] - 1 BY <1>1, <1>3
<1>5. QED BY <1>1, <1>3, <1>4

(* saveToHistory                                                           *)
Longest(s) == IF Len(s) < MaxHistory THEN Len(s) ELSE MaxHistory

IsPrepended(s, q, f) ==
  /\ Len(s) = Len(f) + 1
  /\ s[1] = q /\ \A k \in 1 .. Len(f) : s[k + 1] = f[k]

LEMMA HistoryOfSave ==
  ASSUME NEW K, NEW h \in Seq(K), NEW r \in Seq(K), NEW q \in K, NEW p, HistoryAt(h, r, p),
         MaxHistory \in Nat,
         NEW s \in Seq(K), IsPrepended(s, q, Filter(h, K \ {q})),
         NEW r2 \in Seq(K), IsPrepended(r2, q, r),
         NEW h2 \in Seq(K), Len(h2) = Longest(s), \A i \in 1 .. Longest(s) : h2[i] = s[i]
  PROVE  \E p2 : HistoryAt(h2, r2, p2)
<1> DEFINE f == Filter(h, K \ {q})
           L == Len(f)
<1>1. /\ f \in Seq(K \intersect (K \ {q})) /\ Len(h) \in Nat /\ L \in Nat
      /\ \E g \in [1 .. L -> {n \in 1 .. Len(h) : h[n] \in K \ {q}}] :
           /\ \A k \in 1 .. L : f[k] = h[g[k]]
           /\ \A n \in 1 .. Len(h) : h[n] \in K \ {q} => \E k \in 1 .. L : g[k] = n
           /\ \A k, m \in 1 .. L : k < m => g[k] < g[m]
  BY FilterPlaces
<1>2. PICK g \in [1 .. L -> {n \in 1 .. Len(h) : h[n] \in K \ {q}}] :
           /\ \A k \in 1 .. L : f[k] = h[g[k]]
           /\ \A n \in 1 .. Len(h) : h[n] \in K \ {q} => \E k \in 1 .. L : g[k] = n
           /\ \A k, m \in 1 .. L : k < m => g[k] < g[m]
  BY <1>1
<1>3. Len(r) \in Nat /\ DOMAIN r = 1 .. Len(r) BY LenProperties
<1>4. L >= Len(h) - 1
  <2>1. \A i, j \in 1 .. Len(h) : h[i] = h[j] => i = j BY <1>1, <1>3, HistoryDiffers
  <2>2. QED BY <2>1, OneFilteredOut
<1>5. f \in Seq(K) BY <1>1
<1> HIDE DEF f
<1>7. Len(s) = L + 1 /\ s[1] = q /\ \A k \in 1 .. L : s[k + 1] = f[k]
  BY DEF IsPrepended, f
<1>8. /\ Len(r2) = Len(r) + 1 /\ DOMAIN r2 = 1 .. Len(r) + 1
      /\ r2[1] = q /\ \A n \in 1 .. Len(r) : r2[n + 1] = r[n]
  <2>1. DOMAIN r2 = 1 .. Len(r2) BY LenProperties
  <2>2. QED BY <2>1 DEF IsPrepended
<1> DEFINE M == Longest(s)
<1>9. /\ M \in Nat /\ M <= L + 1 /\ M <= MaxHistory
      /\ M = L + 1 \/ M = MaxHistory
  BY <1>1, <1>7 DEF Longest
<1> HIDE DEF L, M
<1>10. Len(h2) = M /\ \A i \in 1 .. M : h2[i] = s[i] BY DEF M
<1> DEFINE p2 == [i \in 1 .. M |-> IF i = 1 THEN 1 ELSE p[g[i - 1]] + 1]
<1>11. ASSUME NEW k \in 1 .. L
       PROVE  /\ g[k] \in 1 .. Len(h) /\ h[g[k]] \in K \ {q}
              /\ p[g[k]] \in 1 .. Len(r) /\ p[g[k]] \in FirstOf(r) /\ r[p[g[k]]] = h[g[k]]
  <2>1. g[k] \in 1 .. Len(h) /\ h[g[k]] \in K \ {q} BY <1>2
  <2>2. p[g[k]] \in FirstOf(r) /\ r[p[g[k]]] = h[g[k]] BY <2>1 DEF HistoryAt
  <2>3. QED BY <1>3, <2>1, <2>2 DEF FirstOf
<1>12. ASSUME NEW i \in 1 .. M, i # 1 PROVE i - 1 \in 1 .. L BY <1>1, <1>9, <1>12
<1>13. ASSUME NEW n \in FirstOf(r), r[n] # q
       PROVE  n \in 1 .. Len(r) /\ n + 1 \in FirstOf(r2)
  <2>1. n \in 1 .. Len(r) /\ \A k \in 1 .. n - 1 : r[k] # r[n] BY <1>3 DEF FirstOf
  <2>2. n + 1 \in DOMAIN r2 /\ r2[n + 1] = r[n] BY <1>3, <1>8, <2>1
  <2>3. ASSUME NEW k \in 1 .. n PROVE r2[k] # r[n]
    <3>1. CASE k = 1 BY <1>8, <1>13, <3>1
    <3>2. CASE k # 1
      <4>1. k - 1 \in 1 .. n - 1 /\ k - 1 \in 1 .. Len(r) /\ (k - 1) + 1 = k BY <1>3, <2>1, <3>2
      <4>2. r2[k] = r[k - 1] BY <1>8, <4>1
      <4>3. QED BY <2>1, <4>1, <4>2
    <3>3. QED BY <3>1, <3>2
  <2>4. (n + 1) - 1 = n BY <1>3, <2>1
  <2>5. QED BY <2>1, <2>2, <2>3, <2>4 DEF FirstOf
<1>14. ASSUME NEW n \in FirstOf(r2)
       PROVE  n = 1 \/ (n \in Nat /\ n - 1 \in FirstOf(r) /\ r[n - 1] # q)
  <2>1. n \in 1 .. Len(r) + 1 /\ \A k \in 1 .. n - 1 : r2[k] # r2[n] BY <1>8 DEF FirstOf
  <2>2. CASE n # 1
    <3>1. n - 1 \in 1 .. Len(r) /\ (n - 1) + 1 = n BY <1>3, <2>1, <2>2
    <3>2. r2[n] = r[n - 1] BY <1>8, <3>1
    <3>3. r[n - 1] # q
      <4>1. 1 \in 1 .. n - 1 BY <1>3, <2>1, <2>2
      <4>2. QED BY <1>8, <2>1, <3>2, <4>1
    <3>4. ASSUME NEW k \in 1 .. (n - 1) - 1 PROVE r[k] # r[n - 1]
      <4>1. k \in 1 .. Len(r) /\ k + 1 \in 1 .. n - 1 BY <1>3, <3>1
      <4>2. r2[k + 1] = r[k] BY <1>8, <4>1
      <4>3. QED BY <2>1, <3>2, <4>1, <4>2
    <3>5. QED BY <1>3, <2>1, <3>1, <3>3, <3>4 DEF FirstOf
  <2>3. QED BY <2>2
<1>15. p2 \in [1 .. M -> FirstOf(r2)]
  <2>1. 1 \in FirstOf(r2) BY <1>3, <1>8 DEF FirstOf
  <2>2. ASSUME NEW i \in 1 .. M, i # 1 PROVE p[g[i - 1]] + 1 \in FirstOf(r2)
    <3>1. i - 1 \in 1 .. L BY <1>12, <2>2
    <3>2. QED BY <1>11, <1>13, <3>1
  <2>3. QED BY <2>1, <2>2
<1>16. ASSUME NEW i \in 1 .. M PROVE h2[i] = r2[p2[i]]
  <2>1. CASE i = 1 BY <1>7, <1>8, <1>10, <2>1
  <2>2. CASE i # 1
    <3>1. i - 1 \in 1 .. L /\ (i - 1) + 1 = i BY <1>9, <1>12, <2>2
    <3>2. h2[i] = f[i - 1] BY <1>7, <1>10, <3>1
    <3>3. f[i - 1] = h[g[i - 1]] BY <1>2, <3>1
    <3>4. p2[i] = p[g[i - 1]] + 1 BY <2>2
    <3>5. r2[p2[i]] = r[p[g[i - 1]]] BY <1>8, <1>11, <3>1, <3>4
    <3>6. QED BY <1>11, <3>1, <3>2, <3>3, <3>5
  <2>3. QED BY <2>1, <2>2
<1>17. ASSUME NEW i \in 1 .. M, NEW j \in 1 .. M, i < j PROVE p2[i] < p2[j]
  <2>1. j # 1 /\ j - 1 \in 1 .. L BY <1>9, <1>12, <1>17
  <2>2. p2[j] = p[g[j - 1]] + 1 BY <2>1
  <2>3. p[g[j - 1]] \in 1 .. Len(r) BY <1>11, <2>1
  <2>4. CASE i = 1 BY <1>3, <2>2, <2>3, <2>4
  <2>5. CASE i # 1
    <3>1. i - 1 \in 1 .. L /\ i - 1 < j - 1 BY <1>9, <1>12, <1>17, <2>5
    <3>2. p2[i] = p[g[i - 1]] + 1 BY <2>5
    <3>3. g[i - 1] < g[j - 1] BY <1>2, <2>1, <3>1
    <3>4. p[g[i - 1]] < p[g[j - 1]] BY <1>11, <2>1, <3>1, <3>3 DEF HistoryAt
    <3>5. p[g[i - 1]] \in 1 .. Len(r) BY <1>11, <3>1
    <3> HIDE DEF p2
    <3>6. p[g[i - 1]] + 1 < p[g[j - 1]] + 1
      <4>1. \A a, b \in Nat : a < b => a + 1 < b + 1 OBVIOUS
      <4>2. p[g[i - 1]] \in Nat /\ p[g[j - 1]] \in Nat BY <2>3, <3>5
      <4>3. QED BY <3>4, <4>1, <4>2, Zenon
    <3>7. QED BY <2>2, <3>2, <3>6
  <2>6. QED BY <2>4, <2>5
<1>18. ASSUME NEW n \in FirstOf(r2)
       PROVE  \/ \E i \in 1 .. M : p2[i] = n
              \/ M = MaxHistory /\ \A i \in 1 .. M : p2[i] < n
  <2>1. CASE n = 1
    <3>1. CASE M = 0 BY <1>1, <1>9, <3>1
    <3>2. CASE M # 0
      <4>1. 1 \in 1 .. M BY <1>9, <3>2
      <4>2. p2[1] = 1 BY <4>1
      <4>3. QED BY <2>1, <4>1, <4>2
    <3>3. QED BY <3>1, <3>2
  <2>2. CASE n # 1
    <3>1. n \in Nat /\ n - 1 \in FirstOf(r) /\ r[n - 1] # q BY <1>14, <2>2
    <3>2. n - 1 \in 1 .. Len(r) BY <1>3, <3>1 DEF FirstOf
    <3>3. CASE \E i \in 1 .. Len(h) : p[i] = n - 1
      <4>1. PICK i \in 1 .. Len(h) : p[i] = n - 1 BY <3>3
      <4>2. h[i] = r[n - 1] BY <4>1 DEF HistoryAt
      <4>3. h[i] \in K \ {q} BY <3>1, <4>2
      <4>4. PICK k \in 1 .. L : g[k] = i BY <1>2, <4>3
      <4>5. CASE k + 1 <= M
        <5>1. k + 1 \in 1 .. M /\ k + 1 # 1 /\ (k + 1) - 1 = k BY <1>1, <1>9, <4>5
        <5>2. p2[k + 1] = p[g[k]] + 1 BY <5>1
        <5>a. p[g[k]] = n - 1 BY <4>1, <4>4
        <5>b. p[g[k]] + 1 = n BY <3>1, <5>a
        <5>3. p2[k + 1] = n BY <5>2, <5>b
        <5>4. QED BY <5>1, <5>3
      <4>6. CASE ~(k + 1 <= M)
        <5>1. M = MaxHistory BY <1>1, <1>9, <4>6
        <5>2. ASSUME NEW j \in 1 .. M PROVE p2[j] < n
          <6>1. CASE j = 1
            <7>1. p2[j] = 1 BY <6>1
            <7>2. QED BY <1>3, <2>2, <3>1, <3>2, <7>1
          <6>2. CASE j # 1
            <7>1. j - 1 \in 1 .. L /\ j - 1 < k BY <1>1, <1>9, <1>12, <4>6, <6>2
            <7>2. g[j - 1] < g[k] BY <1>2, <7>1
            <7>3. p[g[j - 1]] < p[g[k]] BY <1>11, <7>1, <7>2 DEF HistoryAt
            <7>4. p2[j] = p[g[j - 1]] + 1 BY <6>2
            <7>5. p[g[j - 1]] \in 1 .. Len(r) BY <1>11, <7>1
            <7>6. QED BY <1>3, <3>1, <4>1, <4>4, <7>3, <7>4, <7>5
          <6>3. QED BY <6>1, <6>2
        <5>3. QED BY <5>1, <5>2
      <4>7. QED BY <4>5, <4>6
    <3>4. CASE Len(h) = MaxHistory /\ \A i \in 1 .. Len(h) : p[i] < n - 1
      <4>1. M = MaxHistory BY <1>1, <1>4, <1>9, <3>4
      <4>2. ASSUME NEW j \in 1 .. M PROVE p2[j] < n
        <5>1. CASE j = 1
          <6>1. p2[j] = 1 BY <5>1
          <6>2. QED BY <1>3, <2>2, <3>1, <3>2, <6>1
        <5>2. CASE j # 1
          <6>1. j - 1 \in 1 .. L BY <1>12, <5>2
          <6>2. p2[j] = p[g[j - 1]] + 1 BY <5>2
          <6>3. p[g[j - 1]] < n - 1 BY <1>11, <3>4, <6>1
          <6>4. p[g[j - 1]] \in 1 .. Len(r) BY <1>11, <6>1
          <6>5. QED BY <1>3, <3>1, <6>2, <6>3, <6>4
        <5>3. QED BY <5>1, <5>2
      <4>3. QED BY <4>1, <4>2
    <3>5. QED BY <3>1, <3>3, <3>4 DEF HistoryAt
  <2>3. QED BY <2>1, <2>2
<1> HIDE DEF p2
<1>19. HistoryAt(h2, r2, p2) BY <1>9, <1>10, <1>15, <1>16, <1>17, <1>18 DEF HistoryAt
<1>20. QED BY <1>19

LinkInv ==
  /\ linkRuns \in {0, 1}
  /\ linkRuns = 1 => ~autoRun /\ link # "run"
  /\ autoRun => link # "run"

HistoryInv ==
  /\ Console!TypeOK
  /\ LinkInv
  /\ \E p : HistoryAt(storage, saves, p)

LEMMA HistoryInit == Console!Init => HistoryInv
<1> SUFFICES ASSUME Console!Init PROVE HistoryInv
  OBVIOUS
<1>1. MaxHistory \in Nat /\ MaxSaves \in Nat /\ MaxOpens \in Nat /\ Default \in Statements
  BY PartsAssumption DEF Console!ConsoleAssumption
<1>2. LinkInv BY DEF Console!Init, LinkInv
<1>3. storage = <<>> /\ saves = <<>> BY DEF Console!Init
<1>a. /\ <<>> \in Seq(Statements) /\ Len(<<>>) = 0
      /\ \A m \in Nat : 0 <= m /\ 0 \in 0 .. m
  OBVIOUS
<1>b. Console!TypeOK BY <1>1, <1>3, <1>a DEF Console!Init, Console!TypeOK
<1>4. HistoryAt(storage, saves, [i \in 1 .. 0 |-> 0]) BY <1>1, <1>3 DEF HistoryAt, FirstOf
<1>5. QED BY <1>2, <1>4, <1>b DEF HistoryInv

LEMMA SaveKeepsHistory ==
  ASSUME HistoryInv, NEW q \in Statements, Console!Save(q)
  PROVE  /\ executed' \in 0 .. MaxSaves /\ executed' = executed + 1
         /\ storage' \in Seq(Statements) /\ Len(storage') <= MaxHistory
         /\ saves' \in Seq(Statements) /\ Len(saves') <= executed'
         /\ \E p : HistoryAt(storage', saves', p)
<1> DEFINE f == Filter(storage, Statements \ {q})
           s == <<q>> \o f
           M == Longest(s)
<1>1. MaxHistory \in Nat /\ MaxSaves \in Nat
  BY PartsAssumption DEF Console!ConsoleAssumption
<1>2. /\ storage \in Seq(Statements) /\ saves \in Seq(Statements)
      /\ executed \in 0 .. MaxSaves /\ Len(saves) <= executed
  BY DEF HistoryInv, Console!TypeOK
<1>3. PICK p : HistoryAt(storage, saves, p) BY DEF HistoryInv
<1>4. executed' \in 0 .. MaxSaves /\ executed' = executed + 1
  BY <1>1, <1>2 DEF Console!Save
<1>5. saves' = <<q>> \o saves BY DEF Console!Save
<1>6. storage' = SubSeq(s, 1, M)
  BY ConsoleFilter DEF Console!Save, Console!Saved, Longest
<1>7. f \in Seq(Statements)
  <2>1. f \in Seq(Statements \intersect (Statements \ {q})) BY <1>2, FilterPlaces
  <2>2. QED BY <2>1
<1> HIDE DEF f
<1>8. s \in Seq(Statements) /\ IsPrepended(s, q, f) BY <1>7, Prepended DEF IsPrepended
<1>9. /\ saves' \in Seq(Statements) /\ IsPrepended(saves', q, saves)
      /\ Len(saves') = Len(saves) + 1 /\ Len(saves) \in Nat
  BY <1>2, <1>5, Prepended DEF IsPrepended
<1> HIDE DEF s
<1>10. M \in Nat /\ M <= Len(s) /\ M <= MaxHistory /\ Len(s) \in Nat
  <2>1. Len(s) \in Nat BY <1>8, LenProperties
  <2>2. QED BY <1>1, <2>1 DEF Longest
<1> HIDE DEF M
<1>11. \A i \in 1 .. M : s[i] \in Statements
  <2>1. \A i \in 1 .. Len(s) : s[i] \in Statements BY <1>8
  <2>2. \A i \in 1 .. M : i \in 1 .. Len(s) BY <1>10
  <2>3. QED BY <2>1, <2>2
<1>12. /\ storage' \in Seq(Statements) /\ Len(storage') = M
       /\ \A i \in 1 .. M : storage'[i] = s[i]
  <2>1. \A n \in Nat : (\A i \in 1 .. n : s[i] \in Statements) =>
          /\ SubSeq(s, 1, n) \in Seq(Statements) /\ Len(SubSeq(s, 1, n)) = n
          /\ \A i \in 1 .. n : SubSeq(s, 1, n)[i] = s[i]
    BY Beginning
  <2>2. QED BY <1>6, <1>10, <1>11, <2>1
<1>13. \E p2 : HistoryAt(storage', saves', p2)
  <2>1. M = Longest(s) BY DEF M
  <2>2. IsPrepended(s, q, Filter(storage, Statements \ {q})) BY <1>8 DEF f
  <2>3. QED BY <1>1, <1>2, <1>3, <1>8, <1>9, <1>12, <2>1, <2>2, HistoryOfSave
<1>14. QED BY <1>2, <1>4, <1>9, <1>10, <1>12, <1>13

LEMMA HistoryStep ==
  ASSUME HistoryInv, Console!Next
  PROVE  HistoryInv'
<1>1. MaxHistory \in Nat /\ MaxSaves \in Nat /\ MaxOpens \in Nat
      /\ Default \in Statements /\ Linked \in Statements
  BY PartsAssumption DEF Console!ConsoleAssumption
<1>2. /\ link \in {"none", "seed", "run"} /\ editor \in {"closed", "loading", "ready"}
      /\ statement \in Statements /\ autoRun \in BOOLEAN
      /\ executed \in 0 .. MaxSaves /\ opens \in 0 .. MaxOpens
      /\ cSent \in 0 .. executed /\ cResult \in 0 .. cSent
      /\ storage \in Seq(Statements) /\ Len(storage) <= MaxHistory
      /\ saves \in Seq(Statements) /\ Len(saves) <= executed
  BY DEF HistoryInv, Console!TypeOK
<1>3. LinkInv BY DEF HistoryInv
<1> DEFINE Kept == /\ executed' \in 0 .. MaxSaves
                   /\ storage' \in Seq(Statements) /\ Len(storage') <= MaxHistory
                   /\ saves' \in Seq(Statements) /\ Len(saves') <= executed'
                   /\ \E p : HistoryAt(storage', saves', p)
           Tab == /\ link' \in {"none", "seed", "run"}
                  /\ editor' \in {"closed", "loading", "ready"}
                  /\ statement' \in Statements /\ autoRun' \in BOOLEAN
                  /\ opens' \in 0 .. MaxOpens
                  /\ cSent' \in 0 .. executed' /\ cResult' \in 0 .. cSent'
           Link == /\ linkRuns' \in {0, 1}
                   /\ linkRuns' = 1 => ~autoRun' /\ link' # "run"
                   /\ autoRun' => link' # "run"
<1>4. ASSUME Kept, Tab, Link PROVE HistoryInv'
  BY <1>4 DEF HistoryInv, Console!TypeOK, LinkInv
<1>5. ASSUME UNCHANGED <<storage, saves, executed>> PROVE Kept
  BY <1>2, <1>5 DEF HistoryInv
<1>6. ASSUME NEW q \in Statements, Console!Save(q) PROVE Kept /\ executed' = executed + 1
  BY <1>6, SaveKeepsHistory
<1> HIDE DEF Kept
<1>7. ASSUME Console!Mount, UNCHANGED executed
      PROVE  /\ link' = "none" /\ autoRun' = (link = "run") /\ editor' = "loading"
             /\ statement' \in Statements /\ cSent' = 0 /\ cResult' = 0
  BY <1>1, <1>7 DEF Console!Mount, Console!Stripped
<1>b. ASSUME UNCHANGED executed, cSent' = 0, cResult' = 0
      PROVE  cSent' \in 0 .. executed' /\ cResult' \in 0 .. cSent'
  BY <1>2, <1>b
<1>c. ASSUME Console!Close
      PROVE  /\ editor' \in {"closed", "loading", "ready"} /\ statement' \in Statements
             /\ autoRun' = FALSE /\ cSent' = 0 /\ cResult' = 0
  BY <1>1, <1>c DEF Console!Close
<1>8. ASSUME Console!Load PROVE HistoryInv'
  <2>1. Kept BY <1>5, <1>8 DEF Console!Load
  <2>2. opens' \in 0 .. MaxOpens /\ UNCHANGED <<executed, linkRuns>>
    BY <1>1, <1>2, <1>8 DEF Console!Load
  <2>3. CASE link = "none"
    <3>1. Console!Close /\ UNCHANGED link BY <1>8, <2>3 DEF Console!Load
    <3>2. Tab BY <1>2, <1>b, <1>c, <2>2, <3>1
    <3>3. Link BY <1>3, <2>2, <2>3, <3>1 DEF Console!Close, LinkInv
    <3>4. QED BY <1>4, <2>1, <3>2, <3>3
  <2>4. CASE link # "none"
    <3>1. Console!Mount BY <1>8, <2>4 DEF Console!Load
    <3>2. /\ link' = "none" /\ autoRun' = (link = "run") /\ editor' = "loading"
          /\ statement' \in Statements /\ cSent' = 0 /\ cResult' = 0
      BY <1>7, <2>2, <3>1
    <3>3. Tab BY <1>1, <1>2, <2>2, <3>2
    <3>4. Link BY <1>3, <2>2, <3>2 DEF LinkInv
    <3>5. QED BY <1>4, <2>1, <3>3, <3>4
  <2>5. QED BY <2>3, <2>4
<1>9. ASSUME Console!OpenTab PROVE HistoryInv'
  <2>1. Kept BY <1>5, <1>9 DEF Console!OpenTab
  <2>2. opens' \in 0 .. MaxOpens /\ UNCHANGED <<executed, linkRuns>>
    BY <1>1, <1>2, <1>9 DEF Console!OpenTab
  <2>3. Console!Mount BY <1>9 DEF Console!OpenTab
  <2>4. /\ link' = "none" /\ autoRun' = (link = "run") /\ editor' = "loading"
        /\ statement' \in Statements /\ cSent' = 0 /\ cResult' = 0
    BY <1>7, <2>2, <2>3
  <2>5. Tab BY <1>1, <1>2, <2>2, <2>4
  <2>6. Link BY <1>3, <2>2, <2>4 DEF LinkInv
  <2>7. QED BY <1>4, <2>1, <2>5, <2>6
<1>10. ASSUME Console!LeaveTab PROVE HistoryInv'
  <2>1. Kept BY <1>5, <1>10 DEF Console!LeaveTab
  <2>a. Console!Close /\ UNCHANGED <<link, executed, opens>> BY <1>10 DEF Console!LeaveTab
  <2>2. Tab BY <1>2, <1>b, <1>c, <2>a
  <2>3. Link BY <1>3, <1>10 DEF Console!LeaveTab, Console!Close, LinkInv
  <2>4. QED BY <1>4, <2>1, <2>2, <2>3
<1>11. ASSUME NEW q \in Statements, Console!ExecuteQuery(q)
       PROVE  Kept /\ executed' = executed + 1 /\ cSent' = cSent + 1 /\ cResult' = 0
  BY <1>6, <1>11 DEF Console!ExecuteQuery
<1>a. ASSUME executed' = executed + 1,
             (cSent' = cSent + 1 /\ cResult' = 0) \/ UNCHANGED <<cSent, cResult>>
      PROVE  cSent' \in 0 .. executed' /\ cResult' \in 0 .. cSent'
  BY <1>2, <1>a
<1>12. ASSUME Console!EditorMounts PROVE HistoryInv'
  <2>1. editor' = "ready" /\ autoRun' = FALSE /\ UNCHANGED <<link, statement, opens>>
    BY <1>12 DEF Console!EditorMounts
  <2>2. CASE autoRun
    <3>1. Console!ExecuteQuery(statement) /\ linkRuns' = linkRuns + 1
      BY <1>12, <2>2 DEF Console!EditorMounts
    <3>2. Kept /\ executed' = executed + 1 /\ cSent' = cSent + 1 /\ cResult' = 0
      BY <1>2, <1>11, <3>1
    <3>3. Tab BY <1>2, <1>a, <2>1, <3>2
    <3>4. Link BY <1>3, <2>1, <2>2, <3>1 DEF LinkInv
    <3>5. QED BY <1>4, <3>2, <3>3, <3>4
  <2>3. CASE ~autoRun
    <3>1. UNCHANGED <<storage, saves, cSent, cResult, linkRuns, executed>>
      BY <1>12, <2>3 DEF Console!EditorMounts
    <3>2. Kept BY <1>5, <3>1
    <3>3. Tab BY <1>2, <2>1, <3>1
    <3>4. Link BY <1>3, <2>1, <3>1 DEF LinkInv
    <3>5. QED BY <1>4, <3>2, <3>3, <3>4
  <2>4. QED BY <1>2, <2>2, <2>3
<1>13. ASSUME Console!Run PROVE HistoryInv'
  <2>1. Console!ExecuteQuery(statement) /\ UNCHANGED <<link, editor, statement, autoRun, linkRuns, opens>>
    BY <1>13 DEF Console!Run
  <2>2. Kept /\ executed' = executed + 1 /\ cSent' = cSent + 1 /\ cResult' = 0
    BY <1>2, <1>11, <2>1
  <2>3. Tab BY <1>2, <1>a, <2>1, <2>2
  <2>4. Link BY <1>3, <2>1 DEF LinkInv
  <2>5. QED BY <1>4, <2>2, <2>3, <2>4
<1>14. ASSUME NEW n \in 1 .. cSent, Console!Answer(n) PROVE HistoryInv'
  <2>1. Kept BY <1>5, <1>14 DEF Console!Answer
  <2>2. Tab BY <1>2, <1>14 DEF Console!Answer, Console!Shown
  <2>3. Link BY <1>3, <1>14 DEF Console!Answer, LinkInv
  <2>4. QED BY <1>4, <2>1, <2>2, <2>3
<1>15. ASSUME NEW q \in Statements, Console!SetStatement(q) PROVE HistoryInv'
  <2>1. Kept BY <1>5, <1>15 DEF Console!SetStatement
  <2>2. Tab BY <1>2, <1>15 DEF Console!SetStatement
  <2>3. Link BY <1>3, <1>15 DEF Console!SetStatement, LinkInv
  <2>4. QED BY <1>4, <2>1, <2>2, <2>3
<1>16. ASSUME Console!Clear PROVE HistoryInv'
  <2>1. storage' = <<>> /\ saves' = <<>> /\ UNCHANGED executed BY <1>16 DEF Console!Clear
  <2>2. HistoryAt(<<>>, <<>>, [i \in 1 .. 0 |-> 0]) BY <1>1 DEF HistoryAt, FirstOf
  <2>3. HistoryAt(storage', saves', [i \in 1 .. 0 |-> 0]) BY <2>1, <2>2
  <2>4. Kept BY <1>1, <1>2, <2>1, <2>3 DEF Kept
  <2>5. Tab BY <1>2, <1>16 DEF Console!Clear
  <2>6. Link BY <1>3, <1>16 DEF Console!Clear, LinkInv
  <2>7. QED BY <1>4, <2>4, <2>5, <2>6
<1>17. ASSUME NEW q \in Statements, Console!OtherWindow(q) PROVE HistoryInv'
  <2>1. Console!Save(q) BY <1>17 DEF Console!OtherWindow
  <2>2. Kept /\ executed' = executed + 1 BY <1>6, <2>1
  <2>3. Tab BY <1>2, <1>a, <1>17, <2>2 DEF Console!OtherWindow
  <2>4. Link BY <1>3, <1>17 DEF Console!OtherWindow, LinkInv
  <2>5. QED BY <1>4, <2>2, <2>3, <2>4
<1>18. QED BY <1>8, <1>9, <1>10, <1>12, <1>13, <1>14, <1>15, <1>16, <1>17 DEF Console!Next

LEMMA HistoryStutter ==
  ASSUME part' = part, HistoryInv, UNCHANGED consoleVars
  PROVE  HistoryInv'
BY DEF HistoryInv, consoleVars, Console!TypeOK, LinkInv

(* As many values as places, when no value is repeated.                    *)
LEMMA DifferentValues ==
  ASSUME NEW f, NEW n \in Nat, \A i, j \in 1 .. n : f[i] = f[j] => i = j
  PROVE  IsFiniteSet({f[i] : i \in 1 .. n}) /\ Cardinality({f[i] : i \in 1 .. n}) = n
<1> DEFINE X == {f[i] : i \in 1 .. n}
           g == [i \in 1 .. n |-> f[i]]
<1>1. g \in [1 .. n -> X] /\ \A x \in X : \E i \in 1 .. n : g[i] = x OBVIOUS
<1>2. \A i, j \in 1 .. n : g[i] = g[j] => i = j OBVIOUS
<1>3. IsFiniteSet(1 .. n) /\ Cardinality(1 .. n) = n
  <2>1. \A m \in Nat : IsFiniteSet(1 .. m) /\ Cardinality(1 .. m) = m BY FS_Interval
  <2>2. QED BY <2>1
<1> HIDE DEF g, X
<1>4. g \in Surjection(1 .. n, X) /\ g \in Injection(1 .. n, X) BY <1>1, <1>2, Fun_IsSurj, Fun_IsInj
<1>5. IsFiniteSet(X) /\ Cardinality(X) = Cardinality(1 .. n) BY <1>3, <1>4, FS_Surjection
<1>6. QED BY <1>3, <1>5 DEF X

LEMMA LastRuns ==
  ASSUME HistoryInv
  PROVE  /\ \A q \in Console!Distinct :
              Console!LastRun(q) \in FirstOf(saves) /\ saves[Console!LastRun(q)] = q
         /\ \A m, n \in FirstOf(saves) : saves[m] = saves[n] => m = n
         /\ IsFiniteSet(Console!Distinct)
<1>1. /\ saves \in Seq(Statements) /\ Len(saves) \in Nat /\ DOMAIN saves = 1 .. Len(saves)
  BY LenProperties DEF HistoryInv, Console!TypeOK
<1>2. ASSUME NEW q \in Console!Distinct
      PROVE  Console!LastRun(q) \in FirstOf(saves) /\ saves[Console!LastRun(q)] = q
  <2> DEFINE T == {n \in DOMAIN saves : saves[n] = q}
  <2>1. T # {} /\ T \subseteq Nat BY <1>1 DEF Console!Distinct
  <2>2. PICK least \in T : \A n \in T : ~(<<n, least>> \in OpToRel(<, Nat))
    BY <2>1, NatLessThanWellFounded, WFMin
  <2>3. \A n \in 1 .. least - 1 : saves[n] # q
    <3>1. least \in DOMAIN saves BY <2>2
    <3>2. ASSUME NEW n \in 1 .. least - 1, saves[n] = q PROVE FALSE
      <4>1. n \in Nat /\ least \in Nat /\ n < least /\ n \in DOMAIN saves BY <1>1, <3>1
      <4>2. n \in T BY <3>2, <4>1
      <4>3. <<n, least>> \in OpToRel(<, Nat) BY <4>1 DEF OpToRel
      <4>4. QED BY <2>2, <4>2, <4>3
    <3>3. QED BY <3>2
  <2>4. \E n \in DOMAIN saves : saves[n] = q /\ \A m \in 1 .. n - 1 : saves[m] # q
    BY <2>2, <2>3
  <2> DEFINE l == CHOOSE n \in DOMAIN saves : saves[n] = q /\ \A m \in 1 .. n - 1 : saves[m] # q
  <2>5. l \in DOMAIN saves /\ saves[l] = q /\ \A m \in 1 .. l - 1 : saves[m] # q BY Zenon, <2>4
  <2>6. Console!LastRun(q) = l BY DEF Console!LastRun
  <2> HIDE DEF l
  <2>7. QED BY <2>5, <2>6 DEF FirstOf
<1>3. ASSUME NEW m \in FirstOf(saves), NEW n \in FirstOf(saves), saves[m] = saves[n]
      PROVE  m = n
  <2>1. /\ m \in 1 .. Len(saves) /\ n \in 1 .. Len(saves)
        /\ \A k \in 1 .. m - 1 : saves[k] # saves[m]
        /\ \A k \in 1 .. n - 1 : saves[k] # saves[n]
    BY <1>1 DEF FirstOf
  <2>2. ~(m < n)
    <3>1. m < n => m \in 1 .. n - 1 BY <1>1, <2>1
    <3>2. QED BY <1>3, <2>1, <3>1
  <2>3. ~(n < m)
    <3>1. n < m => n \in 1 .. m - 1 BY <1>1, <2>1
    <3>2. QED BY <1>3, <2>1, <3>1
  <2>4. QED BY <1>1, <2>1, <2>2, <2>3
<1>4. IsFiniteSet(Console!Distinct)
  <2> DEFINE D == DOMAIN saves
             f == [n \in D |-> saves[n]]
  <2>1. IsFiniteSet(D)
    <3>1. \A m \in Nat : IsFiniteSet(1 .. m) BY FS_Interval
    <3>2. QED BY <1>1, <3>1
  <2>2. f \in [D -> Console!Distinct] /\ \A q \in Console!Distinct : \E n \in D : f[n] = q
    BY DEF Console!Distinct
  <2> HIDE DEF D, f
  <2>3. f \in Surjection(D, Console!Distinct) BY <2>2, Fun_IsSurj
  <2>4. QED BY <2>1, <2>3, FS_Surjection
<1>5. QED BY <1>2, <1>3, <1>4

LEMMA HistoryShown ==
  ASSUME HistoryInv
  PROVE  Console!HistoryIsMostRecent
<1> DEFINE D == Console!Distinct
           last(q) == Console!LastRun(q)
           N == Len(storage)
<1>1. /\ MaxHistory \in Nat /\ N \in Nat /\ N <= MaxHistory
      /\ Len(saves) \in Nat /\ DOMAIN saves = 1 .. Len(saves)
  BY PartsAssumption, LenProperties DEF Console!ConsoleAssumption, HistoryInv, Console!TypeOK
<1>2. PICK p : HistoryAt(storage, saves, p) BY DEF HistoryInv
<1>3. /\ p \in [1 .. N -> FirstOf(saves)]
      /\ \A i \in 1 .. N : storage[i] = saves[p[i]]
      /\ \A i, j \in 1 .. N : i < j => p[i] < p[j]
      /\ \A n \in FirstOf(saves) :
           \/ \E i \in 1 .. N : p[i] = n
           \/ N = MaxHistory /\ \A i \in 1 .. N : p[i] < n
  BY <1>2 DEF HistoryAt
<1>4. /\ \A q \in D : last(q) \in FirstOf(saves) /\ saves[last(q)] = q
      /\ \A m, n \in FirstOf(saves) : saves[m] = saves[n] => m = n
      /\ IsFiniteSet(D)
  BY LastRuns
<1>5. FirstOf(saves) \subseteq 1 .. Len(saves) /\ \A n \in FirstOf(saves) : saves[n] \in D
  BY <1>1 DEF FirstOf, Console!Distinct
<1> HIDE DEF D, last, N
<1>6. \A i \in 1 .. N : storage[i] \in D /\ last(storage[i]) = p[i] /\ p[i] \in 1 .. Len(saves)
  BY <1>3, <1>4, <1>5
<1>7. \A i, j \in 1 .. N : storage[i] = storage[j] => i = j
  BY <1>1, <1>2, HistoryDiffers DEF N
<1>8. \A n \in 0 .. N : /\ IsFiniteSet({storage[i] : i \in 1 .. n})
                        /\ Cardinality({storage[i] : i \in 1 .. n}) = n
  <2> SUFFICES ASSUME NEW n \in 0 .. N
               PROVE  /\ IsFiniteSet({storage[i] : i \in 1 .. n})
                      /\ Cardinality({storage[i] : i \in 1 .. n}) = n
    OBVIOUS
  <2>1. n \in Nat /\ \A i \in 1 .. n : i \in 1 .. N BY <1>1
  <2>2. \A i, j \in 1 .. n : storage[i] = storage[j] => i = j BY <1>7, <2>1
  <2>3. QED BY <2>1, <2>2, DifferentValues
<1>9. \A q \in D :
        \/ \E i \in 1 .. N : q = storage[i]
        \/ N = MaxHistory /\ \A i \in 1 .. N : p[i] < last(q)
  <2> SUFFICES ASSUME NEW q \in D, ~(N = MaxHistory /\ \A i \in 1 .. N : p[i] < last(q))
               PROVE  \E i \in 1 .. N : q = storage[i]
    OBVIOUS
  <2>1. PICK i \in 1 .. N : p[i] = last(q) BY <1>3, <1>4
  <2>2. QED BY <1>3, <1>4, <2>1
<1>10. N = IF Cardinality(D) < MaxHistory THEN Cardinality(D) ELSE MaxHistory
  <2> DEFINE X == {storage[i] : i \in 1 .. N}
  <2>a. N \in 0 .. N BY <1>1
  <2>1. IsFiniteSet(X) /\ Cardinality(X) = N BY <1>8, <2>a
  <2>2. X \subseteq D BY <1>6
  <2>3. N # MaxHistory => X = D BY <1>9, <2>2
  <2> HIDE DEF X
  <2>4. N <= Cardinality(D) /\ Cardinality(D) \in Nat
    BY <1>4, <2>1, <2>2, FS_Subset, FS_CardinalityType
  <2>5. CASE N = MaxHistory BY <1>1, <2>4, <2>5
  <2>6. CASE N # MaxHistory
    <3>1. Cardinality(D) = N BY <2>1, <2>3, <2>6
    <3>2. QED BY <1>1, <2>6, <3>1
  <2>7. QED BY <2>5, <2>6
<1>11. ASSUME NEW q \in D
       PROVE  LET place == Cardinality({u \in D : last(u) <= last(q)})
              IN  place <= MaxHistory => storage[place] = q
  <2> DEFINE U == {u \in D : last(u) <= last(q)}
  <2>1. \A u \in D : last(u) \in 1 .. Len(saves) BY <1>4, <1>5
  <2>2. CASE \E i \in 1 .. N : q = storage[i]
    <3>1. PICK i \in 1 .. N : q = storage[i] BY <2>2
    <3>2. last(q) = p[i] BY <1>6, <3>1
    <3>3. ASSUME NEW j \in 1 .. i PROVE storage[j] \in U
      <4>1. j \in 1 .. N /\ (j = i \/ j < i) BY <1>1
      <4>2. storage[j] \in D /\ last(storage[j]) = p[j] BY <1>6, <4>1
      <4>3. p[j] <= p[i] BY <1>1, <1>3, <1>6, <4>1
      <4>4. QED BY <3>2, <4>2, <4>3
    <3>4. ASSUME NEW u \in U PROVE \E j \in 1 .. i : u = storage[j]
      <4>1. last(u) <= p[i] /\ u \in D /\ last(u) \in 1 .. Len(saves) BY <2>1, <3>2
      <4>2. ~(p[i] < last(u)) BY <1>1, <1>6, <4>1
      <4>3. PICK j \in 1 .. N : u = storage[j] BY <1>9, <4>1, <4>2
      <4>4. p[j] <= p[i] BY <1>6, <4>1, <4>3
      <4>5. ~(i < j) BY <1>1, <1>3, <1>6, <4>4
      <4>6. j \in 1 .. i BY <1>1, <4>5
      <4>7. QED BY <4>3, <4>6
    <3>5. U = {storage[j] : j \in 1 .. i} BY <3>3, <3>4
    <3>6. i \in 0 .. N BY <1>1
    <3> HIDE DEF U
    <3>7. Cardinality(U) = i BY <1>8, <3>5, <3>6
    <3>8. storage[Cardinality(U)] = q BY <3>1, <3>7
    <3>9. QED BY <3>8 DEF U
  <2>3. CASE N = MaxHistory /\ ~\E i \in 1 .. N : q = storage[i]
    <3> DEFINE X == {storage[i] : i \in 1 .. N}
    <3>1. \A i \in 1 .. N : p[i] < last(q) BY <1>9, <2>3
    <3>2. X \union {q} \subseteq U
      <4>1. q \in U BY <1>1, <2>1
      <4>2. ASSUME NEW i \in 1 .. N PROVE storage[i] \in U
        <5>1. storage[i] \in D /\ last(storage[i]) = p[i] /\ p[i] < last(q) BY <1>6, <3>1
        <5>2. p[i] \in Nat /\ last(q) \in Nat BY <1>1, <1>6, <2>1
        <5>3. QED BY <5>1, <5>2
      <4>3. QED BY <4>1, <4>2
    <3>3. q \notin X BY <2>3
    <3>a. N \in 0 .. N BY <1>1
    <3>4. IsFiniteSet(X) /\ Cardinality(X) = N BY <1>8, <3>a
    <3>5. IsFiniteSet(U) BY <1>4, FS_Subset
    <3> HIDE DEF X, U
    <3>6. IsFiniteSet(X \union {q}) /\ Cardinality(X \union {q}) = N + 1
      BY <3>3, <3>4, FS_AddElement
    <3>7. Cardinality(X \union {q}) <= Cardinality(U) /\ Cardinality(U) \in Nat
      BY <3>2, <3>5, FS_Subset, FS_CardinalityType
    <3>8. ~(Cardinality(U) <= MaxHistory) BY <1>1, <2>3, <3>6, <3>7
    <3>9. QED BY <3>8 DEF U
  <2>4. QED BY <1>9, <2>2, <2>3
<1>12. QED BY <1>10, <1>11, ConsoleCardinality DEF Console!HistoryIsMostRecent, D, N, last

LEMMA LinkShown == HistoryInv => Console!LinkRunsOnce
BY DEF HistoryInv, LinkInv, Console!LinkRunsOnce

-----------------------------------------------------------------------------
(* The types of the pages that show lines, profiles and traces. *)

LogsTyped ==
  /\ pods \in [data : (SUBSET Pods) \union {Nothing}, flight : (SUBSET Pods) \union {Nothing}]
  /\ selectedPod \in Pods \union {0}
  /\ container \in Containers
  /\ follow \in BOOLEAN
  /\ streamNonce \in 0 .. MaxReloads
  /\ lSeen \in Logs!Dependencies
  /\ sent \in 0 .. MaxLines
  /\ late \in Logs!Dependencies \union {Nothing}

LEMMA LogsTypes == LogsTyped /\ LogsInv => Logs!TypeOK
<1> SUFFICES ASSUME LogsTyped, LogsInv PROVE Logs!TypeOK
  OBVIOUS
<1> DEFINE f == LineOf(lSeen)
           w == Newest(f, MaxLogs, sent)
<1>1. MaxLogs \in Nat \ {0} /\ MaxLines \in Nat BY PartsAssumption DEF Logs!LogsAssumption
<1>2. sent \in 0 .. MaxLines /\ sent \in Nat /\ lSeen \in Logs!Dependencies
  BY DEF LogsTyped, LogsInv
<1>3. f \in [Nat -> [of : Logs!Dependencies, n : Nat]] BY <1>2 DEF LineOf
<1>4. \A n \in Nat : f[n] = [of |-> lSeen, n |-> n] BY DEF LineOf
<1> HIDE DEF f
<1>5. /\ Len(w) = (IF sent < MaxLogs THEN sent ELSE MaxLogs)
      /\ \A i \in 1 .. Len(w) : w[i] = f[sent - Len(w) + i]
  BY <1>1, <1>2, NewestPlaces
<1>6. w \in Seq([of : Logs!Dependencies, n : Nat]) BY <1>1, <1>2, <1>3, NewestIsSeq
<1>7. logs = w BY DEF LogsInv, f
<1> HIDE DEF w
<1>8. DOMAIN w = 1 .. Len(w) /\ Len(w) \in Nat BY <1>6, LenProperties
<1>9. Len(w) <= MaxLogs /\ Len(w) <= sent BY <1>1, <1>2, <1>5
<1>10. ASSUME NEW i \in DOMAIN logs PROVE logs[i] \in [of : Logs!Dependencies, n : 1 .. MaxLines]
  <2>1. i \in 1 .. Len(w) BY <1>7, <1>8
  <2>2. sent - Len(w) + i \in 1 .. MaxLines BY <1>1, <1>2, <1>8, <1>9, <2>1
  <2>3. PICK m \in 1 .. MaxLines : m = sent - Len(w) + i BY <2>2
  <2>4. logs[i] = f[m] BY <1>5, <1>7, <2>1, <2>3
  <2>5. f[m] = [of |-> lSeen, n |-> m] BY <1>1, <1>4
  <2>6. QED BY <1>2, <2>4, <2>5
<1>11. QED BY <1>7, <1>9, <1>10 DEF Logs!TypeOK, LogsTyped

LEMMA LogsTypedInit == Logs!Init => LogsTyped
<1> SUFFICES ASSUME Logs!Init PROVE LogsTyped
  OBVIOUS
<1>1. /\ Containers # {} /\ MaxReloads \in Nat /\ MaxLines \in Nat
  BY PartsAssumption DEF Logs!LogsAssumption
<1>2. container \in Containers BY <1>1 DEF Logs!Init
<1>3. 0 \in 0 .. MaxReloads /\ 0 \in 0 .. MaxLines BY <1>1
<1>4. lSeen \in Logs!Dependencies BY <1>2, <1>3 DEF Logs!Init, Logs!Wanted, Logs!Dependencies
<1>5. QED BY <1>2, <1>3, <1>4 DEF Logs!Init, LogsTyped, Logs!NewQuery

(* The least pod of a list that is not empty.                              *)
LEMMA SelectsAPod == LogsTyped => Logs!PodToSelect \in Pods \union {0}
<1> SUFFICES ASSUME LogsTyped PROVE Logs!PodToSelect \in Pods \union {0}
  OBVIOUS
<1>1. Pods \subseteq Nat BY PartsAssumption DEF Logs!LogsAssumption
<1>2. CASE pods.data = Nothing \/ selectedPod \in pods.data
  BY <1>2 DEF Logs!PodToSelect, LogsTyped
<1>3. CASE ~(pods.data = Nothing \/ selectedPod \in pods.data) /\ pods.data = {}
  BY <1>3 DEF Logs!PodToSelect
<1>4. CASE ~(pods.data = Nothing \/ selectedPod \in pods.data) /\ pods.data # {}
  <2> DEFINE P == pods.data
             least == CHOOSE p \in P : \A q \in P : p <= q
  <2>1. P \subseteq Pods /\ P # {} BY <1>4 DEF LogsTyped
  <2>2. P \subseteq Nat BY <1>1, <2>1
  <2>3. Logs!PodToSelect = least BY <1>4 DEF Logs!PodToSelect
  <2> HIDE DEF P
  <2>4. PICK p \in P : \A q \in P : ~(<<q, p>> \in OpToRel(<, Nat))
    BY <2>1, <2>2, NatLessThanWellFounded, WFMin
  <2>5. \A q \in P : p <= q
    <3>1. \A x, y \in Nat : x < y => <<x, y>> \in OpToRel(<, Nat) BY DEF OpToRel
    <3>2. \A q \in P : ~(q < p) /\ q \in Nat /\ p \in Nat BY <2>2, <2>4, <3>1
    <3>3. QED BY <3>2
  <2>6. \E x \in P : \A q \in P : x <= q BY <2>5
  <2>7. least \in P BY Zenon, <2>6
  <2>8. QED BY <2>1, <2>3, <2>7
<1>5. QED BY <1>2, <1>3, <1>4

LEMMA LogsTypedStep ==
  ASSUME LogsTyped, Logs!Next
  PROVE  LogsTyped'
<1>1. MaxReloads \in Nat /\ MaxLines \in Nat BY PartsAssumption DEF Logs!LogsAssumption
<1>2. Logs!Wanted \in Logs!Dependencies BY DEF LogsTyped, Logs!Wanted, Logs!Dependencies
<1>3. ASSUME Logs!RunStreamEffect
      PROVE  /\ lSeen' \in Logs!Dependencies /\ sent' \in 0 .. MaxLines
             /\ late' \in Logs!Dependencies \union {Nothing}
  <2>1. lSeen' \in Logs!Dependencies BY <1>2, <1>3 DEF Logs!RunStreamEffect
  <2>2. sent' \in {sent, 0} BY <1>3 DEF Logs!RunStreamEffect
  <2>3. late' \in {late, lSeen, Nothing} BY <1>3 DEF Logs!RunStreamEffect
  <2>4. QED BY <1>1, <2>1, <2>2, <2>3 DEF LogsTyped
<1>4. Logs!PodToSelect \in Pods \union {0} BY SelectsAPod
<1>5. CASE Logs!Effects
  BY <1>3, <1>4, <1>5 DEF Logs!Effects, LogsTyped
<1>6. CASE Logs!PodsArrive
  <2>1. Logs!RunStreamEffect /\ selectedPod' = Logs!PodToSelect
        /\ UNCHANGED <<container, follow, streamNonce>>
    BY <1>6 DEF Logs!PodsArrive
  <2>2. pods' \in [data : (SUBSET Pods) \union {Nothing}, flight : (SUBSET Pods) \union {Nothing}]
    BY <1>6 DEF Logs!PodsArrive, Logs!Answered, LogsTyped
  <2>3. QED BY <1>3, <1>4, <2>1, <2>2 DEF LogsTyped
<1>7. CASE \E P \in SUBSET Pods : Logs!FetchPods(P)
  BY <1>7 DEF Logs!FetchPods, Logs!Fetch, LogsTyped
<1>8. CASE \E p \in Pods : Logs!PickPod(p) BY <1>8 DEF Logs!PickPod, LogsTyped
<1>9. CASE \E c \in Containers : Logs!EditContainer(c) BY <1>9 DEF Logs!EditContainer, LogsTyped
<1>10. CASE Logs!ToggleFollow BY <1>10 DEF Logs!ToggleFollow, LogsTyped
<1>11. CASE Logs!Reload
  <2>1. streamNonce' \in 0 .. MaxReloads BY <1>1, <1>11 DEF Logs!Reload, LogsTyped
  <2>2. QED BY <1>11, <2>1 DEF Logs!Reload, LogsTyped
<1>12. CASE Logs!Line
  <2>1. sent' \in 0 .. MaxLines BY <1>1, <1>12 DEF Logs!Line, LogsTyped
  <2>2. QED BY <1>12, <2>1 DEF Logs!Line, LogsTyped
<1>13. CASE Logs!LateLine BY <1>13 DEF Logs!LateLine, LogsTyped
<1>14. QED BY <1>5, <1>6, <1>7, <1>8, <1>9, <1>10, <1>11, <1>12, <1>13 DEF Logs!Next

ProfilesTyped ==
  /\ OpenSearch!TypeOK
  /\ pendingAction # Nothing => queries # 0

LEMMA ProfilesTypedInit == OpenSearch!Init => ProfilesTyped
<1>1. MaxQueries \in Nat BY PartsAssumption DEF OpenSearch!OpenSearchAssumption
<1>2. 0 \in 0 .. MaxQueries BY <1>1
<1>3. QED BY <1>2 DEF OpenSearch!Init, ProfilesTyped, OpenSearch!TypeOK

LEMMA ProfilesTypedStep ==
  ASSUME ProfilesTyped, OpenSearch!Next, params = profileName
  PROVE  ProfilesTyped'
<1> USE DEF ProfilesTyped, OpenSearch!TypeOK
<1>1. MaxQueries \in Nat /\ MaxRows \in Nat
  BY PartsAssumption DEF OpenSearch!OpenSearchAssumption
<1>2. CASE \E P \in SUBSET Profiles : OpenSearch!ListArrives(P)
  BY <1>2 DEF OpenSearch!ListArrives
<1>3. CASE \E p \in Profiles : OpenSearch!SelectProfile(p)
  BY <1>3 DEF OpenSearch!SelectProfile
<1>4. CASE OpenSearch!Run("preview") \/ OpenSearch!Run("query")
  <2>1. queries' \in 0 .. MaxQueries /\ queries' # 0 BY <1>1, <1>4 DEF OpenSearch!Run
  <2>2. QED BY <1>4, <2>1 DEF OpenSearch!Run
<1>5. CASE OpenSearch!PreviewArrives BY <1>5 DEF OpenSearch!PreviewArrives
<1>6. CASE \E n \in 0 .. MaxRows : OpenSearch!ResultArrives(n)
  <2>1. PICK n \in 0 .. MaxRows : OpenSearch!ResultArrives(n) BY <1>6
  <2>2. queries \in 1 .. MaxQueries BY <1>1, <2>1 DEF OpenSearch!ResultArrives
  <2>3. result' \in [profile : Profiles, rows : 0 .. MaxRows, number : 1 .. MaxQueries]
    BY <2>1, <2>2 DEF OpenSearch!ResultArrives
  <2>4. selected' \in [number : 1 .. MaxQueries, row : 1 .. MaxRows] \union {Nothing}
    <3>1. n # 0 => 1 \in 1 .. MaxRows BY <1>1
    <3>2. QED BY <2>1, <2>2, <3>1 DEF OpenSearch!ResultArrives
  <2>5. QED BY <2>1, <2>3, <2>4 DEF OpenSearch!ResultArrives
<1>7. CASE OpenSearch!RequestFails BY <1>7 DEF OpenSearch!RequestFails
<1>8. CASE \E r \in 1 .. MaxRows : OpenSearch!ClickRow(r)
  <2>1. PICK r \in 1 .. MaxRows : OpenSearch!ClickRow(r) BY <1>8
  <2>2. selected' \in [number : 1 .. MaxQueries, row : 1 .. MaxRows]
    BY <2>1 DEF OpenSearch!ClickRow
  <2>3. QED BY <2>1, <2>2 DEF OpenSearch!ClickRow
<1>9. QED BY <1>2, <1>3, <1>4, <1>5, <1>6, <1>7, <1>8 DEF OpenSearch!Next

TabStreams == [trace : Trace!Traces, sent : 0 .. MaxRecorded,
               state : {"open", "aborted", "closed"}, whole : BOOLEAN]
TabDeletes == [id : Trace!Traces, current : BOOLEAN, active : 0 .. MaxTraces]
TabEvents == [stream : Nat, n : 1 .. MaxRecorded]

TraceTyped ==
  /\ traces \in 0 .. MaxTraces
  /\ recorded \in [Trace!Traces -> 0 .. MaxRecorded]
  /\ activeTraceID \in 0 .. MaxTraces
  /\ followed \in 0 .. MaxTraces
  /\ streams \in Seq(TabStreams) /\ Len(streams) <= MaxStreams
  /\ tEvents \in Seq(TabEvents)
  /\ \A i \in DOMAIN tEvents : tEvents[i].stream \in DOMAIN streams
  /\ tStarting \in {"idle", "sent", "made"}
  /\ tStarting = "sent" => traces < MaxTraces
  /\ deleting \subseteq TabDeletes

LEMMA TraceTypes == TraceTyped => Trace!TypeOK
<1> SUFFICES ASSUME TraceTyped PROVE Trace!TypeOK
  OBVIOUS
<1>1. \A k \in DOMAIN streams : streams[k] \in TabStreams
  BY ElementOfSeq, LenProperties DEF TraceTyped
<1>2. \A i \in DOMAIN tEvents : tEvents[i] \in TabEvents
  BY ElementOfSeq, LenProperties DEF TraceTyped
<1>3. \A i \in DOMAIN tEvents : tEvents[i] \in [stream : DOMAIN streams, n : 1 .. MaxRecorded]
  BY <1>2 DEF TraceTyped, TabEvents
<1>4. QED BY <1>1, <1>3 DEF Trace!TypeOK, TraceTyped, TabStreams, TabDeletes

LEMMA TraceTypedInit == Trace!Init => TraceTyped
<1> SUFFICES ASSUME Trace!Init PROVE TraceTyped
  OBVIOUS
<1>1. MaxTraces \in Nat /\ MaxRecorded \in Nat /\ MaxStreams \in Nat
  BY PartsAssumption DEF Trace!TraceTabAssumption
<1>2. 0 \in 0 .. MaxTraces /\ 0 \in 0 .. MaxRecorded BY <1>1
<1>3. recorded \in [Trace!Traces -> 0 .. MaxRecorded] BY <1>2 DEF Trace!Init
<1>4. deleting \subseteq TabDeletes BY DEF Trace!Init
<1>5. /\ streams = <<>> /\ tEvents = <<>> /\ traces = 0 /\ activeTraceID = 0 /\ followed = 0
      /\ tStarting = "idle"
  BY DEF Trace!Init
<1>6. <<>> \in Seq(TabStreams) /\ Len(<<>>) = 0 /\ <<>> \in Seq(TabEvents) /\ DOMAIN <<>> = {}
  BY EmptySeq
<1>7. QED BY <1>1, <1>2, <1>3, <1>4, <1>5, <1>6 DEF TraceTyped

LEMMA RerenderTypes ==
  ASSUME TraceTyped, NEW S \in Seq(TabStreams), Len(S) = Len(streams),
         Trace!Rerender(S)
  PROVE  /\ followed' \in 0 .. MaxTraces
         /\ streams' \in Seq(TabStreams) /\ Len(streams') <= MaxStreams
         /\ DOMAIN streams \subseteq DOMAIN streams'
<1> DEFINE n == Len(S)
           r == [S[n] EXCEPT !.state = "aborted"]
           aborting == followed # 0 /\ S[n].state = "open"
           aborted == IF aborting THEN [S EXCEPT ![n] = r] ELSE S
           new == [trace |-> activeTraceID, sent |-> 0, state |-> "open", whole |-> TRUE]
<1>1. MaxTraces \in Nat /\ MaxRecorded \in Nat /\ MaxStreams \in Nat
  BY PartsAssumption DEF Trace!TraceTabAssumption
<1>2. /\ activeTraceID \in 0 .. MaxTraces /\ Len(streams) <= MaxStreams
      /\ n \in Nat /\ DOMAIN S = 1 .. n /\ DOMAIN streams = 1 .. n
  BY LenProperties DEF TraceTyped
<1>3. followed' = activeTraceID BY DEF Trace!Rerender
<1>4. (n < MaxStreams) \/ (followed = activeTraceID) BY DEF Trace!Rerender, Trace!CanOpen
<1>5. followed' \in 0 .. MaxTraces BY <1>2, <1>3
<1>7. n \in DOMAIN S => r \in TabStreams
  <2>1. n \in DOMAIN S => S[n] \in TabStreams BY <1>2, ElementOfSeq
  <2>2. QED BY <2>1 DEF TabStreams
<1>8. aborted \in Seq(TabStreams) /\ Len(aborted) = n
  <2> HIDE DEF r
  <2>1. [S EXCEPT ![n] = r] \in Seq(TabStreams) /\ Len([S EXCEPT ![n] = r]) = n
    BY <1>7, ReplaceFacts
  <2>2. QED BY <2>1
<1>9. activeTraceID # 0 => new \in TabStreams BY <1>1, <1>2 DEF TabStreams, Trace!Traces
<1>10. streams' = IF followed = activeTraceID THEN S
                  ELSE IF activeTraceID = 0 THEN aborted ELSE Append(aborted, new)
  BY DEF Trace!Rerender, Trace!StreamsAfterEffects
<1>11. PICK T : T = streams' OBVIOUS
<1>12. T = IF followed = activeTraceID THEN S
           ELSE IF activeTraceID = 0 THEN aborted ELSE Append(aborted, new)
  BY <1>10, <1>11
<1> HIDE DEF aborted, new, n
<1>13. T \in Seq(TabStreams) /\ Len(T) <= MaxStreams /\ 1 .. n \subseteq DOMAIN T
  <2>1. CASE followed = activeTraceID
    <3>1. T = S BY <1>12, <2>1
    <3>2. QED BY <1>2, <3>1 DEF n
  <2>2. CASE followed # activeTraceID /\ activeTraceID = 0
    <3>1. T = aborted BY <1>12, <2>2
    <3>2. DOMAIN aborted = 1 .. n BY <1>8, LenProperties
    <3>3. n <= MaxStreams BY <1>2 DEF n
    <3>4. QED BY <1>8, <3>1, <3>2, <3>3
  <2>3. CASE followed # activeTraceID /\ activeTraceID # 0
    <3>1. T = Append(aborted, new) BY <1>12, <2>3
    <3>2. T \in Seq(TabStreams) /\ Len(T) = n + 1 /\ DOMAIN T = 1 .. n + 1
      BY <1>8, <1>9, <2>3, <3>1, AppendFacts
    <3>3. n + 1 <= MaxStreams BY <1>1, <1>2, <1>4, <2>3
    <3>4. 1 .. n \subseteq 1 .. n + 1 BY <1>2
    <3>5. QED BY <3>2, <3>3, <3>4
  <2>4. QED BY <2>1, <2>2, <2>3
<1>14. QED BY <1>2, <1>5, <1>11, <1>13

LEMMA TraceTypedStep ==
  ASSUME TraceTyped, Trace!Next
  PROVE  TraceTyped'
<1>1. MaxTraces \in Nat /\ MaxRecorded \in Nat /\ MaxStreams \in Nat
  BY PartsAssumption DEF Trace!TraceTabAssumption
<1>2. /\ traces \in 0 .. MaxTraces /\ recorded \in [Trace!Traces -> 0 .. MaxRecorded]
      /\ activeTraceID \in 0 .. MaxTraces /\ followed \in 0 .. MaxTraces
      /\ streams \in Seq(TabStreams) /\ Len(streams) <= MaxStreams
      /\ tEvents \in Seq(TabEvents)
      /\ \A i \in DOMAIN tEvents : tEvents[i].stream \in DOMAIN streams
      /\ tStarting \in {"idle", "sent", "made"} /\ (tStarting = "sent" => traces < MaxTraces)
      /\ deleting \subseteq TabDeletes
  BY DEF TraceTyped
<1>3. <<>> \in Seq(TabEvents) /\ DOMAIN <<>> = {} BY EmptySeq
<1>5. \A k \in DOMAIN streams : streams[k] \in TabStreams BY <1>2, ElementOfSeq, LenProperties
(* A handler that lets the effects of the last render run.                 *)
<1> DEFINE Others == /\ traces' \in 0 .. MaxTraces
                     /\ recorded' \in [Trace!Traces -> 0 .. MaxRecorded]
                     /\ activeTraceID' \in 0 .. MaxTraces
                     /\ tEvents' \in Seq(TabEvents)
                     /\ \A i \in DOMAIN tEvents' : tEvents'[i].stream \in DOMAIN streams
                     /\ tStarting' \in {"idle", "sent", "made"}
                     /\ tStarting' = "sent" => traces' < MaxTraces
                     /\ deleting' \subseteq TabDeletes
<1>6. ASSUME NEW S \in Seq(TabStreams), Len(S) = Len(streams), Trace!Rerender(S), Others
      PROVE  TraceTyped'
  BY <1>6, RerenderTypes DEF TraceTyped
<1>7. CASE Trace!Effects
  <2>1. Trace!Rerender(streams)
        /\ UNCHANGED <<traces, recorded, activeTraceID, tEvents, tStarting, deleting>>
    BY <1>7 DEF Trace!Effects
  <2>2. Others BY <1>2, <2>1
  <2>3. QED BY <1>2, <1>6, <2>1, <2>2
<1>8. CASE \E t \in 1 .. traces : Trace!ClickRow(t)
  <2>1. PICK t \in 1 .. traces : Trace!ClickRow(t) BY <1>8
  <2>2. Trace!Rerender(streams) /\ activeTraceID' = t
        /\ UNCHANGED <<traces, recorded, tEvents, tStarting, deleting>>
    BY <2>1 DEF Trace!ClickRow
  <2>3. t \in 0 .. MaxTraces BY <1>1, <1>2
  <2>4. Others BY <1>2, <2>2, <2>3
  <2>5. QED BY <1>2, <1>6, <2>2, <2>4
<1>9. CASE \E t \in 1 .. traces : Trace!Delete(t)
  <2>1. PICK t \in 1 .. traces : Trace!Delete(t) BY <1>9
  <2>2. Trace!Rerender(streams) /\ UNCHANGED <<traces, recorded, activeTraceID, tEvents, tStarting>>
    BY <2>1 DEF Trace!Delete
  <2>3. PICK known \in {followed, activeTraceID} :
          deleting' = {IF d.current THEN [d EXCEPT !.current = FALSE, !.active = known] ELSE d :
                        d \in deleting}
                      \union {[id |-> t, current |-> TRUE, active |-> 0]}
    BY <2>1 DEF Trace!Delete
  <2>4. known \in 0 .. MaxTraces /\ 0 \in 0 .. MaxTraces /\ t \in Trace!Traces
    BY <1>1, <1>2 DEF Trace!Traces
  <2>5. \A d \in TabDeletes : [d EXCEPT !.current = FALSE, !.active = known] \in TabDeletes
    BY <2>4 DEF TabDeletes
  <2>6. [id |-> t, current |-> TRUE, active |-> 0] \in TabDeletes BY <2>4 DEF TabDeletes
  <2>7. deleting' \subseteq TabDeletes BY <1>2, <2>3, <2>5, <2>6
  <2>8. Others BY <1>2, <2>2, <2>7
  <2>9. QED BY <1>2, <1>6, <2>2, <2>8
<1>10. CASE Trace!Start
  <2>1. Trace!Rerender(streams) /\ tStarting' = "sent" /\ traces < MaxTraces
        /\ UNCHANGED <<traces, recorded, activeTraceID, tEvents, deleting>>
    BY <1>10 DEF Trace!Start
  <2>2. Others BY <1>2, <2>1
  <2>3. QED BY <1>2, <1>6, <2>1, <2>2
<1>11. CASE Trace!Started
  <2> DEFINE n == Len(streams)
             r == [streams[n] EXCEPT !.whole = FALSE]
             S == IF activeTraceID = traces /\ followed = traces
                  THEN [streams EXCEPT ![n] = r] ELSE streams
  <2>1. Trace!Rerender(S) /\ tStarting' = "idle" /\ activeTraceID' = traces
        /\ tEvents' = <<>> /\ UNCHANGED <<traces, recorded, deleting>>
    BY <1>11 DEF Trace!Started
  <2>2. n \in DOMAIN streams => r \in TabStreams BY <1>5 DEF TabStreams
  <2> HIDE DEF r
  <2>3. [streams EXCEPT ![n] = r] \in Seq(TabStreams) /\ Len([streams EXCEPT ![n] = r]) = n
    BY <1>2, <2>2, ReplaceFacts
  <2>4. S \in Seq(TabStreams) /\ Len(S) = Len(streams) BY <1>2, <2>3
  <2>5. Others BY <1>2, <1>3, <2>1
  <2> HIDE DEF S
  <2>6. QED BY <1>2, <1>6, <2>1, <2>4, <2>5
<1>12. CASE Trace!StartFailed
  <2>1. Trace!Rerender(streams) /\ tStarting' = "idle"
        /\ UNCHANGED <<traces, recorded, activeTraceID, tEvents, deleting>>
    BY <1>12 DEF Trace!StartFailed
  <2>2. Others BY <1>2, <2>1
  <2>3. QED BY <1>2, <1>6, <2>1, <2>2
<1>13. ASSUME NEW d \in deleting, Trace!Deleted(d) PROVE TraceTyped'
  <2>1. /\ Trace!Rerender(streams) /\ UNCHANGED <<traces, recorded, tStarting>>
        /\ deleting' = deleting \ {d}
        /\ \/ activeTraceID' = 0 /\ tEvents' = <<>>
           \/ UNCHANGED <<activeTraceID, tEvents>>
    BY <1>13 DEF Trace!Deleted
  <2>2. 0 \in 0 .. MaxTraces BY <1>1
  <2>3. Others BY <1>2, <1>3, <2>1, <2>2
  <2>4. QED BY <1>2, <1>6, <2>1, <2>3
<1>14. ASSUME NEW d \in deleting, Trace!DeleteFailed(d) PROVE TraceTyped'
  <2>1. /\ Trace!Rerender(streams) /\ deleting' = deleting \ {d}
        /\ UNCHANGED <<traces, recorded, activeTraceID, tEvents, tStarting>>
    BY <1>14 DEF Trace!DeleteFailed
  <2>2. Others BY <1>2, <2>1
  <2>3. QED BY <1>2, <1>6, <2>1, <2>2
<1>15. CASE Trace!MakeTrace
  <2>1. traces' \in 0 .. MaxTraces BY <1>1, <1>2, <1>15 DEF Trace!MakeTrace
  <2>2. tStarting' = "made"
        /\ UNCHANGED <<recorded, activeTraceID, followed, streams, tEvents, deleting>>
    BY <1>15 DEF Trace!MakeTrace
  <2>3. QED BY <1>2, <2>1, <2>2 DEF TraceTyped
<1>16. CASE \E t \in 1 .. traces : Trace!Record(t)
  <2>1. PICK t \in 1 .. traces : Trace!Record(t) BY <1>16
  <2>2. t \in Trace!Traces BY <1>1, <1>2 DEF Trace!Traces
  <2>3. recorded[t] \in 0 .. MaxRecorded /\ recorded[t] < MaxRecorded BY <1>2, <2>1, <2>2 DEF Trace!Record
  <2>4. recorded[t] + 1 \in 0 .. MaxRecorded BY <1>1, <2>3
  <2>5. recorded' = [recorded EXCEPT ![t] = recorded[t] + 1] BY <2>1 DEF Trace!Record
  <2>6. recorded' \in [Trace!Traces -> 0 .. MaxRecorded] BY <1>2, <2>4, <2>5
  <2>7. UNCHANGED <<traces, activeTraceID, followed, streams, tEvents, tStarting, deleting>>
    BY <2>1 DEF Trace!Record
  <2>8. QED BY <1>2, <2>6, <2>7 DEF TraceTyped
<1>17. CASE \E k \in DOMAIN streams : Trace!Deliver(k)
  <2>1. PICK k \in DOMAIN streams : Trace!Deliver(k) BY <1>17
  <2> DEFINE n == streams[k].sent
             e == [stream |-> k, n |-> n + 1]
             r == [streams[k] EXCEPT !.sent = n + 1,
                                     !.state = IF @ = "open" THEN "open" ELSE "closed"]
             S == [streams EXCEPT ![k] = r]
  <2>2. streams[k] \in TabStreams BY <1>5
  <2>3. n < recorded[streams[k].trace] BY <2>1 DEF Trace!Deliver
  <2>4. recorded[streams[k].trace] \in 0 .. MaxRecorded BY <1>2, <2>2 DEF TabStreams
  <2>5. n \in 0 .. MaxRecorded BY <2>2 DEF TabStreams
  <2>6. n + 1 \in 1 .. MaxRecorded /\ n + 1 \in 0 .. MaxRecorded BY <1>1, <2>3, <2>4, <2>5
  <2>7. r \in TabStreams
    <3> HIDE DEF n
    <3>1. (IF streams[k].state = "open" THEN "open" ELSE "closed") \in {"open", "aborted", "closed"}
      OBVIOUS
    <3>2. QED BY <2>2, <2>6, <3>1 DEF TabStreams
  <2>8. [streams EXCEPT ![k].sent = @ + 1, ![k].state = IF @ = "open" THEN "open" ELSE "closed"] = S
    OBVIOUS
  <2>9. Trace!Rerender(S) /\ tEvents' = Append(tEvents, e)
        /\ UNCHANGED <<traces, recorded, activeTraceID, tStarting, deleting>>
    BY <2>1, <2>8 DEF Trace!Deliver
  <2>10. k \in Nat BY <1>2, LenProperties
  <2>11. e \in TabEvents /\ e.stream = k BY <2>6, <2>10 DEF TabEvents
  <2> HIDE DEF e, r
  <2>12. S \in Seq(TabStreams) /\ Len(S) = Len(streams) BY <1>2, <2>7, ReplaceFacts
  <2> HIDE DEF S
  <2>13. /\ tEvents' \in Seq(TabEvents) /\ DOMAIN tEvents' = 1 .. Len(tEvents) + 1
         /\ DOMAIN tEvents = 1 .. Len(tEvents) /\ tEvents'[Len(tEvents) + 1] = e
         /\ \A i \in 1 .. Len(tEvents) : tEvents'[i] = tEvents[i]
         /\ Len(tEvents) \in Nat
    BY <1>2, <2>9, <2>11, AppendFacts
  <2>14. \A i \in DOMAIN tEvents' : i = Len(tEvents) + 1 \/ i \in 1 .. Len(tEvents) BY <2>13
  <2>15. \A i \in DOMAIN tEvents' : tEvents'[i].stream \in DOMAIN streams
    BY <1>2, <2>11, <2>13, <2>14
  <2>16. Others BY <1>2, <2>9, <2>13, <2>15
  <2>17. QED BY <1>2, <1>6, <2>9, <2>12, <2>16
<1>18. CASE \E k \in DOMAIN streams : Trace!StreamEnds(k)
  <2>1. PICK k \in DOMAIN streams : Trace!StreamEnds(k) BY <1>18
  <2> DEFINE r == [streams[k] EXCEPT !.state = "closed"]
             S == [streams EXCEPT ![k] = r]
  <2>2. r \in TabStreams BY <1>5 DEF TabStreams
  <2>3. streams' = S
        /\ UNCHANGED <<traces, recorded, activeTraceID, followed, tEvents, tStarting, deleting>>
    BY <2>1 DEF Trace!StreamEnds
  <2> HIDE DEF r
  <2>4. S \in Seq(TabStreams) /\ Len(S) = Len(streams) /\ DOMAIN S = DOMAIN streams
    BY <1>2, <2>2, ReplaceFacts
  <2> HIDE DEF S
  <2>5. QED BY <1>2, <2>3, <2>4 DEF TraceTyped
<1>19. QED BY <1>7, <1>8, <1>9, <1>10, <1>11, <1>12, <1>13, <1>14, <1>15, <1>16, <1>17, <1>18
           DEF Trace!Next

-----------------------------------------------------------------------------
(* All parts together: what is shown. *)

ShownInv ==
  /\ TraceInv
  /\ LogsInv
  /\ BucketInv
  /\ ProfilesInv
  /\ Console!ResultOfLatestRun
  /\ part = "sql-server cache" => CacheInv(FALSE)
  /\ part = "postgres cache" => CacheInv(TRUE)

LEMMA InitShownInv == Init => ShownInv
<1> SUFFICES ASSUME Init PROVE ShownInv
  OBVIOUS
<1>1. Console!ResultOfLatestRun BY DEF Init, Console!Init, Console!ResultOfLatestRun
<1>2. CacheInv(FALSE) /\ CacheInv(TRUE) BY CacheInit DEF Init
<1>3. QED BY <1>1, <1>2, TraceInit, LogsInit, BucketInit, ProfilesInit DEF Init, ShownInv

(* A part keeps its invariant when its variables are left alone.           *)
LEMMA PartsStutter ==
  /\ TraceInv /\ UNCHANGED traceVars => TraceInv'
  /\ LogsInv /\ UNCHANGED logsVars => LogsInv'
  /\ BucketInv /\ UNCHANGED s3Vars => BucketInv'
  /\ ProfilesInv /\ UNCHANGED openSearchVars => ProfilesInv'
  /\ Console!ResultOfLatestRun /\ UNCHANGED consoleVars => Console!ResultOfLatestRun'
<1>1. TraceInv /\ UNCHANGED traceVars => TraceInv'
  BY DEF TraceInv, traceVars
<1>2. LogsInv /\ UNCHANGED logsVars => LogsInv'
  BY DEF LogsInv, logsVars
<1>3. BucketInv /\ UNCHANGED s3Vars => BucketInv'
  BY DEF BucketInv, s3Vars
<1>4. ProfilesInv /\ UNCHANGED openSearchVars => ProfilesInv'
  BY DEF ProfilesInv, OpenSearch!ShownTogether, openSearchVars
<1>5. Console!ResultOfLatestRun /\ UNCHANGED consoleVars => Console!ResultOfLatestRun'
  BY DEF Console!ResultOfLatestRun, consoleVars
<1>6. QED BY <1>1, <1>2, <1>3, <1>4, <1>5

LEMMA CachesStep ==
  ASSUME ShownInv, part' = part,
         SqlCache!Next \/ PgCache!Next \/ UNCHANGED cacheVars
  PROVE  /\ part' = "sql-server cache" => CacheInv(FALSE)'
         /\ part' = "postgres cache" => CacheInv(TRUE)'
<1>1. CASE UNCHANGED cacheVars BY <1>1, CacheStutters DEF ShownInv
<1>2. CASE SqlCache!Next
  <2>1. part = "sql-server cache" BY <1>2 DEF SqlCache!Next
  <2>2. CacheInv(FALSE) BY <2>1 DEF ShownInv
  <2>3. QED BY <1>2, <2>1, <2>2, CacheStep
<1>3. CASE PgCache!Next
  <2>1. part = "postgres cache" BY <1>3 DEF PgCache!Next
  <2>2. CacheInv(TRUE) BY <2>1 DEF ShownInv
  <2>3. QED BY <1>3, <2>1, <2>2, CacheStep
<1>4. QED BY <1>1, <1>2, <1>3

LEMMA NextShownInv == ShownInv /\ [Next]_vars => ShownInv'
<1> SUFFICES ASSUME ShownInv, [Next]_vars PROVE ShownInv'
  OBVIOUS
<1>1. /\ part' = part
      /\ Trace!Next \/ UNCHANGED traceVars
      /\ Logs!Next \/ UNCHANGED logsVars
      /\ S3!Next \/ UNCHANGED s3Vars
      /\ OpenSearch!Next \/ UNCHANGED openSearchVars
      /\ Console!Next \/ UNCHANGED consoleVars
      /\ SqlCache!Next \/ PgCache!Next \/ UNCHANGED cacheVars
  <2>1. CASE Next BY <2>1 DEF Next
  <2>2. CASE UNCHANGED vars BY <2>2 DEF vars
  <2>3. QED BY <2>1, <2>2
<1>2. TraceInv' BY <1>1, TraceStep, PartsStutter DEF ShownInv
<1>3. LogsInv' BY <1>1, LogsStep, PartsStutter DEF ShownInv
<1>4. BucketInv' BY <1>1, BucketStep, PartsStutter DEF ShownInv
<1>5. ProfilesInv' BY <1>1, ProfilesStep, PartsStutter DEF ShownInv
<1>6. Console!ResultOfLatestRun' BY <1>1, ConsoleStep, PartsStutter DEF ShownInv
<1>7. /\ part' = "sql-server cache" => CacheInv(FALSE)'
      /\ part' = "postgres cache" => CacheInv(TRUE)'
  BY <1>1, CachesStep
<1>8. QED BY <1>2, <1>3, <1>4, <1>5, <1>6, <1>7 DEF ShownInv

(* The streams, lines, previews, results and pools that follow a selection *)
(* are not disturbed by the answers and streams of an earlier one, with    *)
(* the exceptions that SelectionIsFollowed names (older events of another  *)
(* trace stay shown; a failed lookup leaves a pool unbound): in every      *)
(* order of answers and for any number of traces, streams, lines, objects, *)
(* profiles, statements and calls (TraceTab.tsx, useLogStream.ts, main.tsx *)
(* of s3 and opensearch, ConsoleTab.tsx, client.go).                       *)
THEOREM FollowsSelection == Spec => []SelectionIsFollowed
<1>1. ShownInv => SelectionIsFollowed
  BY TraceShown, LogsLines, BucketPreview, CachePools
     DEF ShownInv, ProfilesInv, SelectionIsFollowed
<1>2. QED BY <1>1, InitShownInv, NextShownInv, PTL DEF Spec

(* No connection cache loses a pool without need: one that is not cached   *)
(* any more was opened while the cached one was, so that neither call      *)
(* could have found the other's (client.go of sql-server and postgres).    *)
THEOREM PoolsAreKept ==
  Spec => [](/\ part = "sql-server cache" => SqlCache!LostPoolNeedsOverlap
             /\ part = "postgres cache" => PgCache!LostPoolNeedsOverlap)
<1>1. ShownInv => /\ part = "sql-server cache" => SqlCache!LostPoolNeedsOverlap
                  /\ part = "postgres cache" => PgCache!LostPoolNeedsOverlap
  BY CacheLosses DEF ShownInv
<1>2. QED BY <1>1, InitShownInv, NextShownInv, PTL DEF Spec

-----------------------------------------------------------------------------
(* What the operator asked for: the invariants of the parts together. *)

(* The types of the pages whose invariants above do not fix them.          *)
ShownTyped == TraceTyped /\ LogsTyped /\ ProfilesTyped

CarriedInv ==
  /\ HealthInv
  /\ RollbacksInv
  /\ ListingInv
  /\ GolangInv
  /\ ArthasInv
  /\ GadgetInv
  /\ HistoryInv
  /\ FollowInv
  /\ TriageInv
  /\ ShownTyped

LEMMA InitCarriedInv == Init => CarriedInv
BY HealthInit, RollbacksInit, ListingInit, GolangInit, ArthasInit, GadgetInit, HistoryInit,
   FollowInit, TriageInit, TraceTypedInit, LogsTypedInit, ProfilesTypedInit
   DEF Init, CarriedInv, ShownTyped

(* A part keeps its invariant when its variables are left alone.           *)
LEMMA CarriedStutter ==
  ASSUME part' = part
  PROVE  /\ HealthInv /\ UNCHANGED healthVars => HealthInv'
         /\ RollbacksInv /\ UNCHANGED rollbacksVars => RollbacksInv'
         /\ ListingInv /\ UNCHANGED s3Vars => ListingInv'
         /\ GolangInv /\ UNCHANGED golangVars => GolangInv'
         /\ ArthasInv /\ UNCHANGED arthasVars => ArthasInv'
         /\ GadgetInv /\ UNCHANGED gadgetVars => GadgetInv'
         /\ HistoryInv /\ UNCHANGED consoleVars => HistoryInv'
         /\ FollowInv /\ UNCHANGED followVars => FollowInv'
         /\ TriageInv /\ UNCHANGED triageVars => TriageInv'
<1>1. HealthInv /\ UNCHANGED healthVars => HealthInv'
  BY DEF HealthInv, healthVars, Health!TypeOK, Health!AppliedAsChosen, Health!Seen
<1>2. RollbacksInv /\ UNCHANGED rollbacksVars => RollbacksInv'
  BY DEF RollbacksInv, rollbacksVars, Rollbacks!TypeOK, KnownJobs, DoneSeen, StampedEntry,
         Rollbacks!ShownStatus
<1>3. ListingInv /\ UNCHANGED s3Vars => ListingInv'
  BY DEF ListingInv, s3Vars, S3!TypeOK, S3!LoadedIsComplete, ReadSoFar
<1>4. GolangInv /\ UNCHANGED golangVars => GolangInv'
  BY DEF GolangInv, golangVars, Golang!TypeOK, Golang!DeletedStaysGone,
         Golang!OneSessionPerTarget, GoKnown, GoStarting, Golang!Listed
<1>5. ArthasInv /\ UNCHANGED arthasVars => ArthasInv'
  BY DEF ArthasInv, arthasVars, Arthas!TypeOK, ArStartInv, ArListInv, ArKnown, ArSelected, Begun,
         Settled, Arthas!Listed
<1>6. GadgetInv /\ UNCHANGED gadgetVars => GadgetInv'
  BY DEF GadgetInv, gadgetVars, Gadget!TypeOK, NotAhead, GRefresh, GSeenInFull, Latest,
         Gadget!EventsOf
<1>7. HistoryInv /\ UNCHANGED consoleVars => HistoryInv' BY HistoryStutter
<1>8. FollowInv /\ UNCHANGED followVars => FollowInv'
  BY DEF FollowInv, followVars, Follow!TypeOK, ContainerInv
<1>9. TriageInv /\ UNCHANGED triageVars => TriageInv' BY TriageStutter
<1>10. QED BY <1>1, <1>2, <1>3, <1>4, <1>5, <1>6, <1>7, <1>8, <1>9

LEMMA TypedStutter ==
  ASSUME part' = part
  PROVE  /\ TraceTyped /\ UNCHANGED traceVars => TraceTyped'
         /\ LogsTyped /\ UNCHANGED logsVars => LogsTyped'
         /\ ProfilesTyped /\ UNCHANGED openSearchVars => ProfilesTyped'
<1>1. TraceTyped /\ UNCHANGED traceVars => TraceTyped' BY DEF TraceTyped, traceVars
<1>2. LogsTyped /\ UNCHANGED logsVars => LogsTyped' BY DEF LogsTyped, logsVars
<1>3. ProfilesTyped /\ UNCHANGED openSearchVars => ProfilesTyped'
  BY DEF ProfilesTyped, OpenSearch!TypeOK, openSearchVars
<1>4. QED BY <1>1, <1>2, <1>3

LEMMA NextCarriedInv == ShownInv /\ CarriedInv /\ [Next]_vars => CarriedInv'
<1> SUFFICES ASSUME ShownInv, CarriedInv, [Next]_vars PROVE CarriedInv'
  OBVIOUS
<1>1. /\ part' = part
      /\ Health!Next \/ UNCHANGED healthVars
      /\ Rollbacks!Next \/ UNCHANGED rollbacksVars
      /\ Trace!Next \/ UNCHANGED traceVars
      /\ Logs!Next \/ UNCHANGED logsVars
      /\ S3!Next \/ UNCHANGED s3Vars
      /\ OpenSearch!Next \/ UNCHANGED openSearchVars
      /\ Golang!Next \/ UNCHANGED golangVars
      /\ Arthas!Next \/ UNCHANGED arthasVars
      /\ Gadget!Next \/ UNCHANGED gadgetVars
      /\ Console!Next \/ UNCHANGED consoleVars
      /\ Follow!Next \/ UNCHANGED followVars
      /\ Triage!Next \/ UNCHANGED triageVars
  <2>1. CASE Next BY <2>1 DEF Next
  <2>2. CASE UNCHANGED vars BY <2>2 DEF vars
  <2>3. QED BY <2>1, <2>2
<1>2. HealthInv' BY <1>1, HealthStep, CarriedStutter DEF CarriedInv
<1>3. RollbacksInv' BY <1>1, RollbacksStep, CarriedStutter DEF CarriedInv
<1>4. ListingInv' BY <1>1, ListingStep, CarriedStutter DEF CarriedInv
<1>5. GolangInv' BY <1>1, GolangStep, CarriedStutter DEF CarriedInv
<1>6. ArthasInv' BY <1>1, ArthasStep, CarriedStutter DEF CarriedInv
<1>7. GadgetInv' BY <1>1, GadgetStep, CarriedStutter DEF CarriedInv
<1>8. HistoryInv' BY <1>1, HistoryStep, CarriedStutter DEF CarriedInv
<1>9. FollowInv' BY <1>1, FollowStep, CarriedStutter DEF CarriedInv
<1>10. TriageInv' BY <1>1, TriageStep, CarriedStutter DEF CarriedInv
<1>11. ShownTyped'
  <2>1. TraceTyped' BY <1>1, TraceTypedStep, TypedStutter DEF CarriedInv, ShownTyped
  <2>2. LogsTyped' BY <1>1, LogsTypedStep, TypedStutter DEF CarriedInv, ShownTyped
  <2>3. params = profileName BY DEF ShownInv, ProfilesInv
  <2>4. ProfilesTyped'
    BY <1>1, <2>3, ProfilesTypedStep, TypedStutter DEF CarriedInv, ShownTyped
  <2>5. QED BY <2>1, <2>2, <2>4 DEF ShownTyped
<1>12. QED
  BY <1>2, <1>3, <1>4, <1>5, <1>6, <1>7, <1>8, <1>9, <1>10, <1>11 DEF CarriedInv

LEMMA PartsInvariant == Spec => [](ShownInv /\ CarriedInv)
BY InitShownInv, NextShownInv, InitCarriedInv, NextCarriedInv, PTL DEF Spec

(* The state of every part is well typed: in particular, no counter, list  *)
(* or buffer of a page, cache or stream outgrows its bound, and every      *)
(* answer under way is one of those that its handler is written for.       *)
THEOREM PartsAreTyped == Spec => []TypeOK
<1>1. ASSUME ShownInv, CarriedInv PROVE TypeOK
  <2>1. part = "health" => Health!TypeOK BY <1>1 DEF CarriedInv, HealthInv
  <2>2. part = "rollbacks" => Rollbacks!TypeOK BY <1>1 DEF CarriedInv, RollbacksInv
  <2>3. part = "trace" => Trace!TypeOK BY <1>1, TraceTypes DEF CarriedInv, ShownTyped
  <2>4. part = "logs" => Logs!TypeOK BY <1>1, LogsTypes DEF CarriedInv, ShownTyped, ShownInv
  <2>5. part = "bucket" => S3!TypeOK BY <1>1 DEF CarriedInv, ListingInv
  <2>6. part = "profiles" => OpenSearch!TypeOK
    BY <1>1 DEF CarriedInv, ShownTyped, ProfilesTyped
  <2>7. part = "gadgets" => Gadget!TypeOK BY <1>1 DEF CarriedInv, GadgetInv
  <2>8. part = "golang" => Golang!TypeOK BY <1>1 DEF CarriedInv, GolangInv
  <2>9. part = "arthas" => Arthas!TypeOK BY <1>1 DEF CarriedInv, ArthasInv
  <2>10. part = "console" => Console!TypeOK BY <1>1 DEF CarriedInv, HistoryInv
  <2>11. part = "sql-server cache" => SqlCache!TypeOK BY <1>1 DEF ShownInv, CacheInv
  <2>12. part = "postgres cache" => PgCache!TypeOK
    <3>1. part = "postgres cache" => CacheInv(TRUE) BY <1>1 DEF ShownInv
    <3>2. CacheInv(TRUE) => PgCache!TypeOK
      <4> SUFFICES ASSUME CacheInv(TRUE) PROVE PgCache!TypeOK
        OBVIOUS
      <4>1. SqlCache!TypeOK BY DEF CacheInv
      <4>2. (part = "postgres cache") \in BOOLEAN OBVIOUS
      <4>3. QED
        BY <4>1, <4>2 DEF SqlCache!TypeOK, PgCache!TypeOK, SqlCache!Keys, PgCache!Keys,
                          SqlCache!Scopes, PgCache!Scopes
    <3>3. QED BY <3>1, <3>2
  <2>13. part = "follow" => Follow!TypeOK BY <1>1 DEF CarriedInv, FollowInv
  <2>14. part = "triage" => Triage!TypeOK BY <1>1, TriageIsTyped DEF CarriedInv
  <2>15. QED
    BY <2>1, <2>2, <2>3, <2>4, <2>5, <2>6, <2>7, <2>8, <2>9, <2>10, <2>11, <2>12, <2>13, <2>14
       DEF TypeOK
<1>2. QED BY <1>1, PartsInvariant, PTL

(* What was asked for is followed up as RequestsAreFollowedUp says, with   *)
(* the exceptions named there, in every order of answers, polls, jobs and  *)
(* writes, for any number of them and for every scan of a table            *)
(* (HealthTab.tsx, RollbacksTab.tsx, ConsoleTab.tsx, main.tsx of s3,       *)
(* App.tsx of golang, arthas and inspektor-gadget, client.go, http.go of   *)
(* kubernetes-logs, health.go).                                            *)
THEOREM FollowsUpRequests == Spec => []RequestsAreFollowedUp
<1>1. ASSUME ShownInv, CarriedInv PROVE RequestsAreFollowedUp
  <2>1. part = "health" => Health!AppliedAsChosen BY <1>1 DEF CarriedInv, HealthInv
  <2>2. part = "rollbacks" => Rollbacks!DoneIsShownRestored
    BY <1>1, RollbacksShown DEF CarriedInv
  <2>3. part = "bucket" => S3!LoadedIsComplete BY <1>1 DEF CarriedInv, ListingInv
  <2>4. part = "gadgets" => Gadget!CompletedIsShownToTheEnd BY <1>1, GadgetShown DEF CarriedInv
  <2>5. part = "golang" => Golang!OneSessionPerTarget /\ Golang!DeletedStaysGone
    BY <1>1 DEF CarriedInv, GolangInv
  <2>6. part = "arthas" => Arthas!StartIsFollowed /\ Arthas!DeletedStaysGone
    BY <1>1, ArthasFollows DEF CarriedInv
  <2>7. part = "console" => Console!LinkRunsOnce /\ Console!HistoryIsMostRecent
    BY <1>1, LinkShown, HistoryShown DEF CarriedInv
  <2>8. /\ part = "sql-server cache" => SqlCache!LostPoolNeedsOverlap
        /\ part = "postgres cache" => PgCache!LostPoolNeedsOverlap
    BY <1>1, CacheLosses DEF ShownInv
  <2>9. part = "follow" => Follow!FramesAreWholeAndOrdered /\ Follow!ReturnedAfterLastLine
    BY <1>1, FollowWrites DEF CarriedInv
  <2>10. part = "triage" => Triage!UnmetNeedIsOfAColumn /\ Triage!UsedIndexHasSubstitute
    BY <1>1, NeedsAreMet, SubstituteStays DEF CarriedInv
  <2>11. QED
    BY <2>1, <2>2, <2>3, <2>4, <2>5, <2>6, <2>7, <2>8, <2>9, <2>10 DEF RequestsAreFollowedUp
<1>2. QED BY <1>1, PartsInvariant, PTL
=============================================================================
