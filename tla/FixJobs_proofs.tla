--------------------------- MODULE FixJobs_proofs ---------------------------
(***************************************************************************)
(* Proofs about FixJobs for every set of calls, indexes and batches and    *)
(* every bound: orderFixes sorts, drops come last, the report of a job is  *)
(* complete, a stopped job carries out one late statement at most, and a   *)
(* dropped index can be restored or its loss was reported.                 *)
(***************************************************************************)
EXTENDS FixJobs, FiniteSetTheorems, FunctionTheorems, SequenceTheorems, TLAPS

-----------------------------------------------------------------------------
(* orderFixes. *)

(* By table, then by rank, then by position is a strict total order.       *)
Smaller(t, k, i, u, l, j) ==
  \/ t < u
  \/ t = u /\ k < l
  \/ ~(u < t \/ (u = t /\ l < k)) /\ i < j

LEMMA SmallerIsTotalOrder ==
  ASSUME NEW t \in Nat, NEW k \in Nat, NEW i \in Nat,
         NEW u \in Nat, NEW l \in Nat, NEW j \in Nat,
         NEW v \in Nat, NEW m \in Nat, NEW h \in Nat
  PROVE  /\ ~Smaller(t, k, i, t, k, i)
         /\ i # j => Smaller(t, k, i, u, l, j) \/ Smaller(u, l, j, t, k, i)
         /\ Smaller(t, k, i, u, l, j) /\ Smaller(u, l, j, v, m, h) => Smaller(t, k, i, v, m, h)
<1>1. ~Smaller(t, k, i, t, k, i) BY DEF Smaller
<1>2. i # j => Smaller(t, k, i, u, l, j) \/ Smaller(u, l, j, t, k, i) BY DEF Smaller
<1>3. Smaller(t, k, i, u, l, j) /\ Smaller(u, l, j, v, m, h) => Smaller(t, k, i, v, m, h)
  BY DEF Smaller
<1>4. QED BY <1>1, <1>2, <1>3

(* The comparison of a stable sort is a strict total order of positions.   *)
LEMMA GoesBeforeIsTotalOrder ==
  ASSUME NEW b \in Seq(Fixes)
  PROVE  /\ \A i \in DOMAIN b : ~GoesBefore(b, i, i)
         /\ \A i, j \in DOMAIN b : i # j => GoesBefore(b, i, j) \/ GoesBefore(b, j, i)
         /\ \A i, j, k \in DOMAIN b :
              GoesBefore(b, i, j) /\ GoesBefore(b, j, k) => GoesBefore(b, i, k)
<1>1. /\ DOMAIN b \subseteq Nat
      /\ \A i \in DOMAIN b : b[i].table \in Nat /\ KindRank(b[i].kind) \in 0 .. 2
  <2>1. DOMAIN b = 1 .. Len(b) /\ Len(b) \in Nat BY LenProperties
  <2>2. \A i \in DOMAIN b : b[i] \in Fixes BY <2>1, ElementOfSeq
  <2>3. \A f \in Fixes : f.table \in Nat /\ KindRank(f.kind) \in 0 .. 2
    BY DEF Fixes, KindRank
  <2>4. QED BY <2>1, <2>2, <2>3
<1> DEFINE T(i) == b[i].table
           K(i) == KindRank(b[i].kind)
<1>2. ASSUME NEW i, NEW j
      PROVE  GoesBefore(b, i, j) <=> Smaller(T(i), K(i), i, T(j), K(j), j)
  BY Zenon DEF GoesBefore, Less, Smaller
<1>3. \A i \in DOMAIN b : i \in Nat /\ T(i) \in Nat /\ K(i) \in Nat BY <1>1
<1> HIDE DEF T, K
<1>4. \A i \in DOMAIN b : ~GoesBefore(b, i, i) BY <1>2, <1>3, SmallerIsTotalOrder, ZenonT(30)
<1>5. \A i, j \in DOMAIN b : i # j => GoesBefore(b, i, j) \/ GoesBefore(b, j, i)
  BY <1>2, <1>3, SmallerIsTotalOrder, ZenonT(30)
<1>6. ASSUME NEW i \in DOMAIN b, NEW j \in DOMAIN b, NEW k \in DOMAIN b,
             GoesBefore(b, i, j), GoesBefore(b, j, k)
      PROVE  GoesBefore(b, i, k)
  <2>1. Smaller(T(i), K(i), i, T(j), K(j), j) /\ Smaller(T(j), K(j), j, T(k), K(k), k)
    BY <1>2, <1>6
  <2>2. Smaller(T(i), K(i), i, T(k), K(k), k)
    BY <1>3, <2>1, SmallerIsTotalOrder, ZenonT(30)
  <2>3. QED BY <1>2, <2>2
<1>7. QED BY <1>4, <1>5, <1>6

(* orderFixes applies every fix of the batch once, in the order of the     *)
(* comparison.                                                             *)
THEOREM OrderFixesSorts ==
  ASSUME NEW b \in Seq(Fixes)
  PROVE  /\ DOMAIN OrderFixes(b) = DOMAIN b
         /\ \E p \in Bijection(DOMAIN b, DOMAIN b) :
              /\ \A k \in DOMAIN b : OrderFixes(b)[k] = b[p[k]]
              /\ \A k, m \in DOMAIN b : k < m => GoesBefore(b, p[k], p[m])
<1> DEFINE D == DOMAIN b
           Before(i) == {j \in D : GoesBefore(b, j, i)}
           R == [i \in D |-> Cardinality(Before(i)) + 1]
           p == [k \in D |-> CHOOSE i \in D : Cardinality(Before(i)) = k - 1]
<1>1. D = 1 .. Len(b) /\ Len(b) \in Nat BY LenProperties
<1>2. IsFiniteSet(D) BY <1>1, FS_Interval
<1>2a. Cardinality(D) = Len(b) BY <1>1, FS_Interval
<1>3. ASSUME NEW i \in D
      PROVE  /\ IsFiniteSet(Before(i))
             /\ Cardinality(Before(i)) \in 0 .. Len(b) - 1
  <2>1. Before(i) \subseteq D /\ i \in D /\ i \notin Before(i)
    BY <1>3, GoesBeforeIsTotalOrder
  <2>2. /\ IsFiniteSet(Before(i))
        /\ Cardinality(Before(i)) <= Cardinality(D)
        /\ Cardinality(D) = Cardinality(Before(i)) => D = Before(i)
    BY <1>2, <2>1, FS_Subset
  <2>3. Cardinality(Before(i)) \in Nat BY <2>2, FS_CardinalityType
  <2> HIDE DEF Before
  <2>4. QED BY <1>1, <1>2a, <2>1, <2>2, <2>3
<1>4. ASSUME NEW i \in D, NEW j \in D, GoesBefore(b, i, j)
      PROVE  Cardinality(Before(i)) < Cardinality(Before(j))
  <2>1. Before(i) \subseteq Before(j) /\ i \in Before(j) /\ i \notin Before(i)
    BY <1>4, GoesBeforeIsTotalOrder
  <2>2. /\ Cardinality(Before(i)) <= Cardinality(Before(j))
        /\ Cardinality(Before(j)) = Cardinality(Before(i)) => Before(j) = Before(i)
    BY <1>3, <1>4, <2>1, FS_Subset
  <2> HIDE DEF Before
  <2>3. QED BY <1>1, <1>3, <1>4, <2>1, <2>2
<1>5. R \in [D -> D]
  <2> HIDE DEF Before
  <2>1. QED BY <1>1, <1>3
<1>6. \A i, j \in D : R[i] = R[j] => i = j
  <2> SUFFICES ASSUME NEW i \in D, NEW j \in D, R[i] = R[j], i # j PROVE FALSE
    OBVIOUS
  <2>1. GoesBefore(b, i, j) \/ GoesBefore(b, j, i) BY GoesBeforeIsTotalOrder
  <2>2. Cardinality(Before(i)) \in Nat /\ Cardinality(Before(j)) \in Nat
    BY <1>3, FS_CardinalityType
  <2>3. Cardinality(Before(i)) + 1 = Cardinality(Before(j)) + 1 OBVIOUS
  <2> HIDE DEF Before, R
  <2>4. QED BY <1>4, <2>1, <2>2, <2>3
<1>7. \A k \in D : \E i \in D : R[i] = k
  <2> HIDE DEF R
  <2>1. R \in Injection(D, D) BY <1>5, <1>6, Fun_IsInj
  <2>2. R \in Surjection(D, D) BY <1>2, <2>1, FS_Injection
  <2>3. QED BY <2>2, Fun_SurjectionProperties
<1>8. ASSUME NEW k \in D
      PROVE  p[k] \in D /\ Cardinality(Before(p[k])) = k - 1
  <2>1. PICK i \in D : R[i] = k BY <1>7, <1>8
  <2>2. Cardinality(Before(i)) \in Nat /\ k \in Nat
    BY <1>1, <1>3, <1>8, FS_CardinalityType
  <2>3. Cardinality(Before(i)) + 1 = k BY <2>1
  <2>4. p[k] = CHOOSE j \in D : Cardinality(Before(j)) = k - 1 BY <1>8
  <2> HIDE DEF Before, p, R
  <2>5. Cardinality(Before(i)) = k - 1 BY <2>2, <2>3
  <2>6. QED BY <2>4, <2>5
<1>9. p \in [D -> D] BY <1>8
<1>10. \A k, m \in D : p[k] = p[m] => k = m
  <2> SUFFICES ASSUME NEW k \in D, NEW m \in D, p[k] = p[m] PROVE k = m
    OBVIOUS
  <2>1. k - 1 = m - 1
    <3>1. Cardinality(Before(p[k])) = k - 1 /\ Cardinality(Before(p[m])) = m - 1 BY <1>8
    <3> HIDE DEF p, Before
    <3>2. QED BY <3>1
  <2>2. k \in Nat /\ m \in Nat BY <1>1
  <2>3. QED BY <2>1, <2>2
<1>11. p \in Bijection(D, D)
  <2> HIDE DEF p
  <2>1. p \in Injection(D, D) BY <1>9, <1>10, Fun_IsInj
  <2>2. p \in Surjection(D, D) BY <1>2, <2>1, FS_Injection
  <2>3. QED BY <2>1, <2>2, Fun_IsBij
<1>12. ASSUME NEW k \in D, NEW m \in D, k < m
       PROVE  GoesBefore(b, p[k], p[m])
  <2>1. /\ p[k] \in D /\ Cardinality(Before(p[k])) = k - 1
        /\ p[m] \in D /\ Cardinality(Before(p[m])) = m - 1
    BY <1>8
  <2>2. k \in Nat /\ m \in Nat BY <1>1
  <2> HIDE DEF p, Before
  <2>3. p[k] # p[m] BY <1>10, <1>12, <2>2
  <2>4. ~GoesBefore(b, p[m], p[k]) BY <1>4, <1>12, <2>1, <2>2
  <2>5. QED BY <2>1, <2>3, <2>4, GoesBeforeIsTotalOrder
<1>13. OrderFixes(b) = [k \in D |-> b[p[k]]] BY DEF OrderFixes
<1> HIDE DEF p, R, Before
<1>14. QED BY <1>11, <1>12, <1>13

-----------------------------------------------------------------------------
(* The inductive invariant. *)

FixPoints == {"next", "audit", "exec", "sent", "record", "decide"}
RestorePoints == {"restore", "restoreSent", "recordRestore", "markRestored"}
Steps(c) == IF IsRestore(c) THEN 1 ELSE Len(batch[c])

(* Each goroutine runs its own kind of job and is at a fix of its batch.   *)
InPlace(c) ==
  /\ entry[c] \in {0} \union DOMAIN audit
  /\ worker[c] = "none" => entry[c] = 0 /\ step[c] = 1 /\ jobs[c].status = "absent"
  /\ worker[c] \in FixPoints => ~IsRestore(c)
  /\ worker[c] \in RestorePoints => IsRestore(c)
  /\ worker[c] \in RestorePoints \union {"audit", "exec", "sent", "record", "append"} =>
       step[c] \in 1 .. Steps(c)
  /\ worker[c] = "next" => step[c] \in 1 .. Steps(c) + 1
  /\ worker[c] \in {"decide", "finish"} => step[c] = Steps(c) + 1

AllFine(c) ==
  \A k \in DOMAIN jobs[c].results : jobs[c].results[k].applied /\ ~jobs[c].results[k].error

(* A job has a result for every step it has made, an unsuccessful step has *)
(* an error, and the verdict is the one that the results call for.         *)
ReportFollows(c) ==
  /\ jobs[c].status # "absent" => Len(jobs[c].results) = step[c] - 1
  /\ worker[c] \in {"record", "append", "recordRestore", "markRestored"} =>
       res[c].applied \/ res[c].error
  /\ worker[c] = "finish" =>
       /\ verdict[c] # "none"
       /\ jobs[c].status # "absent" /\ verdict[c] # "stopped" =>
            (verdict[c] = "done" <=> AllFine(c))
  /\ jobs[c].status \in {"done", "failed"} =>
       /\ worker[c] = "done"
       /\ Len(jobs[c].results) = Steps(c)
       /\ jobs[c].status = "done" <=> AllFine(c)

(* A stop cancels the context, and of a stopped job only the statement     *)
(* that was in flight is still carried out.                                *)
StopReaches(c) ==
  /\ jobs[c].status = "running" => jobs[c].cancel
  /\ c \in stopped => ctxDone[c] /\ worker[c] # "none"
  /\ late[c] # 0 => late[c] = 1 /\ c \in stopped /\ worker[c] \notin {"sent", "restoreSent"}

(* An audit entry that no restore under way is about to stamp.             *)
Unclaimed(e) ==
  \A c \in Calls : worker[c] \in {"recordRestore", "markRestored"} => entry[c] # e

SafelyRecorded(i) ==
  \E e \in DOMAIN audit :
    audit[e].index = i /\ audit[e].action = "drop" /\ ~audit[e].restored /\ Unclaimed(e)

(* A missing index was dropped by a fix job that recorded it, or reports   *)
(* that something went wrong, or is forgotten.                             *)
Accounted(i) ==
  /\ dropper[i] \in Calls
  /\ ~IsRestore(dropper[i]) /\ worker[dropper[i]] # "none"
  /\ \/ SafelyRecorded(i)
     \/ Reported(dropper[i], i)
     \/ jobs[dropper[i]].status = "absent"

BatchSorted(c) ==
  \A k, m \in DOMAIN batch[c] :
    k < m => ~Less(batch[c][m], batch[c][k])

CallInv(c) == InPlace(c) /\ ReportFollows(c) /\ StopReaches(c) /\ BatchSorted(c)

IInv ==
  /\ TypeOK
  /\ \A c \in Calls : CallInv(c)
  /\ \A i \in dropped : Accounted(i)

-----------------------------------------------------------------------------
(* Lemmas about the operators of the model. *)

LEMMA OrderedBatch ==
  ASSUME NEW b \in Seq(Fixes)
  PROVE  /\ OrderFixes(b) \in Seq(Fixes)
         /\ \A k, m \in DOMAIN OrderFixes(b) :
              k < m => ~Less(OrderFixes(b)[m], OrderFixes(b)[k])
<1>1. DOMAIN b = 1 .. Len(b) /\ Len(b) \in Nat BY LenProperties
<1>2. PICK p \in Bijection(DOMAIN b, DOMAIN b) :
        /\ \A k \in DOMAIN b : OrderFixes(b)[k] = b[p[k]]
        /\ \A k, m \in DOMAIN b : k < m => GoesBefore(b, p[k], p[m])
  BY OrderFixesSorts
<1>3. DOMAIN OrderFixes(b) = DOMAIN b BY OrderFixesSorts
<1>4. \A k \in DOMAIN b : p[k] \in DOMAIN b BY Fun_BijectionProperties
<1>5. OrderFixes(b) \in Seq(Fixes)
  <2>1. \A k \in 1 .. Len(b) : b[p[k]] \in Fixes BY <1>1, <1>4, ElementOfSeq
  <2>2. OrderFixes(b) = [k \in 1 .. Len(b) |-> OrderFixes(b)[k]]
    BY <1>1 DEF OrderFixes
  <2>3. OrderFixes(b) \in [1 .. Len(b) -> Fixes] BY <1>1, <1>2, <2>1, <2>2
  <2>4. QED BY <1>1, <2>3, SeqDef
<1>6. ASSUME NEW k \in DOMAIN b, NEW m \in DOMAIN b, k < m
      PROVE  ~Less(OrderFixes(b)[m], OrderFixes(b)[k])
  <2>1. GoesBefore(b, p[k], p[m]) /\ ~GoesBefore(b, p[m], p[k])
    BY <1>2, <1>4, <1>6, GoesBeforeIsTotalOrder
  <2>2. ~Less(b[p[m]], b[p[k]]) BY <2>1, Zenon DEF GoesBefore
  <2>3. QED BY <1>2, <2>2
<1>7. QED BY <1>3, <1>5, <1>6

(* No failed result means that every result is fine.                       *)
LEMMA SummaryIsZero ==
  ASSUME TypeOK, NEW c \in Calls
  PROVE  /\ SummaryFailed(c) \in Nat
         /\ SummaryFailed(c) = 0 <=> AllFine(c)
<1> DEFINE bad == {k \in DOMAIN jobs[c].results :
                     ~jobs[c].results[k].applied \/ jobs[c].results[k].error}
<1>1. jobs[c].results \in Seq(Result) BY DEF TypeOK
<1>2. DOMAIN jobs[c].results = 1 .. Len(jobs[c].results) /\ Len(jobs[c].results) \in Nat
  BY <1>1, LenProperties
<1>3. IsFiniteSet(bad)
  <2>1. IsFiniteSet(DOMAIN jobs[c].results) BY <1>2, FS_Interval
  <2>2. QED BY <2>1, FS_Subset
<1>4. Cardinality(bad) \in Nat BY <1>3, FS_CardinalityType
<1>5. Cardinality(bad) = 0 <=> bad = {} BY <1>3, FS_EmptySet
<1>6. QED BY <1>4, <1>5 DEF SummaryFailed, AllFine

(* finish and appendResult change the job they are about.                  *)
LEMMA FinishJobEffect ==
  ASSUME TypeOK, NEW c \in Calls, NEW v \in Statuses, FinishJob(c, v)
  PROVE  /\ jobs' \in [Calls -> [status : Statuses, cancel : BOOLEAN, results : Seq(Result)]]
         /\ \A j \in Calls \ {c} : jobs'[j] = jobs[j]
         /\ jobs'[c].results = jobs[c].results
         /\ IF jobs[c].status = "absent" THEN jobs'[c] = jobs[c]
            ELSE jobs'[c].status = v /\ jobs'[c].cancel = FALSE
  BY DEF TypeOK, FinishJob

LEMMA AppendResultEffect ==
  ASSUME TypeOK, NEW c \in Calls, NEW r \in Result, AppendResult(c, r)
  PROVE  /\ jobs' \in [Calls -> [status : Statuses, cancel : BOOLEAN, results : Seq(Result)]]
         /\ \A j \in Calls \ {c} : jobs'[j] = jobs[j]
         /\ jobs'[c].status = jobs[c].status /\ jobs'[c].cancel = jobs[c].cancel
         /\ jobs[c].status = "absent" => jobs'[c] = jobs[c]
         /\ jobs[c].status # "absent" =>
              /\ Len(jobs'[c].results) = Len(jobs[c].results) + 1
              /\ jobs'[c].results[Len(jobs[c].results) + 1] = r
              /\ \A k \in DOMAIN jobs[c].results : jobs'[c].results[k] = jobs[c].results[k]
<1>1. CASE jobs[c].status = "absent"
  BY <1>1 DEF TypeOK, AppendResult
<1>2. CASE jobs[c].status # "absent"
  <2>1. jobs[c] \in [status : Statuses, cancel : BOOLEAN, results : Seq(Result)]
    BY DEF TypeOK
  <2>2. jobs' = [jobs EXCEPT ![c].results = Append(jobs[c].results, r)]
    BY <1>2 DEF AppendResult
  <2>3. /\ Append(jobs[c].results, r) \in Seq(Result)
        /\ Len(Append(jobs[c].results, r)) = Len(jobs[c].results) + 1
        /\ \A k \in 1 .. Len(jobs[c].results) :
             Append(jobs[c].results, r)[k] = jobs[c].results[k]
        /\ Append(jobs[c].results, r)[Len(jobs[c].results) + 1] = r
    BY <2>1, AppendProperties
  <2>4. DOMAIN jobs[c].results = 1 .. Len(jobs[c].results)
    BY <2>1, LenProperties
  <2>5. jobs'[c].results = Append(jobs[c].results, r)
    BY <2>2 DEF TypeOK
  <2>6. QED BY <1>2, <2>1, <2>2, <2>3, <2>4, <2>5 DEF TypeOK
<1>3. QED BY <1>1, <1>2

(* The step a goroutine is at is about an index.                           *)
LEMMA TargetIsIndex ==
  ASSUME TypeOK, NEW c \in Calls, InPlace(c), step[c] \in 1 .. Steps(c)
  PROVE  /\ Target(c) \in Indexes
         /\ ~IsRestore(c) => step[c] \in DOMAIN batch[c]
<1>1. CASE IsRestore(c)
  <2>1. audit \in Seq(AuditEntries) /\ entry[c] \in DOMAIN audit
    BY <1>1 DEF TypeOK, InPlace, IsRestore
  <2>2. audit[entry[c]] \in AuditEntries BY <2>1, ElementOfSeq, LenProperties
  <2>3. QED BY <1>1, <2>2 DEF Target, AuditEntries
<1>2. CASE ~IsRestore(c)
  <2>1. batch[c] \in Seq(Fixes) /\ step[c] \in 1 .. Len(batch[c])
    BY <1>2 DEF TypeOK, Steps
  <2>2. batch[c][step[c]] \in Fixes /\ step[c] \in DOMAIN batch[c]
    BY <2>1, ElementOfSeq, LenProperties
  <2>3. QED BY <1>2, <2>2 DEF Target, Fixes
<1>3. QED BY <1>1, <1>2

-----------------------------------------------------------------------------
(* What a step leaves alone. *)

Same(j) ==
  /\ batch'[j] = batch[j] /\ entry'[j] = entry[j] /\ ctxDone'[j] = ctxDone[j]
  /\ worker'[j] = worker[j] /\ step'[j] = step[j]
  /\ res'[j] = res[j] /\ verdict'[j] = verdict[j]
  /\ late'[j] = late[j] /\ (j \in stopped' <=> j \in stopped)

(* The audit table only grows; a stamp changes no index and no action.     *)
AuditGrows ==
  /\ DOMAIN audit \subseteq DOMAIN audit'
  /\ \A e \in DOMAIN audit :
       audit'[e].index = audit[e].index /\ audit'[e].action = audit[e].action

(* A job that is left alone, or pruned, keeps its part of the invariant.   *)
LEMMA OthersKeepInv ==
  ASSUME IInv, NEW j \in Calls, Same(j), jobs'[j] \in {jobs[j], AbsentJob}, AuditGrows
  PROVE  CallInv(j)'
<1>1. CallInv(j) BY DEF IInv
<1>2. IsRestore(j)' = IsRestore(j) /\ Steps(j)' = Steps(j) BY DEF IsRestore, Steps, Same
<1>3. AbsentJob.status = "absent" BY DEF AbsentJob
<1>4. InPlace(j)' BY <1>1, <1>2, <1>3 DEF CallInv, InPlace, Same, AuditGrows
<1>5. ReportFollows(j)'
  <2>1. CASE jobs'[j] = jobs[j]
    <3>1. AllFine(j)' <=> AllFine(j) BY <2>1 DEF AllFine
    <3>2. QED BY <1>1, <1>2, <2>1, <3>1 DEF CallInv, ReportFollows, Same
  <2>2. CASE jobs'[j] = AbsentJob
    BY <1>1, <1>2, <1>3, <2>2 DEF CallInv, ReportFollows, Same
  <2>3. QED BY <2>1, <2>2
<1>6. StopReaches(j)' BY <1>1, <1>3 DEF CallInv, StopReaches, Same
<1>7. BatchSorted(j)' BY <1>1 DEF CallInv, BatchSorted, Same
<1>8. QED BY <1>4, <1>5, <1>6, <1>7 DEF CallInv

(* A drop that was accounted for still is after a step of call c, if it    *)
(* is recorded or reported as well as before.                              *)
LEMMA DropStaysAccounted ==
  ASSUME IInv, NEW c \in Calls, NEW i \in dropped, dropper'[i] = dropper[i],
         \A j \in Calls \ {c} : Same(j) /\ jobs'[j] \in {jobs[j], AbsentJob},
         worker[c] # "none" =>
           /\ worker'[c] # "none" /\ entry'[c] = entry[c]
           /\ jobs[c].status = "absent" => jobs'[c].status = "absent"
           /\ Reported(c, i) /\ ~IsRestore(c) /\ jobs[c].status # "absent" =>
                Reported(c, i)' \/ SafelyRecorded(i)',
         SafelyRecorded(i) => SafelyRecorded(i)'
  PROVE  Accounted(i)'
<1> DEFINE d == dropper[i]
<1>1. d \in Calls /\ ~IsRestore(d) /\ worker[d] # "none" BY DEF IInv, Accounted
<1>2. d \in Calls /\ ~IsRestore(d)' /\ worker'[d] # "none"
  BY <1>1 DEF IsRestore, Same
<1>3. CASE SafelyRecorded(i) BY <1>2, <1>3 DEF Accounted
<1>4. CASE jobs[d].status = "absent"
  <2>1. jobs'[d].status = "absent" BY <1>1, <1>4 DEF AbsentJob
  <2>2. QED BY <1>2, <2>1 DEF Accounted
<1>5. CASE Reported(d, i) /\ jobs[d].status # "absent"
  <2>1. CASE d = c BY <1>1, <1>2, <1>5, <2>1 DEF Accounted
  <2>2. CASE d # c /\ jobs'[d] = jobs[d]
    <3>1. Target(d)' = Target(d) BY <1>1, <1>2, <2>2 DEF Target, Same
    <3>2. Reported(d, i)' BY <1>1, <1>5, <2>2, <3>1 DEF Reported, Same
    <3>3. QED BY <1>2, <3>2 DEF Accounted
  <2>3. CASE d # c /\ jobs'[d] = AbsentJob BY <1>2, <2>3 DEF Accounted, AbsentJob
  <2>4. QED BY <1>1, <2>1, <2>2, <2>3
<1>6. QED BY <1>3, <1>4, <1>5 DEF IInv, Accounted

(* A recorded drop stays recorded when its entry is not stamped and no     *)
(* restore begins to claim it.                                             *)
LEMMA RecordIsKept ==
  ASSUME NEW i, SafelyRecorded(i), AuditGrows,
         \A e \in DOMAIN audit :
           audit[e].index = i /\ ~audit[e].restored /\ Unclaimed(e) =>
             ~audit'[e].restored /\ Unclaimed(e)'
  PROVE  SafelyRecorded(i)'
  BY DEF SafelyRecorded, AuditGrows

-----------------------------------------------------------------------------
(* The inductive invariant holds initially and is kept by the calls. *)

LEMMA InitIInv == Init => IInv
<1> SUFFICES ASSUME Init PROVE IInv
  OBVIOUS
<1>1. <<>> \in Seq(Result) /\ <<>> \in Seq(Fixes) /\ <<>> \in Seq(AuditEntries)
  BY EmptySeq
<1>2. TypeOK
  <2>1. AbsentJob \in [status : Statuses, cancel : BOOLEAN, results : Seq(Result)]
    BY <1>1 DEF AbsentJob, Statuses
  <2>2. Pending \in Result BY DEF Pending, Result
  <2>3. QED BY <1>1, <2>1, <2>2 DEF Init, TypeOK, WorkerPoints
<1>3. ASSUME NEW c \in Calls PROVE CallInv(c)
  <2>1. /\ jobs[c] = AbsentJob /\ batch[c] = <<>> /\ entry[c] = 0 /\ worker[c] = "none"
        /\ step[c] = 1 /\ late[c] = 0 /\ c \notin stopped
    BY DEF Init
  <2>2. Len(jobs[c].results) = 0 /\ jobs[c].status = "absent"
    BY <2>1, EmptySeq DEF AbsentJob
  <2>3. DOMAIN batch[c] = {} BY <2>1
  <2>4. QED
    BY <2>1, <2>2, <2>3
       DEF CallInv, InPlace, ReportFollows, StopReaches, BatchSorted, FixPoints, RestorePoints
<1>4. dropped = {} BY DEF Init
<1>5. QED BY <1>2, <1>3, <1>4 DEF IInv

LEMMA InsertEffect ==
  ASSUME TypeOK, NEW c \in Calls, NEW p \in WorkerPoints, Insert(c, p)
  PROVE  /\ jobs' \in [Calls -> [status : Statuses, cancel : BOOLEAN, results : Seq(Result)]]
         /\ jobs'[c].status = "running" /\ jobs'[c].cancel = TRUE /\ jobs'[c].results = <<>>
         /\ \A j \in Calls \ {c} : jobs'[j] \in {jobs[j], AbsentJob}
<1> DEFINE J == [jobs EXCEPT ![c] = [AbsentJob EXCEPT !.status = "running", !.cancel = TRUE]]
<1>1. PICK removed \in SUBSET Calls :
        /\ Prunable(J, removed)
        /\ jobs' = [j \in Calls |-> IF j \in removed THEN AbsentJob ELSE J[j]]
  BY DEF Insert
<1> DEFINE new == [AbsentJob EXCEPT !.status = "running", !.cancel = TRUE]
<1>2. /\ AbsentJob \in [status : Statuses, cancel : BOOLEAN, results : Seq(Result)]
      /\ AbsentJob.results = <<>>
  <2>1. <<>> \in Seq(Result) BY EmptySeq
  <2>2. QED BY <2>1 DEF AbsentJob, Statuses
<1>3. /\ new.status = "running" /\ new.cancel = TRUE /\ new.results = <<>>
      /\ new \in [status : Statuses, cancel : BOOLEAN, results : Seq(Result)]
  BY <1>2 DEF Statuses
<1>4. J[c] = new /\ \A j \in Calls \ {c} : J[j] = jobs[j]
  BY DEF TypeOK
<1> HIDE DEF new
<1>5. c \notin removed BY <1>1, <1>3, <1>4 DEF Prunable, Finished
<1>6. \A j \in Calls : J[j] \in [status : Statuses, cancel : BOOLEAN, results : Seq(Result)]
  BY <1>3, <1>4 DEF TypeOK
<1> HIDE DEF J
<1>7. QED BY <1>1, <1>2, <1>3, <1>4, <1>5, <1>6

LEMMA StartIInv ==
  ASSUME IInv, NEW c \in Calls, StartFix(c) \/ StartRestore(c)
  PROVE  IInv'
<1>1. TypeOK /\ CallInv(c) BY DEF IInv
<1>2. PICK p \in {"next", "restore"} :
        /\ Insert(c, p)
        /\ p = "next" => entry'[c] = 0
        /\ p = "restore" => entry'[c] \in DOMAIN audit /\ entry'[c] # 0
        /\ worker[c] = "none"
        /\ batch' \in [Calls -> Seq(Fixes)] /\ entry' \in [Calls -> Nat]
        /\ \A j \in Calls \ {c} : batch'[j] = batch[j] /\ entry'[j] = entry[j]
        /\ BatchSorted(c)'
  <2>1. CASE StartFix(c)
    <3>1. PICK b \in Batches : batch' = [batch EXCEPT ![c] = OrderFixes(b)]
      BY <2>1 DEF StartFix
    <3>2. OrderFixes(b) \in Seq(Fixes)
      BY OrderedBatch, BatchesAssumption
    <3>3. batch'[c] = OrderFixes(b) BY <1>1, <3>1 DEF TypeOK
    <3>4. BatchSorted(c)' BY <3>3, OrderedBatch, BatchesAssumption DEF BatchSorted
    <3>5. worker[c] = "none" /\ Insert(c, "next") /\ UNCHANGED entry
      BY <2>1 DEF StartFix
    <3>6. entry[c] = 0 BY <1>1, <3>5 DEF CallInv, InPlace
    <3>7. QED BY <1>1, <3>1, <3>2, <3>4, <3>5, <3>6 DEF TypeOK
  <2>2. CASE StartRestore(c)
    <3>1. PICK e \in DOMAIN audit : entry' = [entry EXCEPT ![c] = e]
      BY <2>2 DEF StartRestore
    <3>2. e \in Nat /\ e # 0 BY <1>1, LenProperties DEF TypeOK
    <3>3. worker[c] = "none" /\ Insert(c, "restore") /\ UNCHANGED batch
      BY <2>2 DEF StartRestore
    <3>4. BatchSorted(c)' BY <1>1, <3>3 DEF CallInv, BatchSorted
    <3>5. QED BY <1>1, <3>1, <3>2, <3>3, <3>4 DEF TypeOK
  <2>3. QED BY <2>1, <2>2
<1>3. p \in WorkerPoints BY DEF WorkerPoints
<1>4. /\ jobs' \in [Calls -> [status : Statuses, cancel : BOOLEAN, results : Seq(Result)]]
      /\ jobs'[c].status = "running" /\ jobs'[c].cancel = TRUE /\ jobs'[c].results = <<>>
      /\ \A j \in Calls \ {c} : jobs'[j] \in {jobs[j], AbsentJob}
  BY <1>1, <1>2, <1>3, InsertEffect
<1>5. /\ worker' = [worker EXCEPT ![c] = p]
      /\ UNCHANGED <<ctxDone, step, res, verdict, dropped, audit, dropper, stopped, late,
                     faults, crashes>>
  BY <1>2 DEF Insert, Goto, database
<1>6. TypeOK' BY <1>1, <1>2, <1>3, <1>4, <1>5 DEF TypeOK
<1>7. AuditGrows BY <1>5 DEF AuditGrows
<1>8. \A j \in Calls \ {c} : Same(j) BY <1>1, <1>2, <1>5 DEF Same, TypeOK
<1>9. \A j \in Calls \ {c} : CallInv(j)' BY <1>4, <1>7, <1>8, OthersKeepInv
<1>10. CallInv(c)'
  <2>1. /\ worker'[c] = p /\ step'[c] = 1 /\ c \notin stopped' /\ late'[c] = 0
        /\ jobs'[c].status = "running" /\ jobs'[c].cancel /\ Len(jobs'[c].results) = 0
    BY <1>1, <1>2, <1>4, <1>5, EmptySeq DEF TypeOK, CallInv, InPlace, StopReaches
  <2>2. CASE p = "next"
    <3>1. batch'[c] \in Seq(Fixes) /\ ~IsRestore(c)' BY <1>2, <2>2 DEF IsRestore
    <3>2. Len(batch'[c]) \in Nat BY <3>1, LenProperties
    <3>3. InPlace(c)'
      BY <1>2, <2>1, <2>2, <3>1, <3>2 DEF InPlace, FixPoints, RestorePoints, Steps
    <3>4. ReportFollows(c)' BY <2>1, <2>2 DEF ReportFollows
    <3>5. StopReaches(c)' BY <2>1, <2>2 DEF StopReaches
    <3>6. QED BY <1>2, <3>3, <3>4, <3>5 DEF CallInv
  <2>3. CASE p = "restore"
    <3>1. IsRestore(c)' BY <1>2, <2>3 DEF IsRestore
    <3>2. InPlace(c)'
      BY <1>2, <1>5, <2>1, <2>3, <3>1 DEF InPlace, FixPoints, RestorePoints, Steps
    <3>3. ReportFollows(c)' BY <2>1, <2>3 DEF ReportFollows
    <3>4. StopReaches(c)' BY <2>1, <2>3 DEF StopReaches
    <3>5. QED BY <1>2, <3>2, <3>3, <3>4 DEF CallInv
  <2>4. QED BY <2>2, <2>3
<1>11. ASSUME NEW i \in dropped' PROVE Accounted(i)'
  <2>1. \A e \in DOMAIN audit : Unclaimed(e) => Unclaimed(e)'
    BY <1>1, <1>2, <1>5, <1>8 DEF Unclaimed, Same, TypeOK
  <2>2. SafelyRecorded(i) => SafelyRecorded(i)'
    BY <1>5, <1>7, <2>1, RecordIsKept
  <2>3. i \in dropped /\ dropper'[i] = dropper[i] BY <1>5
  <2>4. QED BY <1>2, <1>4, <1>8, <2>2, <2>3, DropStaysAccounted
<1>12. QED BY <1>6, <1>9, <1>10, <1>11 DEF IInv

(* Stop and StopRunning cancel running jobs and change no other.           *)
LEMMA StopIInv ==
  ASSUME IInv, NEW S \in SUBSET Calls, StopLocked(S)
  PROVE  IInv'
<1>1. TypeOK BY DEF IInv
<1> DEFINE stopping == {c \in S : jobs[c].status = "running"}
<1>2. /\ jobs' = [c \in Calls |-> IF c \in stopping
                                  THEN [jobs[c] EXCEPT !.status = "stopped", !.cancel = FALSE]
                                  ELSE jobs[c]]
      /\ ctxDone' = [c \in Calls |-> ctxDone[c] \/ (c \in stopping /\ jobs[c].cancel)]
      /\ stopped' = stopped \union stopping
      /\ UNCHANGED <<batch, entry, worker, step, res, verdict, dropped, audit, dropper, late,
                     faults, crashes>>
  BY DEF StopLocked, local
<1>3. \A c \in Calls :
        /\ jobs'[c] \in [status : Statuses, cancel : BOOLEAN, results : Seq(Result)]
        /\ jobs'[c].results = jobs[c].results
        /\ c \notin stopping => jobs'[c] = jobs[c]
        /\ c \in stopping => jobs'[c].status = "stopped"
  BY <1>1, <1>2 DEF TypeOK, Statuses
<1>4. \A c \in Calls :
        /\ ctxDone'[c] \in BOOLEAN
        /\ c \in stopped' => ctxDone'[c]
  BY <1>1, <1>2 DEF TypeOK, IInv, CallInv, StopReaches
<1>5. TypeOK'
  <2>1. jobs' \in [Calls -> [status : Statuses, cancel : BOOLEAN, results : Seq(Result)]]
    BY <1>2, <1>3
  <2>2. ctxDone' \in [Calls -> BOOLEAN] BY <1>2, <1>4
  <2>3. stopped' \in SUBSET Calls BY <1>1, <1>2 DEF TypeOK
  <2>4. QED BY <1>1, <1>2, <2>1, <2>2, <2>3 DEF TypeOK
<1>6. ASSUME NEW c \in Calls PROVE CallInv(c)'
  <2>1. CallInv(c) BY DEF IInv
  <2>2. IsRestore(c)' = IsRestore(c) /\ Steps(c)' = Steps(c) BY <1>2 DEF IsRestore, Steps
  <2>3. InPlace(c)' BY <1>2, <1>3, <2>1, <2>2 DEF CallInv, InPlace
  <2>4. AllFine(c)' <=> AllFine(c) BY <1>3 DEF AllFine
  <2>5. ReportFollows(c)' BY <1>2, <1>3, <2>1, <2>2, <2>4 DEF CallInv, ReportFollows
  <2>6. StopReaches(c)'
    BY <1>2, <1>3, <1>4, <2>1 DEF CallInv, StopReaches, InPlace
  <2>7. BatchSorted(c)' BY <1>2, <2>1 DEF CallInv, BatchSorted
  <2>8. QED BY <2>3, <2>5, <2>6, <2>7 DEF CallInv
<1>7. ASSUME NEW i \in dropped' PROVE Accounted(i)'
  <2>1. Accounted(i) BY <1>2 DEF IInv
  <2>2. SafelyRecorded(i) => SafelyRecorded(i)' BY <1>2 DEF SafelyRecorded, Unclaimed
  <2>3. \A c \in Calls : Target(c)' = Target(c) /\ IsRestore(c)' = IsRestore(c)
    BY <1>2 DEF Target, IsRestore
  <2>4. \A c \in Calls : Reported(c, i) => Reported(c, i)' BY <1>2, <1>3, <2>3 DEF Reported
  <2>5. \A c \in Calls : jobs[c].status = "absent" => jobs'[c].status = "absent"
    BY <1>3
  <2>6. QED BY <1>2, <2>1, <2>2, <2>3, <2>4, <2>5 DEF Accounted
<1>8. QED BY <1>5, <1>6, <1>7 DEF IInv

-----------------------------------------------------------------------------
(* A step of a job's goroutine. *)

LEMMA WorkerStepIInv ==
  ASSUME IInv, NEW c \in Calls, TypeOK', CallInv(c)',
         UNCHANGED <<batch, entry, ctxDone, stopped>>, AuditGrows,
         \A j \in Calls \ {c} :
           /\ worker'[j] = worker[j] /\ step'[j] = step[j] /\ res'[j] = res[j]
           /\ verdict'[j] = verdict[j] /\ late'[j] = late[j] /\ jobs'[j] = jobs[j],
         \A i \in dropped' : Accounted(i)'
  PROVE  IInv'
<1>1. ASSUME NEW j \in Calls \ {c} PROVE CallInv(j)'
  <2>1. Same(j) BY DEF Same
  <2>2. QED BY <2>1, OthersKeepInv
<1>2. QED BY <1>1 DEF IInv

(* Of a step that changes neither indexes nor the audit table it is left   *)
(* to show the new state of its own job.                                   *)
LEMMA QuietStepIInv ==
  ASSUME IInv, NEW c \in Calls, TypeOK', CallInv(c)',
         worker[c] # "none", worker'[c] \notin {"none", "recordRestore", "markRestored"},
         UNCHANGED <<batch, entry, ctxDone, stopped, dropped, audit, dropper, late>>,
         \A j \in Calls \ {c} :
           /\ worker'[j] = worker[j] /\ step'[j] = step[j] /\ res'[j] = res[j]
           /\ verdict'[j] = verdict[j] /\ jobs'[j] = jobs[j],
         jobs[c].status = "absent" => jobs'[c].status = "absent",
         \A i \in dropped :
           Reported(c, i) /\ ~IsRestore(c) /\ jobs[c].status # "absent" => Reported(c, i)'
  PROVE  IInv'
<1>1. AuditGrows BY DEF AuditGrows
<1>2. ASSUME NEW i \in dropped' PROVE Accounted(i)'
  <2>1. \A e \in DOMAIN audit : Unclaimed(e) => Unclaimed(e)'
    BY DEF Unclaimed
  <2>2. SafelyRecorded(i) => SafelyRecorded(i)' BY <1>1, <2>1, RecordIsKept
  <2>3. \A j \in Calls \ {c} : Same(j) BY DEF Same
  <2>4. QED BY <2>2, <2>3, DropStaysAccounted
<1>3. QED BY <1>1, <1>2, WorkerStepIInv

(* A result that was there is still there.                                 *)
LEMMA ReportedInResults ==
  ASSUME NEW c \in Calls, NEW i, Reported(c, i), worker[c] \notin {"record", "append"},
         UNCHANGED batch, jobs'[c].results = jobs[c].results
  PROVE  Reported(c, i)'
  BY DEF Reported

LEMMA NextFixIInv ==
  ASSUME IInv, NEW c \in Calls, NextFix(c)
  PROVE  IInv'
<1>1. TypeOK /\ CallInv(c) BY DEF IInv
<1>2. /\ worker[c] = "next"
      /\ UNCHANGED <<batch, entry, ctxDone, step, res, verdict, dropped, audit, dropper, stopped,
                     late, faults, crashes>>
  BY DEF NextFix, local, database
<1>3. PICK p \in {"decide", "done", "audit", "exec"} : worker' = [worker EXCEPT ![c] = p]
  BY DEF NextFix, Goto
<1>4. /\ ~IsRestore(c) /\ ~IsRestore(c)' /\ Steps(c) = Len(batch[c]) /\ Steps(c)' = Steps(c)
      /\ Len(batch[c]) \in Nat /\ step[c] \in 1 .. Steps(c) + 1
  BY <1>1, <1>2, LenProperties DEF CallInv, InPlace, FixPoints, IsRestore, Steps, TypeOK
<1>5. /\ p = "decide" => step[c] = Steps(c) + 1 /\ jobs' = jobs
      /\ p \in {"audit", "exec"} => step[c] \in 1 .. Steps(c) /\ jobs' = jobs
      /\ p = "done" => FinishJob(c, "stopped")
  BY <1>1, <1>2, <1>3, <1>4 DEF NextFix, Goto, TypeOK
<1>6. /\ jobs' \in [Calls -> [status : Statuses, cancel : BOOLEAN, results : Seq(Result)]]
      /\ \A j \in Calls \ {c} : jobs'[j] = jobs[j]
      /\ jobs'[c].results = jobs[c].results
      /\ jobs[c].status = "absent" => jobs'[c].status = "absent"
      /\ \/ jobs'[c] = jobs[c]
         \/ jobs'[c].status = "stopped" /\ p = "done"
  BY <1>1, <1>3, <1>5, FinishJobEffect DEF TypeOK, Statuses
<1>7. TypeOK' BY <1>1, <1>2, <1>3, <1>6 DEF TypeOK, WorkerPoints
<1>8. worker'[c] = p BY <1>1, <1>3 DEF TypeOK
<1>9. CallInv(c)'
  <2>1. InPlace(c)'
    BY <1>1, <1>2, <1>4, <1>5, <1>8 DEF CallInv, InPlace, FixPoints, RestorePoints
  <2>2. ReportFollows(c)'
    BY <1>1, <1>2, <1>6, <1>8 DEF CallInv, ReportFollows
  <2>3. StopReaches(c)' BY <1>1, <1>2, <1>6, <1>8 DEF CallInv, StopReaches
  <2>4. BatchSorted(c)' BY <1>1, <1>2 DEF CallInv, BatchSorted
  <2>5. QED BY <2>1, <2>2, <2>3, <2>4 DEF CallInv
<1>10. \A i \in dropped : Reported(c, i) => Reported(c, i)'
  BY <1>2, <1>6, ReportedInResults
<1>11. QED BY <1>1, <1>2, <1>3, <1>6, <1>7, <1>8, <1>9, <1>10, QuietStepIInv DEF TypeOK

(* The statements before the change itself: a failure is the result.       *)
LEMMA BeforeChangeIInv ==
  ASSUME IInv, NEW c \in Calls, EnsureAudit(c) \/ BeginFix(c) \/ BeginRestore(c)
  PROVE  IInv'
<1>1. TypeOK /\ CallInv(c) BY DEF IInv
<1>2. /\ worker[c] \in {"audit", "exec", "restore"}
      /\ UNCHANGED <<jobs, batch, entry, ctxDone, step, dropped, audit, dropper, stopped, late,
                     crashes>>
  BY DEF EnsureAudit, BeginFix, BeginRestore, local, database
<1>3. PICK p \in {"exec", "sent", "restoreSent", "append"} :
        /\ worker' = [worker EXCEPT ![c] = p]
        /\ p = "exec" => worker[c] = "audit"
        /\ p = "sent" => worker[c] = "exec" /\ ~ctxDone[c]
        /\ p = "restoreSent" => worker[c] = "restore" /\ ~ctxDone[c]
        /\ p = "append" => res' = [res EXCEPT ![c] = Failure]
        /\ p # "append" => UNCHANGED res
        /\ verdict' \in {verdict, [verdict EXCEPT ![c] = "stopped"]}
        /\ faults' \in {faults, faults + 1}
  BY DEF EnsureAudit, BeginFix, BeginRestore, Goto, StatementOk, StatementFails
<1>4. Failure \in Result /\ Failure.error BY DEF Failure, Result
<1>5. TypeOK'
  <2>1. worker' \in [Calls -> WorkerPoints] BY <1>1, <1>3 DEF TypeOK, WorkerPoints
  <2>2. res' \in [Calls -> Result] BY <1>1, <1>3, <1>4 DEF TypeOK
  <2>3. verdict' \in [Calls -> {"none", "done", "failed", "stopped"}] BY <1>1, <1>3 DEF TypeOK
  <2>4. faults' \in Nat BY <1>1, <1>3 DEF TypeOK
  <2>5. QED BY <1>1, <1>2, <2>1, <2>2, <2>3, <2>4 DEF TypeOK
<1>6. worker'[c] = p /\ (p = "append" => res'[c].error)
  BY <1>1, <1>3, <1>4 DEF TypeOK
<1>7. CallInv(c)'
  <2>1. IsRestore(c)' = IsRestore(c) /\ Steps(c)' = Steps(c) BY <1>2 DEF IsRestore, Steps
  <2>2. InPlace(c)'
    BY <1>1, <1>2, <1>3, <1>6, <2>1 DEF CallInv, InPlace, FixPoints, RestorePoints
  <2>3. AllFine(c)' <=> AllFine(c) BY <1>2 DEF AllFine
  <2>4. ReportFollows(c)'
    BY <1>1, <1>2, <1>6, <2>1, <2>3 DEF CallInv, ReportFollows
  <2>5. StopReaches(c)' BY <1>1, <1>2, <1>3, <1>6 DEF CallInv, StopReaches
  <2>6. BatchSorted(c)' BY <1>1, <1>2 DEF CallInv, BatchSorted
  <2>7. QED BY <2>2, <2>4, <2>5, <2>6 DEF CallInv
<1>8. \A i \in dropped : Reported(c, i) => Reported(c, i)'
  BY <1>2, ReportedInResults
<1>9. QED BY <1>1, <1>2, <1>3, <1>5, <1>6, <1>7, <1>8, QuietStepIInv DEF TypeOK

LEMMA DecideIInv ==
  ASSUME IInv, NEW c \in Calls, Decide(c)
  PROVE  IInv'
<1>1. TypeOK /\ CallInv(c) BY DEF IInv
<1>2. /\ worker[c] = "decide"
      /\ UNCHANGED <<batch, entry, ctxDone, step, res, dropped, audit, dropper, stopped, late,
                     faults, crashes>>
  BY DEF Decide, local, database
<1>3. /\ ~IsRestore(c) /\ IsRestore(c)' = IsRestore(c) /\ Steps(c)' = Steps(c)
      /\ step[c] = Steps(c) + 1
      /\ jobs[c].status \notin {"done", "failed"}
  BY <1>1, <1>2 DEF CallInv, InPlace, FixPoints, IsRestore, Steps, ReportFollows
<1>4. CASE jobs[c].status \in {"absent", "stopped"}
  <2>1. /\ worker' = [worker EXCEPT ![c] = "done"]
        /\ UNCHANGED verdict
        /\ jobs' \in {jobs, [jobs EXCEPT ![c].cancel = FALSE]}
    BY <1>4 DEF Decide, Goto
  <2>2. /\ jobs' \in [Calls -> [status : Statuses, cancel : BOOLEAN, results : Seq(Result)]]
        /\ \A j \in Calls \ {c} : jobs'[j] = jobs[j]
        /\ jobs'[c].status = jobs[c].status /\ jobs'[c].results = jobs[c].results
    <3>1. CASE jobs' = jobs BY <1>1, <3>1 DEF TypeOK
    <3>2. CASE jobs' = [jobs EXCEPT ![c].cancel = FALSE] BY <1>1, <3>2 DEF TypeOK
    <3>3. QED BY <2>1, <3>1, <3>2
  <2>3. TypeOK' BY <1>1, <1>2, <2>1, <2>2 DEF TypeOK, WorkerPoints
  <2>4. worker'[c] = "done" BY <1>1, <2>1 DEF TypeOK
  <2>5. CallInv(c)'
    <3>1. InPlace(c)' BY <1>1, <1>2, <1>3, <2>4 DEF CallInv, InPlace, FixPoints, RestorePoints
    <3>2. ReportFollows(c)' BY <1>1, <1>2, <1>4, <2>2, <2>4 DEF CallInv, ReportFollows
    <3>3. StopReaches(c)' BY <1>1, <1>2, <1>4, <2>2, <2>4 DEF CallInv, StopReaches
    <3>4. BatchSorted(c)' BY <1>1, <1>2 DEF CallInv, BatchSorted
    <3>5. QED BY <3>1, <3>2, <3>3, <3>4 DEF CallInv
  <2>6. \A i \in dropped : Reported(c, i) => Reported(c, i)'
    BY <1>2, <2>2, ReportedInResults
  <2>7. QED BY <1>1, <1>2, <2>1, <2>2, <2>3, <2>4, <2>5, <2>6, QuietStepIInv DEF TypeOK
<1>5. CASE jobs[c].status \notin {"absent", "stopped"}
  <2>1. /\ worker' = [worker EXCEPT ![c] = "finish"]
        /\ verdict' = [verdict EXCEPT ![c] = IF SummaryFailed(c) > 0 THEN "failed" ELSE "done"]
        /\ UNCHANGED jobs
    BY <1>5 DEF Decide, Goto
  <2>2. TypeOK' BY <1>1, <1>2, <2>1 DEF TypeOK, WorkerPoints
  <2>3. /\ worker'[c] = "finish" /\ verdict'[c] \in {"failed", "done"}
        /\ verdict'[c] = "done" <=> AllFine(c)
    BY <1>1, <2>1, SummaryIsZero DEF TypeOK
  <2>4. CallInv(c)'
    <3>1. InPlace(c)' BY <1>1, <1>2, <1>3, <2>3 DEF CallInv, InPlace, FixPoints, RestorePoints
    <3>2. AllFine(c)' <=> AllFine(c) BY <2>1 DEF AllFine
    <3>3. ReportFollows(c)' BY <1>1, <1>2, <1>3, <2>1, <2>3, <3>2 DEF CallInv, ReportFollows
    <3>4. StopReaches(c)' BY <1>1, <1>2, <2>1, <2>3 DEF CallInv, StopReaches
    <3>5. BatchSorted(c)' BY <1>1, <1>2 DEF CallInv, BatchSorted
    <3>6. QED BY <3>1, <3>3, <3>4, <3>5 DEF CallInv
  <2>5. \A i \in dropped : Reported(c, i) => Reported(c, i)'
    BY <1>2, <2>1, ReportedInResults
  <2>6. QED BY <1>1, <1>2, <2>1, <2>2, <2>3, <2>4, <2>5, QuietStepIInv DEF TypeOK
<1>6. QED BY <1>4, <1>5

LEMMA FinishIInv ==
  ASSUME IInv, NEW c \in Calls, Finish(c)
  PROVE  IInv'
<1>1. TypeOK /\ CallInv(c) BY DEF IInv
<1>2. /\ worker[c] = "finish" /\ worker' = [worker EXCEPT ![c] = "done"]
      /\ FinishJob(c, verdict[c])
      /\ UNCHANGED <<batch, entry, ctxDone, step, res, verdict, dropped, audit, dropper, stopped,
                     late, faults, crashes>>
  BY DEF Finish, Goto, local, database
<1>3. /\ step[c] = Steps(c) + 1 /\ verdict[c] \in {"done", "failed", "stopped"}
      /\ IsRestore(c)' = IsRestore(c) /\ Steps(c)' = Steps(c)
  BY <1>1, <1>2 DEF CallInv, InPlace, ReportFollows, TypeOK, IsRestore, Steps
<1>4. /\ jobs' \in [Calls -> [status : Statuses, cancel : BOOLEAN, results : Seq(Result)]]
      /\ \A j \in Calls \ {c} : jobs'[j] = jobs[j]
      /\ jobs'[c].results = jobs[c].results
      /\ IF jobs[c].status = "absent" THEN jobs'[c] = jobs[c]
         ELSE jobs'[c].status = verdict[c] /\ jobs'[c].cancel = FALSE
  BY <1>1, <1>2, <1>3, FinishJobEffect DEF Statuses
<1>5. TypeOK' BY <1>1, <1>2, <1>4 DEF TypeOK, WorkerPoints
<1>6. worker'[c] = "done" BY <1>1, <1>2 DEF TypeOK
<1>7. CallInv(c)'
  <2>1. InPlace(c)' BY <1>1, <1>2, <1>3, <1>6 DEF CallInv, InPlace, FixPoints, RestorePoints
  <2>2. AllFine(c)' <=> AllFine(c) BY <1>4 DEF AllFine
  <2>3. Steps(c) \in Nat
    BY <1>1, LenProperties DEF Steps, TypeOK
  <2>4. ReportFollows(c)'
    BY <1>1, <1>2, <1>3, <1>4, <1>6, <2>2, <2>3 DEF CallInv, ReportFollows
  <2>5. StopReaches(c)' BY <1>1, <1>2, <1>3, <1>4, <1>6 DEF CallInv, StopReaches
  <2>6. BatchSorted(c)' BY <1>1, <1>2 DEF CallInv, BatchSorted
  <2>7. QED BY <2>1, <2>4, <2>5, <2>6 DEF CallInv
<1>8. \A i \in dropped : Reported(c, i) => Reported(c, i)'
  BY <1>2, <1>4, ReportedInResults
<1>9. QED BY <1>1, <1>2, <1>4, <1>5, <1>6, <1>7, <1>8, QuietStepIInv DEF TypeOK

LEMMA AppendStepIInv ==
  ASSUME IInv, NEW c \in Calls, AppendStep(c)
  PROVE  IInv'
<1>1. TypeOK /\ CallInv(c) BY DEF IInv
<1>2. /\ worker[c] = "append"
      /\ AppendResult(c, res[c])
      /\ step' = [step EXCEPT ![c] = step[c] + 1]
      /\ res' = [res EXCEPT ![c] = Pending]
      /\ UNCHANGED <<batch, entry, ctxDone, dropped, audit, dropper, stopped, late,
                     faults, crashes>>
  BY DEF AppendStep, local, database
<1>3. /\ res[c] \in Result /\ Pending \in Result /\ (res[c].applied \/ res[c].error)
      /\ step[c] \in 1 .. Steps(c) /\ Steps(c) \in Nat
      /\ IsRestore(c)' = IsRestore(c) /\ Steps(c)' = Steps(c)
  BY <1>1, <1>2, LenProperties
     DEF CallInv, InPlace, ReportFollows, TypeOK, IsRestore, Steps, Pending, Result
<1>4. /\ jobs' \in [Calls -> [status : Statuses, cancel : BOOLEAN, results : Seq(Result)]]
      /\ \A j \in Calls \ {c} : jobs'[j] = jobs[j]
      /\ jobs'[c].status = jobs[c].status /\ jobs'[c].cancel = jobs[c].cancel
      /\ jobs[c].status # "absent" =>
           /\ Len(jobs'[c].results) = Len(jobs[c].results) + 1
           /\ jobs'[c].results[Len(jobs[c].results) + 1] = res[c]
           /\ \A k \in DOMAIN jobs[c].results : jobs'[c].results[k] = jobs[c].results[k]
  BY <1>1, <1>2, <1>3, AppendResultEffect
<1>5. PICK p \in {"finish", "next"} :
        /\ worker' = [worker EXCEPT ![c] = p]
        /\ p = "finish" =>
             /\ IsRestore(c)
             /\ \/ verdict[c] = "stopped" /\ verdict' = verdict
                \/ verdict' = [verdict EXCEPT ![c] = IF res[c].error THEN "failed" ELSE "done"]
        /\ p = "next" => ~IsRestore(c) /\ verdict' = verdict
  <2>1. CASE IsRestore(c)
    <3>1. worker' = [worker EXCEPT ![c] = "finish"]
      BY <2>1 DEF AppendStep, Goto
    <3>2. verdict' = [verdict EXCEPT ![c] = IF verdict[c] = "stopped" THEN verdict[c]
                                            ELSE IF res[c].error THEN "failed" ELSE "done"]
      BY <2>1 DEF AppendStep
    <3>3. \/ verdict[c] = "stopped" /\ verdict' = verdict
          \/ verdict' = [verdict EXCEPT ![c] = IF res[c].error THEN "failed" ELSE "done"]
      BY <1>1, <3>2 DEF TypeOK
    <3>4. QED BY <2>1, <3>1, <3>3
  <2>2. CASE ~IsRestore(c) BY <2>2 DEF AppendStep, Goto
  <2>3. QED BY <2>1, <2>2
<1>6. /\ worker'[c] = p /\ step'[c] = step[c] + 1
      /\ verdict' \in [Calls -> {"none", "done", "failed", "stopped"}]
      /\ \A j \in Calls \ {c} : verdict'[j] = verdict[j]
      /\ p = "finish" =>
           \/ verdict'[c] = "stopped"
           \/ verdict'[c] = IF res[c].error THEN "failed" ELSE "done"
  BY <1>1, <1>2, <1>5 DEF TypeOK
<1>7. TypeOK'
  <2>1. worker' \in [Calls -> WorkerPoints] BY <1>1, <1>5 DEF TypeOK, WorkerPoints
  <2>2. step' \in [Calls -> Nat] /\ res' \in [Calls -> Result]
    BY <1>1, <1>2, <1>3 DEF TypeOK
  <2>3. QED BY <1>1, <1>2, <1>4, <1>6, <2>1, <2>2 DEF TypeOK
<1>8. CallInv(c)'
  <2>1. InPlace(c)'
    <3>1. p = "finish" => Steps(c) = 1 BY <1>5 DEF Steps
    <3>2. /\ step'[c] \in 1 .. Steps(c)' + 1
          /\ p = "finish" => step'[c] = Steps(c)' + 1
      BY <1>3, <1>6, <3>1
    <3>3. entry'[c] \in {0} \union DOMAIN audit' BY <1>1, <1>2 DEF CallInv, InPlace
    <3>4. p = "next" => ~IsRestore(c)' BY <1>3, <1>5
    <3>5. QED BY <1>6, <3>2, <3>3, <3>4 DEF InPlace, FixPoints, RestorePoints
  <2>2. ReportFollows(c)'
    <3>1. jobs[c].status # "absent" => Len(jobs[c].results) = step[c] - 1
      BY <1>1, <1>2 DEF CallInv, ReportFollows
    <3>2. jobs[c].status \notin {"done", "failed"}
      BY <1>1, <1>2 DEF CallInv, ReportFollows
    <3>3. p = "finish" /\ jobs[c].status # "absent" =>
            (AllFine(c)' <=> res[c].applied /\ ~res[c].error)
      <4> SUFFICES ASSUME p = "finish", jobs[c].status # "absent"
                   PROVE  AllFine(c)' <=> res[c].applied /\ ~res[c].error
        OBVIOUS
      <4>1. step[c] = 1 BY <1>3, <1>5 DEF Steps
      <4>2. Len(jobs[c].results) = 0 BY <3>1, <4>1
      <4>3. Len(jobs'[c].results) = 1 /\ jobs'[c].results[1] = res[c] BY <1>4, <4>2
      <4>4. DOMAIN jobs'[c].results = 1 .. 1 BY <1>4, <4>3, LenProperties
      <4>5. QED BY <4>3, <4>4 DEF AllFine
    <3>4. QED
      BY <1>3, <1>4, <1>6, <3>1, <3>2, <3>3 DEF ReportFollows
  <2>3. StopReaches(c)' BY <1>1, <1>2, <1>4, <1>6 DEF CallInv, StopReaches
  <2>4. BatchSorted(c)' BY <1>1, <1>2 DEF CallInv, BatchSorted
  <2>5. QED BY <2>1, <2>2, <2>3, <2>4 DEF CallInv
<1>9. ASSUME NEW i \in dropped, Reported(c, i), ~IsRestore(c), jobs[c].status # "absent"
      PROVE  Reported(c, i)'
  <2>1. /\ Len(jobs[c].results) = step[c] - 1
        /\ DOMAIN jobs[c].results = 1 .. step[c] - 1
        /\ DOMAIN jobs'[c].results = 1 .. step[c]
    <3>1. Len(jobs[c].results) = step[c] - 1 /\ step[c] \in Nat
      BY <1>1, <1>2, <1>9 DEF CallInv, ReportFollows, TypeOK
    <3>2. Len(jobs'[c].results) = step[c] BY <1>4, <1>9, <3>1
    <3>3. QED BY <1>1, <1>4, <3>1, <3>2, LenProperties DEF TypeOK
  <2>2. CASE \E k \in DOMAIN jobs[c].results :
               batch[c][k].index = i /\ jobs[c].results[k].error
    <3>1. PICK k \in DOMAIN jobs[c].results :
            batch[c][k].index = i /\ jobs[c].results[k].error
      BY <2>2
    <3>2. k \in DOMAIN jobs'[c].results /\ jobs'[c].results[k] = jobs[c].results[k]
      BY <1>3, <1>4, <1>9, <2>1, <3>1
    <3>3. QED BY <1>2, <3>1, <3>2 DEF Reported
  <2>3. CASE Target(c) = i /\ res[c].error
    <3>1. jobs'[c].results[step[c]] = res[c] /\ step[c] \in DOMAIN jobs'[c].results
      BY <1>3, <1>4, <1>9, <2>1
    <3>2. batch'[c][step[c]].index = i BY <1>2, <1>9, <2>3 DEF Target
    <3>3. QED BY <2>3, <3>1, <3>2 DEF Reported
  <2>4. QED BY <1>2, <1>9, <2>2, <2>3 DEF Reported
<1>10. QED
  BY <1>1, <1>2, <1>4, <1>5, <1>6, <1>7, <1>8, <1>9, QuietStepIInv DEF TypeOK

-----------------------------------------------------------------------------
(* The end of a statement. *)

LEMMA EffectOnDatabase ==
  ASSUME TypeOK, NEW c \in Calls, Target(c) \in Indexes, Effect(c)
  PROVE  /\ dropped' \in SUBSET Indexes /\ dropper' \in [Indexes -> Calls \union {NoCall}]
         /\ late' \in [Calls -> Nat]
         /\ \A j \in Calls \ {c} : late'[j] = late[j]
         /\ late'[c] = IF c \in stopped THEN late[c] + 1 ELSE late[c]
         /\ UNCHANGED <<audit, stopped>>
         /\ IsRestore(c) => dropped' = dropped \ {Target(c)} /\ UNCHANGED dropper
         /\ ~IsRestore(c) =>
              /\ dropped' \subseteq dropped \union {Target(c)}
              /\ \A i \in dropped : dropper'[i] = dropper[i]
              /\ Target(c) \in dropped' \ dropped => dropper'[Target(c)] = c
<1>1. /\ late' \in [Calls -> Nat]
      /\ \A j \in Calls \ {c} : late'[j] = late[j]
      /\ late'[c] = IF c \in stopped THEN late[c] + 1 ELSE late[c]
      /\ UNCHANGED <<audit, stopped>>
  BY DEF TypeOK, Effect
<1>2. CASE IsRestore(c)
  BY <1>1, <1>2 DEF TypeOK, Effect
<1>3. CASE IsDrop(c)
  <2>1. /\ ~IsRestore(c) /\ Target(c) \notin dropped
        /\ dropped' = dropped \union {Target(c)}
        /\ dropper' = [dropper EXCEPT ![Target(c)] = c]
    BY <1>3 DEF Effect, IsDrop
  <2>2. QED BY <1>1, <2>1 DEF TypeOK
<1>4. CASE ~IsRestore(c) /\ ~IsDrop(c)
  BY <1>1, <1>4 DEF TypeOK, Effect
<1>5. QED BY <1>2, <1>3, <1>4

LEMMA EndFixIInv ==
  ASSUME IInv, NEW c \in Calls, EndFix(c) \/ EndRestore(c)
  PROVE  IInv'
<1>1. TypeOK /\ CallInv(c) BY DEF IInv
<1>2. /\ worker[c] = (IF IsRestore(c) THEN "restoreSent" ELSE "sent")
      /\ UNCHANGED <<jobs, batch, entry, ctxDone, step, verdict, crashes>>
  BY <1>1 DEF CallInv, InPlace, FixPoints, RestorePoints, EndFix, EndRestore, local
<1>3. /\ step[c] \in 1 .. Steps(c)
      /\ IsRestore(c)' = IsRestore(c) /\ Steps(c)' = Steps(c)
  BY <1>1, <1>2 DEF CallInv, InPlace, RestorePoints, IsRestore, Steps
<1>4. Target(c) \in Indexes BY <1>1, <1>3, TargetIsIndex DEF CallInv
<1>5. PICK p \in {"record", "append", "recordRestore"}, r \in Result :
        /\ worker' = [worker EXCEPT ![c] = p]
        /\ res' = [res EXCEPT ![c] = r]
        /\ r.applied \/ r.error
        /\ p = "recordRestore" => IsRestore(c) /\ Effect(c)
        /\ p = "record" => ~IsRestore(c)
        /\ IsDrop(c) => p = "record" \/ r.error
        /\ Effect(c) \/ UNCHANGED <<dropped, audit, dropper, stopped, late>>
        /\ faults' \in {faults, faults + 1}
  <2> DEFINE ok == [applied |-> TRUE, error |-> FALSE]
  <2>1. ok \in Result /\ ok.applied /\ Failure \in Result /\ Failure.error
    BY DEF Result, Failure
  <2>2. CASE EndFix(c) /\ Effect(c) /\ faults' = faults /\ res' = [res EXCEPT ![c] = ok]
             /\ Goto(c, IF IsDrop(c) THEN "record" ELSE "append")
    BY <2>1, <2>2 DEF Goto, IsDrop
  <2>3. CASE EndRestore(c) /\ Effect(c) /\ faults' = faults /\ res' = [res EXCEPT ![c] = ok]
             /\ Goto(c, "recordRestore")
    <3>1. IsRestore(c) BY <1>2, <2>3 DEF EndRestore
    <3>2. QED BY <2>1, <2>3, <3>1 DEF Goto, IsDrop
  <2>4. CASE StatementError(c) /\ res' = [res EXCEPT ![c] = Failure] /\ Goto(c, "append")
    BY <2>1, <2>4 DEF StatementError, StatementFails, Goto, database
  <2>5. QED BY <2>2, <2>3, <2>4 DEF EndFix, EndRestore
<1>6. /\ dropped' \in SUBSET Indexes /\ dropper' \in [Indexes -> Calls \union {NoCall}]
      /\ late' \in [Calls -> Nat]
      /\ \A j \in Calls \ {c} : late'[j] = late[j]
      /\ late'[c] = late[c] \/ (c \in stopped /\ late'[c] = late[c] + 1)
      /\ UNCHANGED <<audit, stopped>>
      /\ \A i \in dropped' :
           \/ i \in dropped /\ dropper'[i] = dropper[i]
           \/ i = Target(c) /\ dropper'[i] = c /\ IsDrop(c)
      /\ p = "recordRestore" => Target(c) \notin dropped'
  <2>1. CASE Effect(c)
    <3>1. \A i \in dropped' :
            \/ i \in dropped /\ dropper'[i] = dropper[i]
            \/ i = Target(c) /\ dropper'[i] = c /\ IsDrop(c)
      <4>1. CASE IsRestore(c) BY <1>1, <1>4, <2>1, <4>1, EffectOnDatabase
      <4>2. CASE IsDrop(c)
        BY <1>1, <1>4, <2>1, <4>2, EffectOnDatabase DEF IsDrop
      <4>3. CASE ~IsRestore(c) /\ ~IsDrop(c) BY <2>1, <4>3 DEF Effect
      <4>4. QED BY <4>1, <4>2, <4>3
    <3>2. p = "recordRestore" => Target(c) \notin dropped'
      BY <1>1, <1>4, <1>5, <2>1, EffectOnDatabase
    <3>3. QED BY <1>1, <1>4, <2>1, <3>1, <3>2, EffectOnDatabase
  <2>2. CASE UNCHANGED <<dropped, audit, dropper, stopped, late>> /\ ~Effect(c)
    BY <1>1, <1>5, <2>2 DEF TypeOK
  <2>3. QED BY <1>5, <2>1, <2>2
<1>7. worker'[c] = p /\ res'[c] = r BY <1>1, <1>5 DEF TypeOK
<1>8. TypeOK'
  <2>1. /\ worker' \in [Calls -> WorkerPoints] /\ res' \in [Calls -> Result] /\ faults' \in Nat
    BY <1>1, <1>5 DEF TypeOK, WorkerPoints
  <2>2. QED BY <1>1, <1>2, <1>6, <2>1 DEF TypeOK
<1>9. CallInv(c)'
  <2>1. InPlace(c)'
    BY <1>1, <1>2, <1>3, <1>5, <1>6, <1>7 DEF CallInv, InPlace, FixPoints, RestorePoints
  <2>2. AllFine(c)' <=> AllFine(c) BY <1>2 DEF AllFine
  <2>3. ReportFollows(c)'
    BY <1>1, <1>2, <1>3, <1>5, <1>7, <2>2 DEF CallInv, ReportFollows
  <2>4. StopReaches(c)'
    <3>1. late[c] = 0 /\ worker[c] # "none" BY <1>1, <1>2 DEF CallInv, StopReaches
    <3>2. QED BY <1>1, <1>2, <1>6, <1>7, <3>1 DEF CallInv, StopReaches
  <2>5. BatchSorted(c)' BY <1>1, <1>2 DEF CallInv, BatchSorted
  <2>6. QED BY <2>1, <2>3, <2>4, <2>5 DEF CallInv
<1>10. AuditGrows BY <1>6 DEF AuditGrows
<1>11. \A j \in Calls \ {c} :
         worker'[j] = worker[j] /\ res'[j] = res[j] /\ late'[j] = late[j]
  BY <1>1, <1>5, <1>6 DEF TypeOK
<1>12. ASSUME NEW i \in dropped' PROVE Accounted(i)'
  <2>1. CASE i = Target(c) /\ dropper'[i] = c /\ IsDrop(c)
    <3>1. Target(c)' = Target(c) /\ ~IsRestore(c)'
      BY <1>2, <1>3, <2>1 DEF Target, IsDrop
    <3>2. p \in {"record", "append"} /\ (p = "append" => r.error)
      BY <1>3, <1>5, <2>1, <3>1
    <3>3. Reported(c, i)' BY <1>7, <2>1, <3>1, <3>2 DEF Reported
    <3>4. QED BY <1>7, <2>1, <3>1, <3>3 DEF Accounted
  <2>2. CASE i \in dropped /\ dropper'[i] = dropper[i]
    <3>1. ASSUME NEW e \in DOMAIN audit, audit[e].index = i, Unclaimed(e)
          PROVE  Unclaimed(e)'
      <4>1. p = "recordRestore" => entry[c] # e
        BY <1>5, <1>6, <3>1 DEF Target
      <4>2. QED BY <1>2, <1>7, <1>11, <3>1, <4>1 DEF Unclaimed
    <3>2. SafelyRecorded(i) => SafelyRecorded(i)'
      BY <1>6, <1>10, <3>1, RecordIsKept
    <3>3. Reported(c, i) => Reported(c, i)' BY <1>2, ReportedInResults
    <3>4. \A j \in Calls \ {c} : Same(j) BY <1>2, <1>6, <1>11 DEF Same
    <3>5. QED BY <1>2, <1>7, <2>2, <3>2, <3>3, <3>4, DropStaysAccounted
  <2>3. QED BY <1>6, <2>1, <2>2
<1>13. QED BY <1>2, <1>6, <1>8, <1>9, <1>10, <1>11, <1>12, WorkerStepIInv

-----------------------------------------------------------------------------
(* The audit table. *)

LEMMA AuditStatementEffect ==
  ASSUME TypeOK, NEW c \in Calls, NEW new \in Seq(AuditEntries), AuditStatement(c, new)
  PROVE  /\ audit' \in {audit, new} /\ audit' \in Seq(AuditEntries)
         /\ res' \in [Calls -> Result] /\ faults' \in Nat
         /\ \A j \in Calls \ {c} : res'[j] = res[j]
         /\ res[c].applied \/ res[c].error => res'[c].applied \/ res'[c].error
         /\ audit' = new \/ res'[c].error
<1>1. CASE audit' = new /\ res' = res /\ faults' = faults
  BY <1>1 DEF TypeOK
<1>2. CASE /\ audit' \in {audit, new}
           /\ res' = [res EXCEPT ![c].error = TRUE]
           /\ faults' \in {faults, faults + 1}
  <2>1. faults' \in Nat BY <1>2 DEF TypeOK
  <2>2. /\ res' \in [Calls -> Result] /\ res'[c].error
        /\ \A j \in Calls \ {c} : res'[j] = res[j]
    BY <1>2 DEF TypeOK, Result
  <2>3. QED BY <1>2, <2>1, <2>2 DEF TypeOK
<1>3. QED
  BY <1>1, <1>2 DEF AuditStatement, StatementOk, StatementFails

(* A step that writes to the audit table keeps the invariant, if it stamps *)
(* no entry but its own and a drop that it was to record is recorded.      *)
LEMMA AuditStepIInv ==
  ASSUME IInv, NEW c \in Calls, NEW new \in Seq(AuditEntries), AuditStatement(c, new),
         NEW p \in {"append", "markRestored"}, worker' = [worker EXCEPT ![c] = p],
         \/ worker[c] = "record" /\ p = "append"
         \/ worker[c] = "recordRestore" /\ p = "markRestored"
         \/ worker[c] = "markRestored" /\ p = "append",
         UNCHANGED <<jobs, batch, entry, ctxDone, step, verdict, dropped, dropper, stopped, late,
                     crashes>>,
         DOMAIN audit \subseteq DOMAIN new,
         \A e \in DOMAIN audit :
           /\ new[e].index = audit[e].index /\ new[e].action = audit[e].action
           /\ Unclaimed(e) => new[e].restored = audit[e].restored,
         \A i : worker[c] = "record" /\ Target(c) = i /\ audit' = new => SafelyRecorded(i)'
  PROVE  IInv'
<1>1. TypeOK /\ CallInv(c) BY DEF IInv
<1>2. /\ audit' \in {audit, new} /\ audit' \in Seq(AuditEntries)
      /\ res' \in [Calls -> Result] /\ faults' \in Nat
      /\ \A j \in Calls \ {c} : res'[j] = res[j]
      /\ res[c].applied \/ res[c].error => res'[c].applied \/ res'[c].error
      /\ audit' = new \/ res'[c].error
  BY <1>1, AuditStatementEffect
<1>3. worker'[c] = p BY <1>1 DEF TypeOK
<1>4. worker' \in [Calls -> WorkerPoints] BY <1>1 DEF TypeOK, WorkerPoints
<1>5. TypeOK' BY <1>1, <1>2, <1>4 DEF TypeOK
<1>6. AuditGrows BY <1>2 DEF AuditGrows
<1>7. CallInv(c)'
  <2>1. IsRestore(c)' = IsRestore(c) /\ Steps(c)' = Steps(c) BY DEF IsRestore, Steps
  <2>2. InPlace(c)'
    BY <1>1, <1>3, <1>6, <2>1 DEF CallInv, InPlace, FixPoints, RestorePoints, AuditGrows
  <2>3. AllFine(c)' <=> AllFine(c) BY DEF AllFine
  <2>4. ReportFollows(c)'
    BY <1>1, <1>2, <1>3, <2>1, <2>3 DEF CallInv, ReportFollows
  <2>5. StopReaches(c)' BY <1>1, <1>3 DEF CallInv, StopReaches
  <2>6. BatchSorted(c)' BY <1>1 DEF CallInv, BatchSorted
  <2>7. QED BY <2>2, <2>4, <2>5, <2>6 DEF CallInv
<1>8. \A j \in Calls \ {c} : worker'[j] = worker[j] BY <1>1 DEF TypeOK
<1>9. ASSUME NEW i \in dropped' PROVE Accounted(i)'
  <2>1. \A e \in DOMAIN audit : Unclaimed(e) => Unclaimed(e)'
    BY <1>3, <1>8 DEF Unclaimed
  <2>2. SafelyRecorded(i) => SafelyRecorded(i)'
    BY <1>2, <1>6, <2>1, RecordIsKept
  <2>3. ASSUME Reported(c, i), ~IsRestore(c)
        PROVE  Reported(c, i)' \/ SafelyRecorded(i)'
    <3>1. worker[c] = "record" /\ p = "append"
      BY <1>1, <2>3 DEF CallInv, InPlace, RestorePoints
    <3>2. CASE Target(c) = i /\ audit' = new BY <3>1, <3>2
    <3>3. CASE Target(c) = i /\ res'[c].error
      <4>1. Target(c)' = i BY <2>3, <3>3 DEF Target, IsRestore
      <4>2. QED BY <1>3, <3>1, <3>3, <4>1 DEF Reported
    <3>4. CASE Target(c) # i BY <2>3, <3>1, <3>4 DEF Reported
    <3>5. QED BY <1>2, <3>2, <3>3, <3>4
  <2>4. \A j \in Calls \ {c} : Same(j) BY <1>2, <1>8 DEF Same
  <2>5. QED BY <1>3, <2>2, <2>3, <2>4, DropStaysAccounted
<1>10. QED BY <1>2, <1>5, <1>6, <1>7, <1>8, <1>9, WorkerStepIInv

LEMMA RecordIInv ==
  ASSUME IInv, NEW c \in Calls, RecordDrop(c) \/ RecordRestore(c)
  PROVE  IInv'
<1>1. TypeOK /\ CallInv(c) BY DEF IInv
<1>2. PICK action \in {"drop", "restore"}, p \in {"append", "markRestored"} :
        /\ AuditStatement(c, AuditRow(c, action))
        /\ worker' = [worker EXCEPT ![c] = p]
        /\ \/ worker[c] = "record" /\ p = "append" /\ action = "drop"
           \/ worker[c] = "recordRestore" /\ p = "markRestored"
        /\ UNCHANGED <<jobs, batch, entry, ctxDone, step, verdict, dropped, dropper, stopped,
                       late, crashes>>
  BY DEF RecordDrop, RecordRestore, Goto, local
<1> DEFINE row == [index |-> Target(c), action |-> action, restored |-> FALSE]
           new == AuditRow(c, action)
<1>3. Target(c) \in Indexes
  BY <1>1, <1>2, TargetIsIndex DEF CallInv, InPlace, RestorePoints
<1>4. row \in AuditEntries BY <1>3 DEF AuditEntries
<1>5. /\ new \in Seq(AuditEntries) /\ Len(new) = Len(audit) + 1 /\ new[Len(audit) + 1] = row
      /\ \A e \in 1 .. Len(audit) : new[e] = audit[e]
  BY <1>1, <1>4, AppendProperties DEF TypeOK, AuditRow
<1>6. DOMAIN audit = 1 .. Len(audit) /\ DOMAIN new = 1 .. Len(audit) + 1 /\ Len(audit) \in Nat
  BY <1>1, <1>5, LenProperties DEF TypeOK
<1>7. ASSUME NEW i, worker[c] = "record", Target(c) = i, audit' = new
      PROVE  SafelyRecorded(i)'
  <2>1. PICK e \in Nat : e = Len(audit) + 1 BY <1>6
  <2>2. \A j \in Calls : entry[j] # e
    <3>1. e # 0 /\ e \notin DOMAIN audit BY <1>6, <2>1
    <3>2. QED BY <3>1 DEF IInv, CallInv, InPlace
  <2>3. Unclaimed(e)' BY <1>2, <2>2 DEF Unclaimed
  <2>4. e \in DOMAIN audit' BY <1>6, <1>7, <2>1
  <2>5. audit'[e].index = i /\ audit'[e].action = "drop" /\ ~audit'[e].restored
    <3>1. action = "drop" BY <1>2, <1>7
    <3>2. audit'[e] = row BY <1>5, <1>7, <2>1
    <3>3. QED BY <1>7, <3>1, <3>2
  <2>6. QED BY <2>3, <2>4, <2>5 DEF SafelyRecorded
<1>8. AuditStatement(c, new) BY <1>2
<1> HIDE DEF new
<1>9. /\ DOMAIN audit \subseteq DOMAIN new
      /\ \A e \in DOMAIN audit : new[e] = audit[e]
  BY <1>5, <1>6
<1>10. QED BY <1>2, <1>5, <1>7, <1>8, <1>9, AuditStepIInv

LEMMA MarkRestoredIInv ==
  ASSUME IInv, NEW c \in Calls, MarkRestored(c)
  PROVE  IInv'
<1> DEFINE new == [audit EXCEPT ![entry[c]].restored = TRUE]
<1>1. TypeOK /\ CallInv(c) BY DEF IInv
<1>2. /\ worker[c] = "markRestored" /\ worker' = [worker EXCEPT ![c] = "append"]
      /\ AuditStatement(c, new)
      /\ UNCHANGED <<jobs, batch, entry, ctxDone, step, verdict, dropped, dropper, stopped,
                     late, crashes>>
  BY DEF MarkRestored, Goto, local
<1>3. entry[c] \in DOMAIN audit
  BY <1>1, <1>2 DEF CallInv, InPlace, RestorePoints, IsRestore
<1>4. audit \in Seq(AuditEntries) /\ DOMAIN audit = 1 .. Len(audit) /\ Len(audit) \in Nat
  BY <1>1, LenProperties DEF TypeOK
<1>5. \A e \in DOMAIN audit : audit[e] \in AuditEntries BY <1>4, ElementOfSeq
<1>6. /\ DOMAIN new = DOMAIN audit
      /\ \A e \in DOMAIN audit :
           /\ new[e] \in AuditEntries
           /\ new[e].index = audit[e].index /\ new[e].action = audit[e].action
           /\ e # entry[c] => new[e] = audit[e]
  BY <1>3, <1>5 DEF AuditEntries
<1>7. new \in Seq(AuditEntries)
  <2>1. new = [e \in 1 .. Len(audit) |-> new[e]] BY <1>4
  <2>2. new \in [1 .. Len(audit) -> AuditEntries] BY <1>4, <1>6, <2>1
  <2>3. QED BY <1>4, <2>2, SeqDef
<1>8. \A e \in DOMAIN audit : Unclaimed(e) => e # entry[c] BY <1>2 DEF Unclaimed
<1> HIDE DEF new
<1>9. QED BY <1>2, <1>6, <1>7, <1>8, AuditStepIInv

-----------------------------------------------------------------------------
(* After a crash every job is forgotten, and the server may have carried   *)
(* out the statements that were in flight.                                 *)
LEMMA CrashIInv ==
  ASSUME IInv, Crash
  PROVE  IInv'
<1>1. TypeOK /\ \A c \in Calls : CallInv(c) BY DEF IInv
<1>2. PICK carriedOut \in SUBSET {c \in Calls : worker[c] \in {"sent", "restoreSent"}} :
        LET drops == {c \in carriedOut : IsDrop(c) /\ Target(c) \notin dropped}
            recreated == {Target(c) : c \in {r \in carriedOut : IsRestore(r)}}
        IN  /\ dropped' = (dropped \ recreated) \union {Target(c) : c \in drops}
            /\ dropper' = [i \in Indexes |->
                             IF \E c \in drops : Target(c) = i
                             THEN CHOOSE c \in drops : Target(c) = i
                             ELSE dropper[i]]
  BY DEF Crash
<1> DEFINE drops == {c \in carriedOut : IsDrop(c) /\ Target(c) \notin dropped}
<1>3. /\ jobs' = [c \in Calls |-> AbsentJob]
      /\ worker' = [c \in Calls |-> IF worker[c] = "none" THEN "none" ELSE "done"]
      /\ UNCHANGED <<batch, entry, ctxDone, step, res, verdict, audit, stopped, late, faults>>
      /\ crashes' = crashes + 1
  BY DEF Crash, local
<1>4. \A c \in drops : c \in Calls /\ Target(c) \in Indexes /\ ~IsRestore(c) /\ worker[c] # "none"
  <2> SUFFICES ASSUME NEW c \in drops
               PROVE  c \in Calls /\ Target(c) \in Indexes /\ ~IsRestore(c) /\ worker[c] # "none"
    OBVIOUS
  <2>1. InPlace(c) /\ worker[c] \in {"sent", "restoreSent"} BY <1>1 DEF CallInv
  <2>2. step[c] \in 1 .. Steps(c) BY <2>1 DEF InPlace, RestorePoints
  <2>3. QED BY <1>1, <2>1, <2>2, TargetIsIndex DEF IsDrop
<1>5. \A i \in Indexes : \/ dropper'[i] \in drops /\ \E c \in drops : Target(c) = i
                         \/ dropper'[i] = dropper[i] /\ ~\E c \in drops : Target(c) = i
  BY <1>2
<1>6. dropped' \in SUBSET Indexes /\ dropped' \subseteq dropped \union {Target(c) : c \in drops}
  BY <1>1, <1>2, <1>4 DEF TypeOK
<1>7. dropper' \in [Indexes -> Calls \union {NoCall}]
  <2>1. dropper' = [i \in Indexes |-> dropper'[i]] BY <1>2
  <2>2. \A i \in Indexes : dropper[i] \in Calls \union {NoCall} BY <1>1 DEF TypeOK
  <2>3. \A i \in Indexes : dropper'[i] \in Calls \union {NoCall} BY <1>4, <1>5, <2>2
  <2> HIDE DEF drops
  <2>4. QED BY <2>1, <2>3
<1>8. /\ AbsentJob \in [status : Statuses, cancel : BOOLEAN, results : Seq(Result)]
      /\ AbsentJob.status = "absent"
  <2>1. <<>> \in Seq(Result) BY EmptySeq
  <2>2. QED BY <2>1 DEF AbsentJob, Statuses
<1>9. TypeOK'
  <2>1. /\ jobs' \in [Calls -> [status : Statuses, cancel : BOOLEAN, results : Seq(Result)]]
        /\ worker' \in [Calls -> WorkerPoints]
    BY <1>3, <1>8 DEF WorkerPoints
  <2>2. crashes' \in Nat BY <1>1, <1>3 DEF TypeOK
  <2>3. QED BY <1>1, <1>3, <1>6, <1>7, <2>1, <2>2 DEF TypeOK
<1>10. ASSUME NEW c \in Calls PROVE CallInv(c)'
  <2>1. CallInv(c) BY <1>1
  <2>2. jobs'[c].status = "absent" /\ worker'[c] \in {"none", "done"}
        /\ (worker'[c] = "none" <=> worker[c] = "none")
    BY <1>3, <1>8
  <2>3. InPlace(c)' BY <1>3, <2>1, <2>2 DEF CallInv, InPlace, FixPoints, RestorePoints
  <2>4. ReportFollows(c)' BY <2>2 DEF ReportFollows
  <2>5. StopReaches(c)' BY <1>3, <2>1, <2>2 DEF CallInv, StopReaches
  <2>6. BatchSorted(c)' BY <1>3, <2>1 DEF CallInv, BatchSorted
  <2>7. QED BY <2>3, <2>4, <2>5, <2>6 DEF CallInv
<1>11. ASSUME NEW i \in dropped' PROVE Accounted(i)'
  <2>1. dropper'[i] \in Calls /\ ~IsRestore(dropper'[i]) /\ worker[dropper'[i]] # "none"
    <3>1. CASE dropper'[i] \in drops BY <1>4, <3>1
    <3>2. CASE dropper'[i] = dropper[i] /\ ~\E c \in drops : Target(c) = i
      <4>1. i \in dropped BY <1>6, <3>2
      <4>2. QED BY <3>2, <4>1 DEF IInv, Accounted
    <3>3. QED BY <1>5, <1>6, <3>1, <3>2
  <2>2. PICK d \in Calls : d = dropper'[i] BY <2>1
  <2>3. ~IsRestore(d)' BY <1>3, <2>1, <2>2 DEF IsRestore
  <2>4. worker'[d] # "none" /\ jobs'[d].status = "absent"
    BY <1>3, <1>8, <2>1, <2>2
  <2>5. QED BY <2>2, <2>3, <2>4 DEF Accounted
<1>12. QED BY <1>9, <1>10, <1>11 DEF IInv

-----------------------------------------------------------------------------
(* Every step keeps the inductive invariant. *)

LEMMA NextIInv ==
  ASSUME IInv, [Next]_vars
  PROVE  IInv'
<1>1. ASSUME NEW c \in Calls, StartFix(c) \/ StartRestore(c) PROVE IInv'
  BY <1>1, StartIInv
<1>2. ASSUME NEW c \in Calls, Stop(c) PROVE IInv'
  BY <1>2, StopIInv DEF Stop
<1>3. ASSUME NEW c \in Calls, FixWorker(c) PROVE IInv'
  BY <1>3, NextFixIInv, BeforeChangeIInv, EndFixIInv, RecordIInv, AppendStepIInv, DecideIInv,
     FinishIInv DEF FixWorker
<1>4. ASSUME NEW c \in Calls, RestoreWorker(c) PROVE IInv'
  BY <1>4, BeforeChangeIInv, EndFixIInv, RecordIInv, MarkRestoredIInv DEF RestoreWorker
<1>5. CASE StopRunning BY <1>5, StopIInv DEF StopRunning
<1>6. CASE Crash BY <1>6, CrashIInv
<1>7. CASE UNCHANGED vars
  BY <1>7 DEF vars, local, database, IInv, TypeOK, CallInv, InPlace, ReportFollows, StopReaches,
              BatchSorted, AllFine, Accounted, SafelyRecorded, Unclaimed, Reported, Steps,
              IsRestore, Target
<1>8. QED BY <1>1, <1>2, <1>3, <1>4, <1>5, <1>6, <1>7 DEF Next

LEMMA Invariant == Spec => []IInv
<1>1. IInv /\ [Next]_vars => IInv' BY NextIInv
<1>2. QED BY <1>1, InitIInv, PTL DEF Spec

-----------------------------------------------------------------------------
(* Theorems *)

(* The registry, the goroutines and the database keep their types.         *)
THEOREM TypeCorrect == Spec => []TypeOK
<1>1. IInv => TypeOK BY DEF IInv
<1>2. QED BY <1>1, Invariant, PTL

(* A job has one result for each fix that its goroutine has left behind;   *)
(* one that ended as done or failed has one for every fix of its batch,    *)
(* and its status says whether one of them failed, for batches of any      *)
(* length, any number of jobs, stops, failures and restarts (runDetached). *)
THEOREM ReportsAreComplete == Spec => []ReportIsComplete
<1>1. IInv => ReportIsComplete
  <2>1. ASSUME IInv, NEW c \in Calls
        PROVE  jobs[c].status # "absent" => Len(jobs[c].results) = step[c] - 1
    BY <2>1 DEF IInv, CallInv, ReportFollows
  <2>2. ASSUME IInv, NEW c \in Calls, jobs[c].status \in {"done", "failed"}
        PROVE  /\ Len(jobs[c].results) = IF IsRestore(c) THEN 1 ELSE Len(batch[c])
               /\ jobs[c].status = "done" <=> SummaryFailed(c) = 0
    <3>1. TypeOK /\ ReportFollows(c) BY <2>2 DEF IInv, CallInv
    <3>2. Len(jobs[c].results) = Steps(c) /\ (jobs[c].status = "done" <=> AllFine(c))
      BY <2>2, <3>1 DEF ReportFollows
    <3>3. SummaryFailed(c) = 0 <=> AllFine(c) BY <2>2, <3>1, SummaryIsZero
    <3>4. QED BY <3>2, <3>3 DEF Steps
  <2>3. QED BY <2>1, <2>2 DEF ReportIsComplete
<1>2. QED BY <1>1, Invariant, PTL

(* Within a table no other fix follows a drop of an index, whatever        *)
(* batch the caller sends (orderFixes sorts it before the job starts).     *)
THEOREM DropsLast == Spec => []DropsComeLast
<1>1. IInv => DropsComeLast
  <2> SUFFICES ASSUME IInv, NEW c \in Calls, NEW k \in DOMAIN batch[c], NEW m \in DOMAIN batch[c],
                      k < m, batch[c][k].table = batch[c][m].table,
                      batch[c][k].kind = "drop-index"
               PROVE  batch[c][m].kind = "drop-index"
    BY DEF DropsComeLast
  <2>1. ~Less(batch[c][m], batch[c][k]) BY DEF IInv, CallInv, BatchSorted
  <2>2. batch[c] \in Seq(Fixes) BY DEF IInv, TypeOK
  <2>3. batch[c][m] \in Fixes BY <2>2, ElementOfSeq, LenProperties
  <2>4. QED BY <2>1, <2>3 DEF Less, KindRank, Fixes, FixKinds
<1>2. QED BY <1>1, Invariant, PTL

(* An index that a fix dropped can be restored from the audit table, or    *)
(* the dropping job reports that something went wrong with it, or is       *)
(* forgotten (applyOneFix, runRestoreDetached).                            *)
THEOREM DropsAreRecoverable == Spec => []DroppedIsRecoverableOrReported
<1>1. IInv => DroppedIsRecoverableOrReported
  BY DEF IInv, Accounted, SafelyRecorded, DroppedIsRecoverableOrReported, Recoverable
<1>2. QED BY <1>1, Invariant, PTL

(* Of a stopped job the server carries out at most one more statement.     *)
THEOREM LateStatements == Spec => []AtMostOneLateStatement
<1>1. IInv => AtMostOneLateStatement
  <2> SUFFICES ASSUME IInv, NEW c \in Calls PROVE late[c] <= 1
    BY DEF AtMostOneLateStatement
  <2>1. late[c] \in Nat /\ (late[c] # 0 => late[c] = 1)
    BY DEF IInv, TypeOK, CallInv, StopReaches
  <2>2. QED BY <2>1
<1>2. QED BY <1>1, Invariant, PTL
=============================================================================
