---------------------------- MODULE SequenceFacts ----------------------------
(***************************************************************************)
(* What the proofs about buffers, queues and channels need of Append, Head *)
(* and Tail: lengths, places and the set of elements.                      *)
(***************************************************************************)
EXTENDS Filter, Naturals, Sequences, SequenceTheorems, FiniteSetTheorems, FunctionTheorems, TLAPS

(* ToSet of SequencesExt.                                                  *)
Elements(q) == {q[i] : i \in DOMAIN q}

(* An element is appended behind all others.                              *)
LEMMA AppendFacts ==
  ASSUME NEW K, NEW q \in Seq(K), NEW e \in K
  PROVE  /\ Append(q, e) \in Seq(K)
         /\ Len(Append(q, e)) = Len(q) + 1 /\ Len(q) \in Nat
         /\ \A i \in 1 .. Len(q) : Append(q, e)[i] = q[i]
         /\ Append(q, e)[Len(q) + 1] = e
         /\ DOMAIN q = 1 .. Len(q) /\ DOMAIN Append(q, e) = 1 .. Len(q) + 1
         /\ Elements(Append(q, e)) = Elements(q) \union {e}
<1>1. /\ Append(q, e) \in Seq(K)
      /\ Len(Append(q, e)) = Len(q) + 1 /\ Len(q) \in Nat
      /\ \A i \in 1 .. Len(q) : Append(q, e)[i] = q[i]
      /\ Append(q, e)[Len(q) + 1] = e
  BY AppendProperties, LenProperties
<1>2. DOMAIN q = 1 .. Len(q) /\ DOMAIN Append(q, e) = 1 .. Len(q) + 1
  BY <1>1, LenProperties
<1>3. Elements(Append(q, e)) = Elements(q) \union {e}
  <2> DEFINE r == Append(q, e)
  <2>1. /\ Len(q) \in Nat /\ DOMAIN r = 1 .. Len(q) + 1 /\ DOMAIN q = 1 .. Len(q)
        /\ r[Len(q) + 1] = e /\ \A i \in 1 .. Len(q) : r[i] = q[i]
    BY <1>1, <1>2
  <2> HIDE DEF r
  <2>2. \A i \in DOMAIN r : i \in DOMAIN q \/ i = Len(q) + 1 BY <2>1
  <2>3. \A i \in DOMAIN q : i \in DOMAIN r /\ r[i] = q[i] BY <2>1
  <2>4. Len(q) + 1 \in DOMAIN r BY <2>1
  <2>5. {r[i] : i \in DOMAIN r} = {q[i] : i \in DOMAIN q} \union {e}
    BY <2>1, <2>2, <2>3, <2>4
  <2>6. QED BY <2>5 DEF Elements, r
<1>4. QED BY <1>1, <1>2, <1>3

(* The tail is the rest, one place further.                                *)
LEMMA TailFacts ==
  ASSUME NEW K, NEW q \in Seq(K), q # <<>>
  PROVE  /\ Tail(q) \in Seq(K) /\ Head(q) \in K
         /\ Len(q) \in Nat \ {0} /\ Len(Tail(q)) = Len(q) - 1
         /\ \A i \in 1 .. Len(q) - 1 : Tail(q)[i] = q[i + 1]
         /\ DOMAIN q = 1 .. Len(q) /\ DOMAIN Tail(q) = 1 .. Len(q) - 1
         /\ Head(q) = q[1]
         /\ Elements(q) = {Head(q)} \union Elements(Tail(q))
<1>1. /\ Tail(q) \in Seq(K) /\ Head(q) = q[1]
      /\ Len(q) \in Nat \ {0} /\ Len(Tail(q)) = Len(q) - 1
      /\ \A i \in 1 .. Len(q) - 1 : Tail(q)[i] = q[i + 1]
  BY HeadTailProperties, LenProperties, EmptySeq
<1>2. DOMAIN q = 1 .. Len(q) /\ DOMAIN Tail(q) = 1 .. Len(q) - 1
  BY <1>1, LenProperties
<1>3. Head(q) \in K BY <1>1, ElementOfSeq
<1>4. Elements(q) = {Head(q)} \union Elements(Tail(q))
  <2> DEFINE r == Tail(q)
  <2>1. /\ Len(q) \in Nat \ {0} /\ DOMAIN r = 1 .. Len(q) - 1 /\ DOMAIN q = 1 .. Len(q)
        /\ \A i \in 1 .. Len(q) - 1 : r[i] = q[i + 1]
    BY <1>1, <1>2
  <2> HIDE DEF r
  <2>2. \A i \in DOMAIN q : i = 1 \/ (i - 1 \in DOMAIN r /\ r[i - 1] = q[i]) BY <2>1
  <2>3. \A i \in DOMAIN r : i + 1 \in DOMAIN q /\ r[i] = q[i + 1] BY <2>1
  <2>4. 1 \in DOMAIN q BY <2>1
  <2>5. {q[i] : i \in DOMAIN q} = {q[1]} \union {r[i] : i \in DOMAIN r}
    BY <2>2, <2>3, <2>4
  <2>6. QED BY <1>1, <2>5 DEF Elements, r
<1>5. QED BY <1>1, <1>2, <1>3, <1>4

-----------------------------------------------------------------------------
(* A buffer that keeps its newest m elements. *)

KeepNewest(q, m) == IF Len(q) > m THEN SubSeq(q, Len(q) - m + 1, Len(q)) ELSE q

(* The newest m of the first n elements f[1], f[2], ...                    *)
Newest(f, m, n) ==
  LET size == IF n < m THEN n ELSE m
  IN [i \in 1 .. size |-> f[n - size + i]]

LEMMA NewestPlaces ==
  ASSUME NEW f, NEW m \in Nat \ {0}, NEW n \in Nat
  PROVE  /\ Len(Newest(f, m, n)) = IF n < m THEN n ELSE m
         /\ \A i \in 1 .. Len(Newest(f, m, n)) :
              Newest(f, m, n)[i] = f[n - Len(Newest(f, m, n)) + i]
<1> DEFINE size == IF n < m THEN n ELSE m
           w == [i \in 1 .. size |-> f[n - size + i]]
<1>1. size \in Nat /\ w = Newest(f, m, n) BY DEF Newest
<1> HIDE DEF size
<1>2. Len(w) = size BY <1>1
<1>3. \A i \in 1 .. size : w[i] = f[n - size + i] OBVIOUS
<1> HIDE DEF w
<1>4. QED BY <1>1, <1>2, <1>3 DEF size

LEMMA NewestIsSeq ==
  ASSUME NEW K, NEW f \in [Nat -> K], NEW m \in Nat \ {0}, NEW n \in Nat
  PROVE  Newest(f, m, n) \in Seq(K)
<1> DEFINE size == IF n < m THEN n ELSE m
           w == [i \in 1 .. size |-> f[n - size + i]]
<1>1. size \in Nat /\ size <= n /\ w = Newest(f, m, n) BY DEF Newest
<1> HIDE DEF size
<1>2. \A i \in 1 .. size : n - size + i \in Nat BY <1>1
<1>3. w \in [1 .. size -> K] BY <1>2
<1>4. QED BY <1>1, <1>3, SeqDef

(* The next element comes in, and the buffer is cut to its newest m again. *)
LEMMA NewestMoves ==
  ASSUME NEW K, NEW f \in [Nat -> K], NEW m \in Nat \ {0}, NEW n \in Nat
  PROVE  KeepNewest(Append(Newest(f, m, n), f[n + 1]), m) = Newest(f, m, n + 1)
<1> DEFINE w == Newest(f, m, n)
           v == Newest(f, m, n + 1)
           q == Append(w, f[n + 1])
<1>1. /\ w \in Seq(K) /\ Len(w) = IF n < m THEN n ELSE m
      /\ \A i \in 1 .. Len(w) : w[i] = f[n - Len(w) + i]
  BY NewestIsSeq, NewestPlaces
<1>2. /\ v \in Seq(K) /\ Len(v) = IF n + 1 < m THEN n + 1 ELSE m
      /\ \A i \in 1 .. Len(v) : v[i] = f[n + 1 - Len(v) + i]
  <2>1. n + 1 \in Nat OBVIOUS
  <2>2. v \in Seq(K) BY <2>1, NewestIsSeq
  <2>3. PICK k \in Nat : k = n + 1 BY <2>1
  <2>4. v = Newest(f, m, k) BY <2>3
  <2> HIDE DEF v
  <2>5. /\ Len(v) = IF k < m THEN k ELSE m
        /\ \A i \in 1 .. Len(v) : v[i] = f[k - Len(v) + i]
    BY <2>4, NewestPlaces
  <2>6. QED BY <2>2, <2>3, <2>5
<1>3. f[n + 1] \in K OBVIOUS
<1> HIDE DEF v, w
<1>4. /\ q \in Seq(K) /\ Len(q) = Len(w) + 1 /\ Len(w) \in Nat
      /\ \A i \in 1 .. Len(w) : q[i] = w[i]
      /\ q[Len(w) + 1] = f[n + 1]
  BY <1>1, <1>3, AppendFacts
<1> HIDE DEF q
<1>5. \A i \in 1 .. Len(q) : q[i] = f[n - Len(w) + i]
  <2> SUFFICES ASSUME NEW i \in 1 .. Len(w) + 1 PROVE q[i] = f[n - Len(w) + i]
    BY <1>4
  <2>1. CASE i = Len(w) + 1
    <3>1. n - Len(w) + i = n + 1 BY <1>4, <2>1
    <3>2. QED BY <1>4, <2>1, <3>1
  <2>2. CASE i # Len(w) + 1
    <3>1. i \in 1 .. Len(w) BY <1>4, <2>2
    <3>2. QED BY <1>1, <1>4, <3>1
  <2>3. QED BY <2>1, <2>2
<1>6. CASE n < m
  <2>1. Len(q) = n + 1 /\ Len(v) = n + 1 /\ Len(w) = n /\ KeepNewest(q, m) = q
    BY <1>1, <1>2, <1>4, <1>6 DEF KeepNewest
  <2>2. \A i \in 1 .. Len(q) : n - Len(w) + i = n + 1 - Len(v) + i BY <2>1
  <2>3. \A i \in 1 .. Len(q) : q[i] = v[i]
    <3>1. \A i \in 1 .. Len(q) : v[i] = f[n + 1 - Len(v) + i] BY <1>2, <2>1
    <3>2. QED BY <1>5, <2>2, <3>1, Zenon
  <2>4. q = v BY <1>2, <1>4, <2>1, <2>3, SeqEqual
  <2>5. QED BY <2>1, <2>4 DEF q, w, v
<1>7. CASE ~(n < m)
  <2> DEFINE top == m + 1
             r == SubSeq(q, 2, top)
  <2>1. Len(w) = m /\ Len(q) = top /\ Len(v) = m BY <1>1, <1>2, <1>4, <1>7
  <2>2. KeepNewest(q, m) = r
    <3>1. Len(q) - m + 1 = 2 BY <2>1
    <3>2. QED BY <2>1, <3>1 DEF KeepNewest
  <2>3. \A i \in 2 .. top : q[i] \in K BY <1>4, <2>1, ElementOfSeq
  <2>4. top \in Int OBVIOUS
  <2>5. /\ r \in Seq(K) /\ Len(r) = IF 2 <= top THEN top - 2 + 1 ELSE 0
        /\ \A i \in 1 .. top - 2 + 1 : r[i] = q[2 + i - 1]
    <3> HIDE DEF top
    <3>1. QED BY <2>3, <2>4, SubSeqProperties
  <2> HIDE DEF r
  <2>6. Len(r) = m /\ \A i \in 1 .. m : r[i] = q[i + 1]
    <3>1. \A i \in 1 .. m : 2 + i - 1 = i + 1 OBVIOUS
    <3>2. QED BY <2>5, <3>1
  <2>7. \A i \in 1 .. Len(r) : r[i] = v[i]
    <3> SUFFICES ASSUME NEW i \in 1 .. m PROVE r[i] = v[i]
      BY <2>6
    <3>1. i + 1 \in 1 .. Len(q) BY <2>1
    <3>2. n - Len(w) + (i + 1) = n + 1 - Len(v) + i BY <2>1
    <3>3. QED BY <1>2, <1>5, <2>1, <2>6, <3>1, <3>2
  <2>8. r = v BY <1>2, <2>1, <2>5, <2>6, <2>7, SeqEqual
  <2>9. QED BY <2>2, <2>8 DEF q, w, v
<1>8. QED BY <1>6, <1>7

(* One element of a list is replaced.                                      *)
LEMMA ReplaceFacts ==
  ASSUME NEW K, NEW q \in Seq(K), NEW i, NEW e, i \in DOMAIN q => e \in K
  PROVE  /\ [q EXCEPT ![i] = e] \in Seq(K) /\ Len([q EXCEPT ![i] = e]) = Len(q)
         /\ DOMAIN [q EXCEPT ![i] = e] = DOMAIN q
<1> DEFINE r == [q EXCEPT ![i] = e]
<1>1. DOMAIN q = 1 .. Len(q) /\ Len(q) \in Nat BY LenProperties
<1>2. \A j \in DOMAIN q : q[j] \in K BY <1>1, ElementOfSeq
<1>3. DOMAIN r = DOMAIN q /\ \A j \in DOMAIN q : r[j] = IF j = i THEN e ELSE q[j] OBVIOUS
<1>4. r = [j \in DOMAIN q |-> r[j]] OBVIOUS
<1> HIDE DEF r
<1>5. r \in [1 .. Len(q) -> K] BY <1>1, <1>2, <1>3, <1>4
<1>6. r \in Seq(K) /\ Len(r) = Len(q) BY <1>1, <1>3, <1>5, SeqDef
<1>7. QED BY <1>3, <1>6 DEF r

(* The elements of two lists, one behind the other.                        *)
LEMMA ConcatElements ==
  ASSUME NEW K, NEW a \in Seq(K), NEW b \in Seq(K)
  PROVE  a \o b \in Seq(K) /\ Elements(a \o b) = Elements(a) \union Elements(b)
<1> DEFINE c == a \o b
<1>1. /\ c \in Seq(K) /\ Len(c) = Len(a) + Len(b) /\ Len(a) \in Nat /\ Len(b) \in Nat
      /\ \A i \in 1 .. Len(a) + Len(b) : c[i] = IF i <= Len(a) THEN a[i] ELSE b[i - Len(a)]
  BY ConcatProperties, LenProperties
<1>2. DOMAIN a = 1 .. Len(a) /\ DOMAIN b = 1 .. Len(b) /\ DOMAIN c = 1 .. Len(a) + Len(b)
  BY <1>1, LenProperties
<1> HIDE DEF c
<1>3. \A i \in DOMAIN c : c[i] \in Elements(a) \union Elements(b)
  <2> TAKE i \in DOMAIN c
  <2>1. CASE i <= Len(a)
    <3>1. i \in DOMAIN a /\ c[i] = a[i] BY <1>1, <1>2, <2>1
    <3>2. QED BY <3>1 DEF Elements
  <2>2. CASE ~(i <= Len(a))
    <3>1. i - Len(a) \in DOMAIN b /\ c[i] = b[i - Len(a)] BY <1>1, <1>2, <2>2
    <3>2. QED BY <3>1 DEF Elements
  <2>3. QED BY <2>1, <2>2
<1>4. \A i \in DOMAIN a : a[i] \in Elements(c)
  <2> TAKE i \in DOMAIN a
  <2>1. i \in DOMAIN c /\ c[i] = a[i] BY <1>1, <1>2
  <2>2. QED BY <2>1 DEF Elements
<1>5. \A i \in DOMAIN b : b[i] \in Elements(c)
  <2> TAKE i \in DOMAIN b
  <2>1. i + Len(a) \in DOMAIN c /\ c[i + Len(a)] = b[i]
    <3>1. /\ i + Len(a) \in 1 .. Len(a) + Len(b) /\ ~(i + Len(a) <= Len(a))
          /\ i + Len(a) - Len(a) = i
      BY <1>1, <1>2
    <3>2. c[i + Len(a)] = b[i + Len(a) - Len(a)] BY <1>1, <3>1
    <3>3. QED BY <1>2, <3>1, <3>2
  <2>2. QED BY <2>1 DEF Elements
<1>6. Elements(c) = Elements(a) \union Elements(b) BY <1>3, <1>4, <1>5 DEF Elements
<1>7. QED BY <1>1, <1>6 DEF c

(* The first elements of a list.                                           *)
LEMMA Beginning ==
  ASSUME NEW K, NEW s, NEW n \in Nat, \A i \in 1 .. n : s[i] \in K
  PROVE  /\ SubSeq(s, 1, n) \in Seq(K) /\ Len(SubSeq(s, 1, n)) = n
         /\ \A i \in 1 .. n : SubSeq(s, 1, n)[i] = s[i]
<1>1. 1 \in Int /\ n \in Int OBVIOUS
<1>2. SubSeq(s, 1, n) \in Seq(K) BY <1>1, SubSeqProperties
<1>3. Len(SubSeq(s, 1, n)) = n BY <1>1, SubSeqProperties
<1>4. \A i \in 1 .. n : SubSeq(s, 1, n)[i] = s[i] BY <1>1, SubSeqProperties
<1>5. QED BY <1>2, <1>3, <1>4

(* An element is put in front of all others.                               *)
LEMMA Prepended ==
  ASSUME NEW K, NEW q \in K, NEW f \in Seq(K)
  PROVE  /\ <<q>> \o f \in Seq(K) /\ Len(f) \in Nat /\ Len(<<q>> \o f) = Len(f) + 1
         /\ (<<q>> \o f)[1] = q /\ \A k \in 1 .. Len(f) : (<<q>> \o f)[k + 1] = f[k]
<1>1. <<q>> \in Seq(K) /\ Len(<<q>>) = 1 /\ <<q>>[1] = q OBVIOUS
<1>2. Len(f) \in Nat BY LenProperties
<1>3. /\ <<q>> \o f \in Seq(K) /\ Len(<<q>> \o f) = 1 + Len(f)
      /\ \A i \in 1 .. 1 + Len(f) : (<<q>> \o f)[i] = IF i <= 1 THEN <<q>>[i] ELSE f[i - 1]
  BY <1>1, ConcatProperties
<1>4. (<<q>> \o f)[1] = q BY <1>1, <1>2, <1>3
<1>5. ASSUME NEW k \in 1 .. Len(f) PROVE (<<q>> \o f)[k + 1] = f[k]
  <2>1. k + 1 \in 1 .. 1 + Len(f) /\ ~(k + 1 <= 1) /\ (k + 1) - 1 = k BY <1>2
  <2>2. QED BY <1>3, <2>1
<1>6. QED BY <1>2, <1>3, <1>4, <1>5

-----------------------------------------------------------------------------
(* A strict total order puts the elements of a finite set into a row: each *)
(* has its place, which is the number of those that are not after it.      *)
LEMMA InARow ==
  ASSUME NEW D, IsFiniteSet(D), NEW R,
         \A i \in D : <<i, i>> \notin R,
         \A i, j \in D : i # j => <<i, j>> \in R \/ <<j, i>> \in R,
         \A i, j, k \in D : <<i, j>> \in R /\ <<j, k>> \in R => <<i, k>> \in R
  PROVE  /\ Cardinality(D) \in Nat
         /\ \E p \in [1 .. Cardinality(D) -> D] :
              /\ \A k \in 1 .. Cardinality(D) :
                   p[k] = CHOOSE i \in D : Cardinality({j \in D : <<j, i>> \in R}) = k - 1
              /\ \A i \in D : \E k \in 1 .. Cardinality(D) : p[k] = i
              /\ \A k, m \in 1 .. Cardinality(D) : k < m => <<p[k], p[m]>> \in R
<1> DEFINE Before(i) == {j \in D : <<j, i>> \in R}
           N == Cardinality(D)
           rank == [i \in D |-> Cardinality(Before(i)) + 1]
           p == [k \in 1 .. N |-> CHOOSE i \in D : Cardinality(Before(i)) = k - 1]
<1>1. N \in Nat BY FS_CardinalityType
<1> HIDE DEF N
<1>2. ASSUME NEW i \in D
      PROVE  IsFiniteSet(Before(i)) /\ Cardinality(Before(i)) \in 0 .. N - 1
  <2>1. Before(i) \subseteq D /\ i \notin Before(i) BY <1>2
  <2>2. /\ IsFiniteSet(Before(i)) /\ Cardinality(Before(i)) <= Cardinality(D)
        /\ Cardinality(D) = Cardinality(Before(i)) => D = Before(i)
    BY <2>1, FS_Subset
  <2>3. Cardinality(Before(i)) \in Nat BY <2>2, FS_CardinalityType
  <2>4. Cardinality(Before(i)) <= N /\ Cardinality(Before(i)) # N BY <1>2, <2>1, <2>2 DEF N
  <2> HIDE DEF Before
  <2>5. QED BY <1>1, <2>2, <2>3, <2>4
<1>3. ASSUME NEW i \in D, NEW j \in D, <<i, j>> \in R
      PROVE  Cardinality(Before(i)) < Cardinality(Before(j))
  <2>1. Before(i) \subseteq Before(j) /\ i \in Before(j) /\ i \notin Before(i) BY <1>3
  <2>2. /\ Cardinality(Before(i)) <= Cardinality(Before(j))
        /\ Cardinality(Before(j)) = Cardinality(Before(i)) => Before(j) = Before(i)
    BY <1>2, <1>3, <2>1, FS_Subset
  <2>3. Cardinality(Before(i)) \in Nat /\ Cardinality(Before(j)) \in Nat
    BY <1>2, <1>3, FS_CardinalityType
  <2> HIDE DEF Before
  <2>4. QED BY <2>1, <2>2, <2>3
<1>4. \A i \in D : Cardinality(Before(i)) \in Nat BY <1>2, FS_CardinalityType
<1>5. rank \in [D -> 1 .. N]
  <2> HIDE DEF Before
  <2>1. \A i \in D : Cardinality(Before(i)) + 1 \in 1 .. N BY <1>1, <1>2
  <2>2. QED BY <2>1
<1>6. \A i, j \in D : rank[i] = rank[j] => i = j
  <2> SUFFICES ASSUME NEW i \in D, NEW j \in D, rank[i] = rank[j], i # j PROVE FALSE
    OBVIOUS
  <2>1. <<i, j>> \in R \/ <<j, i>> \in R OBVIOUS
  <2>2. Cardinality(Before(i)) + 1 = Cardinality(Before(j)) + 1 OBVIOUS
  <2> HIDE DEF Before, rank
  <2>3. QED BY <1>3, <1>4, <2>1, <2>2
<1>7. \A k \in 1 .. N : \E i \in D : rank[i] = k
  <2> HIDE DEF rank
  <2>1. rank \in Injection(D, 1 .. N) BY <1>5, <1>6, Fun_IsInj
  <2>2. IsFiniteSet(1 .. N) /\ Cardinality(1 .. N) = N BY <1>1, FS_Interval
  <2>3. Cardinality(D) = Cardinality(1 .. N) BY <2>2 DEF N
  <2>4. rank \in Surjection(D, 1 .. N) BY <2>1, <2>2, <2>3, FS_Injection
  <2>5. QED BY <2>4, Fun_SurjectionProperties
<1>8. ASSUME NEW k \in 1 .. N
      PROVE  p[k] \in D /\ Cardinality(Before(p[k])) = k - 1
  <2>1. PICK i \in D : rank[i] = k BY <1>7, <1>8
  <2>2. Cardinality(Before(i)) + 1 = k BY <2>1
  <2>3. p[k] = CHOOSE j \in D : Cardinality(Before(j)) = k - 1 BY <1>8
  <2> HIDE DEF Before, p, rank
  <2>4. Cardinality(Before(i)) = k - 1 BY <1>4, <2>2
  <2>5. QED BY <2>3, <2>4
<1>9. \A i \in D : \E k \in 1 .. N : p[k] = i
  <2> SUFFICES ASSUME NEW i \in D PROVE \E k \in 1 .. N : p[k] = i
    OBVIOUS
  <2>1. PICK k \in 1 .. N : k = rank[i] BY <1>5
  <2>2. k = Cardinality(Before(i)) + 1 BY <2>1
  <2>3. p[k] \in D /\ Cardinality(Before(p[k])) = k - 1 BY <1>8
  <2>4. rank[p[k]] = Cardinality(Before(p[k])) + 1 BY <2>3
  <2> HIDE DEF Before, p, rank
  <2>5. rank[p[k]] = rank[i] BY <1>4, <2>1, <2>2, <2>3, <2>4
  <2>6. QED BY <1>6, <2>3, <2>5
<1>10. ASSUME NEW k \in 1 .. N, NEW m \in 1 .. N, k < m PROVE <<p[k], p[m]>> \in R
  <2>1. /\ p[k] \in D /\ Cardinality(Before(p[k])) = k - 1
        /\ p[m] \in D /\ Cardinality(Before(p[m])) = m - 1
    BY <1>8
  <2> HIDE DEF p, Before
  <2>2. p[k] # p[m] /\ ~(m - 1 < k - 1) BY <1>10, <2>1
  <2>3. <<p[m], p[k]>> \notin R BY <1>3, <2>1, <2>2
  <2>4. QED BY <2>1, <2>2, <2>3
<1>11. p \in [1 .. N -> D] BY <1>8
<1>12. \A k \in 1 .. N : p[k] = CHOOSE i \in D : Cardinality({j \in D : <<j, i>> \in R}) = k - 1
  OBVIOUS
<1> HIDE DEF p
<1>13. QED BY <1>1, <1>9, <1>10, <1>11, <1>12 DEF N

(* A filtered list has the places of the list whose elements are kept, in  *)
(* their order.                                                            *)
LEMMA FilterPlaces ==
  ASSUME NEW K, NEW s \in Seq(K), NEW S
  PROVE  /\ Filter(s, S) \in Seq(K \intersect S)
         /\ Len(s) \in Nat /\ Len(Filter(s, S)) \in Nat /\ Len(Filter(s, S)) <= Len(s)
         /\ \E p \in [1 .. Len(Filter(s, S)) -> {n \in 1 .. Len(s) : s[n] \in S}] :
              /\ \A k \in 1 .. Len(Filter(s, S)) : Filter(s, S)[k] = s[p[k]]
              /\ \A n \in 1 .. Len(s) :
                   s[n] \in S => \E k \in 1 .. Len(Filter(s, S)) : p[k] = n
              /\ \A k, m \in 1 .. Len(Filter(s, S)) : k < m => p[k] < p[m]
<1> DEFINE D == {n \in DOMAIN s : s[n] \in S}
           R == {r \in Nat \X Nat : r[1] < r[2]}
           N == Cardinality(D)
<1>1. Len(s) \in Nat /\ DOMAIN s = 1 .. Len(s) BY LenProperties
<1>2. /\ IsFiniteSet(D) /\ N <= Len(s) /\ D \subseteq Nat
      /\ D = {n \in 1 .. Len(s) : s[n] \in S}
  <2>1. D \subseteq 1 .. Len(s) BY <1>1
  <2>2. IsFiniteSet(1 .. Len(s)) /\ Cardinality(1 .. Len(s)) = Len(s) BY <1>1, FS_Interval
  <2>3. IsFiniteSet(D) /\ Cardinality(D) <= Cardinality(1 .. Len(s)) BY <2>1, <2>2, FS_Subset
  <2> HIDE DEF D
  <2>4. D = {n \in 1 .. Len(s) : s[n] \in S} BY <1>1 DEF D
  <2>5. QED BY <2>1, <2>2, <2>3, <2>4
<1>3. \A i, j \in Nat : <<i, j>> \in R <=> i < j OBVIOUS
<1> HIDE DEF R
<1>4. /\ \A i \in D : <<i, i>> \notin R
      /\ \A i, j \in D : i # j => <<i, j>> \in R \/ <<j, i>> \in R
      /\ \A i, j, k \in D : <<i, j>> \in R /\ <<j, k>> \in R => <<i, k>> \in R
  <2> HIDE DEF D
  <2>1. QED BY <1>2, <1>3
<1>5. /\ N \in Nat
      /\ \E p \in [1 .. N -> D] :
           /\ \A k \in 1 .. N :
                p[k] = CHOOSE i \in D : Cardinality({j \in D : <<j, i>> \in R}) = k - 1
           /\ \A i \in D : \E k \in 1 .. N : p[k] = i
           /\ \A k, m \in 1 .. N : k < m => <<p[k], p[m]>> \in R
  <2>1. IsFiniteSet(D) BY <1>2
  <2> HIDE DEF D
  <2>2. QED BY <2>1, <1>4, InARow, Zenon
<1>6. PICK p \in [1 .. N -> D] :
        /\ \A k \in 1 .. N :
             p[k] = CHOOSE i \in D : Cardinality({j \in D : <<j, i>> \in R}) = k - 1
        /\ \A i \in D : \E k \in 1 .. N : p[k] = i
        /\ \A k, m \in 1 .. N : k < m => <<p[k], p[m]>> \in R
  BY <1>5
<1>7. \A i \in D : {j \in D : <<j, i>> \in R} = {j \in D : j < i}
  <2> HIDE DEF D
  <2>1. QED BY <1>2, <1>3
<1>8. \A k \in 1 .. N : p[k] = CHOOSE i \in D : Cardinality({j \in D : j < i}) = k - 1
  <2> TAKE k \in 1 .. N
  <2>1. \A i \in D : Cardinality({j \in D : <<j, i>> \in R}) = k - 1
                     <=> Cardinality({j \in D : j < i}) = k - 1
    BY <1>7
  <2> HIDE DEF D
  <2>2. QED BY <1>6, <2>1
<1>9. Filter(s, S) = [k \in 1 .. N |-> s[p[k]]]
  <2> DEFINE c(k) == CHOOSE i \in D : Cardinality({j \in D : j < i}) = k - 1
  <2>1. Filter(s, S) = [k \in 1 .. N |-> s[c(k)]] BY Zenon DEF Filter
  <2>2. \A k \in 1 .. N : p[k] = c(k) BY <1>8
  <2> HIDE DEF c, N, D
  <2>3. QED BY <2>1, <2>2
<1> DEFINE F == [k \in 1 .. N |-> s[p[k]]]
<1>10. F \in Seq(K \intersect S) /\ Len(F) = N /\ \A k \in 1 .. N : F[k] = s[p[k]]
  <2>1. \A k \in 1 .. N : s[p[k]] \in K \intersect S
    <3>1. \A k \in 1 .. N : p[k] \in 1 .. Len(s) /\ s[p[k]] \in S BY <1>1, <1>6
    <3>2. QED BY <3>1, ElementOfSeq
  <2> HIDE DEF D, N
  <2>2. F \in [1 .. N -> K \intersect S] BY <2>1
  <2>3. QED BY <1>5, <2>2
<1> HIDE DEF F, N
<1>11. \A k, m \in 1 .. N : k < m => p[k] < p[m]
  <2>1. \A k \in 1 .. N : p[k] \in Nat
    <3> HIDE DEF D
    <3>1. QED BY <1>2, <1>6
  <2>2. QED BY <1>3, <1>6, <2>1
<1>12. \A n \in 1 .. Len(s) : s[n] \in S => \E k \in 1 .. N : p[k] = n
  BY <1>1, <1>6
<1>13. p \in [1 .. N -> {n \in 1 .. Len(s) : s[n] \in S}] BY <1>1
<1>14. Filter(s, S) = F BY <1>9 DEF F
<1>15. QED BY <1>1, <1>2, <1>5, <1>10, <1>11, <1>12, <1>13, <1>14

(* ... and so has the elements that are kept.                              *)
LEMMA FilterElements ==
  ASSUME NEW K, NEW s \in Seq(K), NEW S
  PROVE  Elements(Filter(s, S)) = Elements(s) \intersect S
<1> DEFINE F == Filter(s, S)
<1>1. /\ F \in Seq(K \intersect S) /\ Len(s) \in Nat
      /\ \E p \in [1 .. Len(F) -> {n \in 1 .. Len(s) : s[n] \in S}] :
           /\ \A k \in 1 .. Len(F) : F[k] = s[p[k]]
           /\ \A n \in 1 .. Len(s) : s[n] \in S => \E k \in 1 .. Len(F) : p[k] = n
  BY FilterPlaces
<1> HIDE DEF F
<1>2. DOMAIN s = 1 .. Len(s) /\ DOMAIN F = 1 .. Len(F) BY <1>1, LenProperties
<1>3. PICK p \in [1 .. Len(F) -> {n \in 1 .. Len(s) : s[n] \in S}] :
           /\ \A k \in 1 .. Len(F) : F[k] = s[p[k]]
           /\ \A n \in 1 .. Len(s) : s[n] \in S => \E k \in 1 .. Len(F) : p[k] = n
  BY <1>1
<1>4. \A k \in DOMAIN F : F[k] \in Elements(s) \intersect S BY <1>2, <1>3 DEF Elements
<1>5. \A n \in DOMAIN s : s[n] \in S => s[n] \in Elements(F) BY <1>2, <1>3 DEF Elements
<1>6. QED BY <1>4, <1>5 DEF Elements, F

(* Of a list without repetition one element is filtered out, at most.      *)
LEMMA OneFilteredOut ==
  ASSUME NEW K, NEW h \in Seq(K), NEW q,
         \A i, j \in 1 .. Len(h) : h[i] = h[j] => i = j
  PROVE  Len(h) \in Nat /\ Len(Filter(h, K \ {q})) >= Len(h) - 1
<1> DEFINE P == {n \in DOMAIN h : h[n] \in K \ {q}}
<1>1. Len(h) \in Nat /\ DOMAIN h = 1 .. Len(h) /\ \A n \in 1 .. Len(h) : h[n] \in K
  BY LenProperties
<1>2. Len(Filter(h, K \ {q})) = Cardinality(P)
  <2> DEFINE F == Filter(h, K \ {q})
  <2>1. DOMAIN F = 1 .. Cardinality(P) BY Zenon DEF Filter
  <2>2. F \in Seq(K \intersect (K \ {q})) BY FilterPlaces
  <2>3. DOMAIN F = 1 .. Len(F) /\ Len(F) \in Nat BY <2>2, LenProperties
  <2>4. IsFiniteSet(P)
    <3>1. IsFiniteSet(DOMAIN h) BY <1>1, FS_Interval
    <3>2. QED BY <3>1, FS_Subset
  <2>5. Cardinality(P) \in Nat BY <2>4, FS_CardinalityType
  <2> HIDE DEF P, F
  <2>. \A n \in Nat : Cardinality(1 .. n) = n BY FS_Interval
  <2>6. Cardinality(1 .. Len(F)) = Len(F) BY <2>3
  <2>7. Cardinality(1 .. Cardinality(P)) = Cardinality(P) BY <2>5
  <2>8. Len(F) = Cardinality(P) BY <2>1, <2>3, <2>6, <2>7
  <2>9. QED BY <2>8 DEF F
<1>3. IsFiniteSet(1 .. Len(h)) /\ Cardinality(1 .. Len(h)) = Len(h)
  <2>1. \A n \in Nat : IsFiniteSet(1 .. n) /\ Cardinality(1 .. n) = n BY FS_Interval
  <2>2. QED BY <1>1, <2>1
<1>4. CASE \A n \in 1 .. Len(h) : h[n] # q
  <2>1. P = 1 .. Len(h) BY <1>1, <1>4
  <2> HIDE DEF P
  <2>2. QED BY <1>1, <1>2, <1>3, <2>1
<1>5. CASE \E n \in 1 .. Len(h) : h[n] = q
  <2>1. PICK n \in 1 .. Len(h) : h[n] = q BY <1>5
  <2>2. P = (1 .. Len(h)) \ {n} BY <1>1, <2>1
  <2>3. Cardinality((1 .. Len(h)) \ {n}) = Len(h) - 1 BY <1>3, FS_RemoveElement
  <2> HIDE DEF P
  <2>4. QED BY <1>1, <1>2, <2>2, <2>3
<1>6. QED BY <1>4, <1>5
=============================================================================
