----------------------------- MODULE PoolLemmas -----------------------------
(***************************************************************************)
(* What the proofs about the pools keep needing: counters that stand for   *)
(* sets, and queues in which no job occurs twice.                          *)
(***************************************************************************)
EXTENDS Integers, Sequences, FiniteSets, SequencesExt, FiniteSetTheorems, SequenceTheorems, TLAPS

\* Two sets that differ in one element at most differ by its weight.
LEMMA CardinalityStep ==
  ASSUME NEW A, NEW B, NEW j, IsFiniteSet(A), A \ {j} = B \ {j}
  PROVE  /\ IsFiniteSet(B)
         /\ Cardinality(B) = Cardinality(A) + (IF j \in B THEN 1 ELSE 0)
                                            - (IF j \in A THEN 1 ELSE 0)
  <1> DEFINE R == A \ {j}
  <1>1. IsFiniteSet(R) /\ Cardinality(R) = IF j \in A THEN Cardinality(A) - 1 ELSE Cardinality(A)
    BY FS_RemoveElement
  <1>2. Cardinality(A) \in Nat /\ Cardinality(R) \in Nat
    BY <1>1, FS_CardinalityType
  <1>3. CASE j \in B
    <2>1. B = R \cup {j} /\ j \notin R
      BY <1>3
    <2>2. IsFiniteSet(B) /\ Cardinality(B) = Cardinality(R) + 1
      BY <1>1, <2>1, FS_AddElement
    <2> QED
      BY <1>1, <1>2, <1>3, <2>2
  <1>4. CASE j \notin B
    <2>1. B = R
      BY <1>4
    <2> QED
      BY <1>1, <1>2, <1>4, <2>1
  <1> QED
    BY <1>3, <1>4

\* A set with at most one element counts whether it has one.
LEMMA CardinalityAtMostOne ==
  ASSUME NEW A, \A x, y \in A : x = y
  PROVE  Cardinality(A) = IF A = {} THEN 0 ELSE 1
  <1>1. CASE A = {}
    BY <1>1, FS_EmptySet
  <1>2. CASE A # {}
    <2> PICK x \in A : A = {x}
      BY <1>2
    <2> QED
      BY <1>2, FS_Singleton
  <1> QED
    BY <1>1, <1>2

-----------------------------------------------------------------------------
\* Queues.

\* push_back at the end of a queue that does not hold the job.
LEMMA AppendDistinct ==
  ASSUME NEW S, NEW q \in Seq(S), NEW e \in S
  PROVE  /\ Append(q, e) \in Seq(S)
         /\ ToSet(Append(q, e)) = ToSet(q) \cup {e}
         /\ IsInjective(q) /\ e \notin ToSet(q) => IsInjective(Append(q, e))
  <1> DEFINE a == Append(q, e)
  <1>1. /\ a \in Seq(S) /\ Len(q) \in Nat
        /\ DOMAIN q = 1 .. Len(q) /\ DOMAIN a = 1 .. (Len(q) + 1)
        /\ a[Len(q) + 1] = e
        /\ \A i \in 1 .. Len(q) : a[i] = q[i]
    OBVIOUS
  <1> HIDE DEF a
  <1>2. ToSet(a) = ToSet(q) \cup {e}
    <2>1. ASSUME NEW i \in DOMAIN a
          PROVE  a[i] \in ToSet(q) \cup {e}
      BY <1>1 DEF ToSet
    <2>2. ASSUME NEW i \in DOMAIN q
          PROVE  q[i] \in ToSet(a)
      BY <1>1 DEF ToSet
    <2>3. e \in ToSet(a)
      BY <1>1 DEF ToSet
    <2> QED
      BY <2>1, <2>2, <2>3 DEF ToSet
  <1>3. ASSUME IsInjective(q), e \notin ToSet(q)
        PROVE  IsInjective(a)
    BY <1>1, <1>3 DEF ToSet, IsInjective
  <1> QED
    BY <1>1, <1>2, <1>3 DEF a

\* pop_front: the head leaves, and occurs nowhere else in the queue.
LEMMA TailDistinct ==
  ASSUME NEW S, NEW q \in Seq(S), q # <<>>
  PROVE  /\ Head(q) \in S /\ Head(q) \in ToSet(q)
         /\ Tail(q) \in Seq(S)
         /\ ToSet(q) = ToSet(Tail(q)) \cup {Head(q)}
         /\ IsInjective(q) => IsInjective(Tail(q)) /\ ToSet(Tail(q)) = ToSet(q) \ {Head(q)}
  <1>1. /\ Head(q) \in S /\ Tail(q) \in Seq(S) /\ Len(q) \in Nat /\ Len(q) > 0
        /\ Head(q) = q[1] /\ DOMAIN q = 1 .. Len(q)
        /\ DOMAIN Tail(q) = 1 .. (Len(q) - 1)
        /\ \A i \in 1 .. (Len(q) - 1) : Tail(q)[i] = q[i + 1]
    OBVIOUS
  <1>2. ASSUME NEW i \in DOMAIN q, i # 1
        PROVE  i - 1 \in DOMAIN Tail(q) /\ Tail(q)[i - 1] = q[i]
    BY <1>1, <1>2
  <1>3. ToSet(q) = ToSet(Tail(q)) \cup {Head(q)}
    <2>1. ASSUME NEW i \in DOMAIN q
          PROVE  q[i] \in ToSet(Tail(q)) \cup {Head(q)}
      BY <1>1, <1>2 DEF ToSet
    <2>2. ToSet(Tail(q)) \cup {Head(q)} \subseteq ToSet(q)
      BY <1>1 DEF ToSet
    <2> QED
      BY <2>1, <2>2 DEF ToSet
  <1>4. ASSUME IsInjective(q)
        PROVE  IsInjective(Tail(q)) /\ Head(q) \notin ToSet(Tail(q))
    <2>1. ASSUME NEW i \in DOMAIN Tail(q), NEW k \in DOMAIN Tail(q), Tail(q)[i] = Tail(q)[k]
          PROVE  i = k
      <3>1. i + 1 \in DOMAIN q /\ k + 1 \in DOMAIN q /\ q[i + 1] = q[k + 1]
        BY <1>1, <2>1
      <3>2. i + 1 = k + 1
        BY <1>4, <3>1 DEF IsInjective
      <3> QED
        BY <1>1, <3>2
    <2>2. ASSUME NEW i \in DOMAIN Tail(q)
          PROVE  Tail(q)[i] # Head(q)
      <3>1. i + 1 \in DOMAIN q /\ 1 \in DOMAIN q /\ i + 1 # 1 /\ Tail(q)[i] = q[i + 1]
        BY <1>1
      <3> QED
        BY <1>1, <1>4, <3>1 DEF IsInjective
    <2> QED
      BY <2>1, <2>2 DEF IsInjective, ToSet
  <1> QED
    BY <1>1, <1>3, <1>4 DEF ToSet

\* The empty queue ...
LEMMA NoJob ==
  ASSUME NEW S
  PROVE  /\ <<>> \in Seq(S) /\ ToSet(<<>>) = {} /\ IsInjective(<<>>)
         /\ \A q \in Seq(S) : ToSet(q) = {} <=> q = <<>>
  <1>1. <<>> \in Seq(S) /\ ToSet(<<>>) = {} /\ IsInjective(<<>>)
    BY DEF ToSet, IsInjective
  <1>2. ASSUME NEW q \in Seq(S), q # <<>>
        PROVE  ToSet(q) # {}
    BY <1>2, TailDistinct
  <1> QED
    BY <1>1, <1>2

\* A queue holds jobs.
LEMMA ToSetType ==
  ASSUME NEW S, NEW q \in Seq(S)
  PROVE  ToSet(q) \subseteq S
  BY DEF ToSet

\* ... and the queue of one job.
LEMMA OneJob ==
  ASSUME NEW S, NEW e \in S
  PROVE  /\ <<e>> \in Seq(S) /\ ToSet(<<e>>) = {e} /\ IsInjective(<<e>>)
         /\ <<e>> # <<>> /\ Head(<<e>>) = e /\ Tail(<<e>>) = <<>>
  BY DEF ToSet, IsInjective

\* remove(index): the job at that position leaves, and occurs nowhere else in the queue.
LEMMA RemoveAtDistinct ==
  ASSUME NEW S, NEW q \in Seq(S), NEW i \in DOMAIN q
  PROVE  /\ RemoveAt(q, i) \in Seq(S) /\ q[i] \in S /\ q[i] \in ToSet(q)
         /\ IsInjective(q) => /\ IsInjective(RemoveAt(q, i))
                              /\ ToSet(RemoveAt(q, i)) = ToSet(q) \ {q[i]}
  <1> DEFINE r == RemoveAt(q, i)
             a == SubSeq(q, 1, i - 1)
             b == SubSeq(q, i + 1, Len(q))
  <1>1. Len(q) \in Nat /\ DOMAIN q = 1 .. Len(q) /\ i \in 1 .. Len(q) /\ \A k \in 1 .. Len(q) : q[k] \in S
    OBVIOUS
  <1>2. a \in Seq(S) /\ Len(a) = i - 1 /\ \A k \in 1 .. (i - 1) : a[k] = q[k]
    BY <1>1
  <1>3. b \in Seq(S) /\ Len(b) = Len(q) - i /\ \A k \in 1 .. (Len(q) - i) : b[k] = q[i + k]
    <2>1. \A k \in (i + 1) .. Len(q) : q[k] \in S
      BY <1>1
    <2>2. /\ b \in Seq(S) /\ Len(b) = IF i + 1 <= Len(q) THEN Len(q) - (i + 1) + 1 ELSE 0
          /\ \A k \in 1 .. (Len(q) - (i + 1) + 1) : b[k] = q[(i + 1) + k - 1]
      BY <1>1, <2>1, SubSeqProperties
    <2> HIDE DEF b
    <2>3. ASSUME NEW k \in 1 .. (Len(q) - i)
          PROVE  b[k] = q[i + k]
      <3>1. k \in 1 .. (Len(q) - (i + 1) + 1) /\ (i + 1) + k - 1 = i + k
        BY <1>1
      <3> QED
        BY <2>2, <3>1
    <2>4. Len(b) = Len(q) - i
      BY <1>1, <2>2
    <2> QED
      BY <2>2, <2>3, <2>4
  <1>4. r = a \o b
    BY DEF RemoveAt
  <1> HIDE DEF a, b, r
  <1>5. /\ r \in Seq(S) /\ Len(r) = Len(q) - 1 /\ DOMAIN r = 1 .. (Len(q) - 1)
        /\ \A k \in 1 .. (Len(q) - 1) : r[k] = IF k < i THEN q[k] ELSE q[k + 1]
    <2>1. r \in Seq(S) /\ Len(r) = Len(q) - 1
      <3>1. a \o b \in Seq(S) /\ Len(a \o b) = Len(a) + Len(b)
        BY <1>2, <1>3, ConcatProperties
      <3> QED
        BY <1>1, <1>2, <1>3, <1>4, <3>1
    <2>2. ASSUME NEW k \in 1 .. (Len(q) - 1), k < i
          PROVE  r[k] = q[k]
      BY <1>1, <1>2, <1>3, <1>4, <2>2
    <2>3. ASSUME NEW k \in 1 .. (Len(q) - 1), ~(k < i)
          PROVE  r[k] = q[k + 1]
      <3>1. k - Len(a) \in 1 .. (Len(q) - i) /\ r[k] = b[k - Len(a)]
        BY <1>1, <1>2, <1>3, <1>4, <2>3
      <3>2. i + (k - Len(a)) = k + 1
        BY <1>1, <1>2
      <3> QED
        BY <1>3, <3>1, <3>2
    <2> QED
      BY <2>1, <2>2, <2>3
  <1>6. ASSUME IsInjective(q)
        PROVE  IsInjective(r) /\ ToSet(r) = ToSet(q) \ {q[i]}
    <2>0. \A k, l \in 1 .. Len(q) : q[k] = q[l] => k = l
      BY <1>1, <1>6 DEF IsInjective
    <2>1. ASSUME NEW k \in DOMAIN r, NEW l \in DOMAIN r, r[k] = r[l]
          PROVE  k = l
      BY <1>1, <1>5, <2>0, <2>1
    <2>2. ASSUME NEW k \in DOMAIN r
          PROVE  r[k] \in ToSet(q) \ {q[i]}
      BY <1>1, <1>5, <2>0 DEF ToSet
    <2>3. ASSUME NEW k \in DOMAIN q, q[k] # q[i]
          PROVE  q[k] \in ToSet(r)
      <3>1. k # i
        BY <2>3
      <3>2. CASE k < i
        BY <1>1, <1>5, <3>2 DEF ToSet
      <3>3. CASE k > i
        <4>1. k - 1 \in DOMAIN r /\ r[k - 1] = q[k]
          BY <1>1, <1>5, <3>3
        <4> QED
          BY <4>1 DEF ToSet
      <3> QED
        BY <1>1, <3>1, <3>2, <3>3
    <2>4. ToSet(r) \subseteq ToSet(q) \ {q[i]}
      BY <2>2 DEF ToSet
    <2>5. ToSet(q) \ {q[i]} \subseteq ToSet(r)
      BY <2>3 DEF ToSet
    <2> QED
      BY <2>1, <2>4, <2>5 DEF IsInjective
  <1> QED
    BY <1>1, <1>5, <1>6 DEF r, ToSet
-----------------------------------------------------------------------------
\* A set has as many members as its image under an injective function ...
LEMMA ImageCardinality ==
  ASSUME NEW S, IsFiniteSet(S), NEW f, \A a, b \in S : f[a] = f[b] => a = b
  PROVE  IsFiniteSet({f[x] : x \in S}) /\ Cardinality({f[x] : x \in S}) = Cardinality(S)
  <1> DEFINE T == {f[x] : x \in S}
             g == [x \in S |-> f[x]]
  <1>1. g \in Bijection(S, T)
    BY DEF Bijection, Injection, Surjection, IsInjective
  <1>2. ExistsBijection(S, T)
    BY <1>1 DEF ExistsBijection
  <1> QED
    BY <1>2, FS_Bijection

\* ... and a queue of distinct jobs as many jobs as places.
LEMMA DistinctLength ==
  ASSUME NEW S, NEW q \in Seq(S), IsInjective(q)
  PROVE  IsFiniteSet(ToSet(q)) /\ Cardinality(ToSet(q)) = Len(q)
  <1>1. Len(q) \in Nat /\ DOMAIN q = 1 .. Len(q) /\ \A a, b \in 1 .. Len(q) : q[a] = q[b] => a = b
    BY DEF IsInjective
  <1>2. IsFiniteSet(1 .. Len(q)) /\ Cardinality(1 .. Len(q)) = Len(q)
    BY <1>1, FS_Interval
  <1>3. ToSet(q) = {q[i] : i \in 1 .. Len(q)}
    BY <1>1 DEF ToSet
  <1> QED
    BY <1>1, <1>2, <1>3, ImageCardinality

\* One report that counts n jobs stands for n of them.
LEMMA CountCardinality ==
  ASSUME NEW t, NEW n \in Nat
  PROVE  Cardinality({t} \X (1 .. n)) = n
  <1>1. IsFiniteSet(1 .. n) /\ Cardinality(1 .. n) = n
    BY FS_Interval
  <1>2. IsFiniteSet({t}) /\ Cardinality({t}) = 1
    BY FS_Singleton
  <1>3. Cardinality({t} \X (1 .. n)) = Cardinality({t}) * Cardinality(1 .. n)
    BY <1>1, <1>2, FS_Product
  <1>4. 1 * n = n
    OBVIOUS
  <1> QED
    BY <1>1, <1>2, <1>3, <1>4
=============================================================================
