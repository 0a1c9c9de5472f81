---------------------------- MODULE QueuesProofs ----------------------------
(***************************************************************************)
(* Facts about the operators of Queues, for lists of any length.           *)
(***************************************************************************)
EXTENDS Queues, SequenceTheorems, FiniteSetTheorems, TLAPS

\* The members of a list of elements of T are in T.
LEMMA ElemsType ==
    ASSUME NEW T, NEW s \in Seq(T)
    PROVE  Elems(s) \subseteq T
  BY LenProperties DEF Elems

\* Appending a thread to a list (q_addtail, array_add) adds it to the members
\* and keeps the list free of duplicates if the thread was not on it.
LEMMA AppendElems ==
    ASSUME NEW T, NEW s \in Seq(T), NEW x \in T
    PROVE  /\ Append(s, x) \in Seq(T)
           /\ Elems(Append(s, x)) = Elems(s) \cup {x}
           /\ NoDup(s) /\ x \notin Elems(s) => NoDup(Append(s, x))
<1> DEFINE a == Append(s, x)
<1>1. /\ a \in Seq(T)
      /\ Len(a) = Len(s) + 1
      /\ \A i \in 1 .. Len(s) : a[i] = s[i]
      /\ a[Len(s) + 1] = x
      /\ Len(s) \in Nat
  BY AppendProperties, LenProperties
<1> HIDE DEF a
<1>2. 1 .. Len(a) = (1 .. Len(s)) \cup {Len(s) + 1}
  BY <1>1
<1>3. Elems(a) = Elems(s) \cup {x}
  BY <1>1, <1>2 DEF Elems
<1>4. NoDup(s) /\ x \notin Elems(s) => NoDup(a)
  BY <1>1, <1>2 DEF Elems, NoDup
<1> QED
  BY <1>1, <1>3, <1>4 DEF a

\* Taking the head off a list (q_remhead).
LEMMA TailElems ==
    ASSUME NEW T, NEW s \in Seq(T), s # <<>>
    PROVE  /\ Head(s) \in T /\ Head(s) \in Elems(s)
           /\ Tail(s) \in Seq(T)
           /\ Elems(Tail(s)) \subseteq Elems(s)
           /\ Elems(s) = Elems(Tail(s)) \cup {Head(s)}
           /\ NoDup(s) => NoDup(Tail(s)) /\ Head(s) \notin Elems(Tail(s))
<1> DEFINE r == Tail(s)
<1>1. /\ r \in Seq(T)
      /\ Len(r) = Len(s) - 1
      /\ \A i \in 1 .. Len(r) : r[i] = s[i + 1]
      /\ Len(s) \in Nat \ {0}
      /\ Head(s) = s[1] /\ Head(s) \in T
  BY HeadTailProperties, EmptySeq, LenProperties
<1> HIDE DEF r
<1>2. Elems(s) = Elems(r) \cup {s[1]}
  <2>1. \A y \in Elems(s) : y \in Elems(r) \cup {s[1]}
    <3> TAKE y \in Elems(s)
    <3>1. PICK i \in 1 .. Len(s) : y = s[i]
      BY DEF Elems
    <3>2. CASE i = 1
      BY <3>1, <3>2
    <3>3. CASE i # 1
      <4>1. i - 1 \in 1 .. Len(r) /\ r[i - 1] = s[i]
        BY <1>1, <3>3
      <4> QED
        BY <3>1, <4>1 DEF Elems
    <3> QED
      BY <3>2, <3>3
  <2>2. \A y \in Elems(r) \cup {s[1]} : y \in Elems(s)
    BY <1>1 DEF Elems
  <2> QED
    BY <2>1, <2>2
<1>3. ASSUME NoDup(s)
      PROVE  NoDup(r) /\ s[1] \notin Elems(r)
  <2>1. \A i, j \in 1 .. Len(s) : s[i] = s[j] => i = j
    BY <1>3 DEF NoDup
  <2>2. \A i \in 1 .. Len(r) : i + 1 \in 1 .. Len(s) /\ i + 1 # 1
    BY <1>1
  <2>3. ASSUME NEW i \in 1 .. Len(r), NEW j \in 1 .. Len(r), r[i] = r[j]
        PROVE  i = j
    <3>1. i + 1 = j + 1
      BY <1>1, <2>1, <2>2, <2>3
    <3> QED
      BY <1>1, <3>1
  <2>4. ASSUME NEW i \in 1 .. Len(r)
        PROVE  r[i] # s[1]
    <3>1. r[i] = s[i + 1] /\ 1 \in 1 .. Len(s)
      BY <1>1
    <3> QED
      BY <2>1, <2>2, <3>1
  <2> QED
    BY <2>3, <2>4 DEF NoDup, Elems
<1> QED
  BY <1>1, <1>2, <1>3 DEF r, Elems

\* Concatenation of two lists (thread_wakeup makes several threads ready).
LEMMA ConcatElems ==
    ASSUME NEW T, NEW s \in Seq(T), NEW r \in Seq(T)
    PROVE  /\ s \o r \in Seq(T)
           /\ Elems(s \o r) = Elems(s) \cup Elems(r)
           /\ NoDup(s) /\ NoDup(r) /\ Elems(s) \cap Elems(r) = {}
                => NoDup(s \o r)
<1> DEFINE c == s \o r
<1>1. /\ c \in Seq(T)
      /\ Len(c) = Len(s) + Len(r)
      /\ \A i \in 1 .. Len(s) + Len(r) :
            c[i] = IF i <= Len(s) THEN s[i] ELSE r[i - Len(s)]
      /\ Len(s) \in Nat /\ Len(r) \in Nat
  BY ConcatProperties, LenProperties
<1> HIDE DEF c
<1>2. ASSUME NEW i \in 1 .. Len(r)
      PROVE  i + Len(s) \in 1 .. Len(c) /\ c[i + Len(s)] = r[i]
  <2>1. /\ i + Len(s) \in 1 .. Len(s) + Len(r)
        /\ ~ (i + Len(s) <= Len(s))
        /\ (i + Len(s)) - Len(s) = i
    BY <1>1
  <2> QED
    BY <1>1, <2>1
<1>3. \A i \in 1 .. Len(s) : i \in 1 .. Len(c) /\ c[i] = s[i]
  BY <1>1
<1>4. \A i \in 1 .. Len(c) : \/ i \in 1 .. Len(s)
                             \/ /\ i - Len(s) \in 1 .. Len(r)
                                /\ c[i] = r[i - Len(s)]
  BY <1>1
<1>5. Elems(c) = Elems(s) \cup Elems(r)
  <2>1. \A y \in Elems(s) \cup Elems(r) : y \in Elems(c)
    BY <1>2, <1>3, Zenon DEF Elems
  <2>2. \A i \in 1 .. Len(c) : c[i] \in Elems(s) \cup Elems(r)
    <3> TAKE i \in 1 .. Len(c)
    <3>1. CASE i \in 1 .. Len(s)
      BY <1>3, <3>1 DEF Elems
    <3>2. CASE i \notin 1 .. Len(s)
      <4>1. i - Len(s) \in 1 .. Len(r) /\ c[i] = r[i - Len(s)]
        BY <1>4, <3>2
      <4> QED
        BY <4>1 DEF Elems
    <3> QED
      BY <3>1, <3>2
  <2> QED
    BY <2>1, <2>2, Zenon DEF Elems
<1>6. ASSUME NoDup(s), NoDup(r), Elems(s) \cap Elems(r) = {},
             NEW i \in 1 .. Len(c), NEW j \in 1 .. Len(c), c[i] = c[j]
      PROVE  i = j
  <2>1. \A k, m \in 1 .. Len(s) : s[k] = s[m] => k = m
    BY <1>6 DEF NoDup
  <2>2. \A k, m \in 1 .. Len(r) : r[k] = r[m] => k = m
    BY <1>6 DEF NoDup
  <2>3. \A k \in 1 .. Len(s), m \in 1 .. Len(r) : s[k] # r[m]
    BY <1>6 DEF Elems
  <2>4. CASE i \in 1 .. Len(s) /\ j \in 1 .. Len(s)
    BY <1>3, <1>6, <2>1, <2>4
  <2>5. CASE i \notin 1 .. Len(s) /\ j \notin 1 .. Len(s)
    <3>1. i - Len(s) = j - Len(s)
      BY <1>4, <1>6, <2>2, <2>5
    <3> QED
      BY <3>1, <1>1
  <2>6. CASE i \in 1 .. Len(s) /\ j \notin 1 .. Len(s)
    BY <1>3, <1>4, <1>6, <2>3, <2>6
  <2>7. CASE i \notin 1 .. Len(s) /\ j \in 1 .. Len(s)
    BY <1>3, <1>4, <1>6, <2>3, <2>7
  <2> QED
    BY <2>4, <2>5, <2>6, <2>7
<1> QED
  BY <1>1, <1>5, <1>6 DEF c, NoDup

\* In a finite set of positions the ranks are exactly 1, 2, ... up to its
\* size, so Nth enumerates the set in increasing order.
LEMMA NthEnumerates ==
    ASSUME NEW n \in Nat, NEW I \in SUBSET (1 .. n)
    PROVE  /\ Cardinality(I) \in Nat
           /\ \A k \in 1 .. Cardinality(I) : Nth(I, k) \in I
           /\ \A i \in I : \E k \in 1 .. Cardinality(I) : Nth(I, k) = i
           /\ \A k, m \in 1 .. Cardinality(I) : Nth(I, k) = Nth(I, m) => k = m
<1> DEFINE N == Cardinality(I)
           Upto(i) == {j \in I : j <= i}
           f == [i \in I |-> Rank(I, i)]
<1>1. IsFiniteSet(I) /\ N \in Nat
  <2>1. IsFiniteSet(1 .. n)
    BY FS_Interval, 1 \in Int, n \in Int
  <2>2. IsFiniteSet(I)
    BY <2>1, FS_Subset, Zenon
  <2> QED
    BY <2>2, FS_CardinalityType
<1>2. \A i \in I : Rank(I, i) \in 1 .. N
  <2> TAKE i \in I
  <2>1. IsFiniteSet(Upto(i)) /\ Cardinality(Upto(i)) <= N
    BY <1>1, FS_Subset
  <2>2. Cardinality(Upto(i)) \in Nat
    BY <2>1, FS_CardinalityType
  <2>3. i \in Upto(i)
    OBVIOUS
  <2>4. Cardinality(Upto(i)) # 0
    BY <2>1, <2>3, FS_EmptySet
  <2> QED
    BY <2>1, <2>2, <2>4 DEF Rank
<1>3. \A i, j \in I : Rank(I, i) = Rank(I, j) => i = j
  <2>1. ASSUME NEW i \in I, NEW j \in I, i < j
        PROVE  Rank(I, i) # Rank(I, j)
    <3>1. Upto(i) \in SUBSET Upto(j) /\ Upto(i) # Upto(j)
      <4>1. i \in Int /\ j \in Int /\ \A k \in I : k \in Int
        OBVIOUS
      <4>2. \A k \in I : k <= i => k <= j
        BY <4>1, <2>1
      <4>3. j \in Upto(j) /\ j \notin Upto(i)
        BY <4>1, <2>1
      <4> QED
        BY <4>2, <4>3, Zenon
    <3>2. IsFiniteSet(Upto(j))
      BY <1>1, FS_Subset
    <3> QED
      BY <3>1, <3>2, FS_Subset DEF Rank
  <2> QED
    BY <2>1
<1>4. f \in Injection(I, 1 .. N)
  BY <1>2, <1>3 DEF Injection, IsInjective
<1>5. IsFiniteSet(1 .. N) /\ Cardinality(1 .. N) = N
  BY <1>1, FS_Interval
<1>6. f \in Surjection(I, 1 .. N)
  BY <1>4, <1>5, FS_Injection
<1>7. \A k \in 1 .. N : \E i \in I : Rank(I, i) = k
  BY <1>6, Zenon DEF Surjection
<1>8. \A k \in 1 .. N : Nth(I, k) \in I /\ Rank(I, Nth(I, k)) = k
  BY <1>7 DEF Nth
<1>9. \A i \in I : Nth(I, Rank(I, i)) = i
  BY <1>2, <1>3, <1>8, Zenon
<1> QED
  BY <1>1, <1>2, <1>8, <1>9

\* Filter(s, S) has exactly the members of s that lie in S, each once if s has
\* each once: thread_wakeup neither loses nor duplicates a sleeper.
LEMMA FilterElems ==
    ASSUME NEW T, NEW s \in Seq(T), NEW S
    PROVE  /\ Filter(s, S) \in Seq(T)
           /\ Elems(Filter(s, S)) = Elems(s) \cap S
           /\ NoDup(s) => NoDup(Filter(s, S))
<1> DEFINE I == Positions(s, S)
           N == Cardinality(I)
           g == Filter(s, S)
<1>1. Len(s) \in Nat /\ \A i \in 1 .. Len(s) : s[i] \in T
  BY LenProperties
<1>2. I \in SUBSET (1 .. Len(s)) /\ \A i \in I : s[i] \in S
  BY DEF Positions
<1>3. /\ N \in Nat
      /\ \A k \in 1 .. N : Nth(I, k) \in I
      /\ \A i \in I : \E k \in 1 .. N : Nth(I, k) = i
      /\ \A k, m \in 1 .. N : Nth(I, k) = Nth(I, m) => k = m
  BY <1>1, <1>2, NthEnumerates, Zenon
<1>4. g = [k \in 1 .. N |-> s[Nth(I, k)]]
  BY DEF Filter
<1>5. \A k \in 1 .. N : s[Nth(I, k)] \in T
  BY <1>1, <1>2, <1>3
<1>6. g \in [1 .. N -> T]
  BY <1>4, <1>5
<1>7. g \in Seq(T) /\ Len(g) = N
  BY <1>3, <1>6, SeqDef, LenProperties
<1>8. \A k \in 1 .. N : g[k] = s[Nth(I, k)]
  BY <1>4
<1> HIDE DEF g, N
<1>9. Elems(g) \subseteq Elems(s) \cap S
  BY <1>2, <1>3, <1>7, <1>8 DEF Elems
<1>10. Elems(s) \cap S \subseteq Elems(g)
  <2>1. ASSUME NEW y \in Elems(s) \cap S
        PROVE  y \in Elems(g)
    <3>1. PICK i \in 1 .. Len(s) : y = s[i]
      BY DEF Elems
    <3>2. i \in I
      BY <3>1 DEF Positions
    <3>3. PICK k \in 1 .. N : Nth(I, k) = i
      BY <1>3, <3>2
    <3> QED
      BY <1>7, <1>8, <3>1, <3>3 DEF Elems
  <2> QED
    BY <2>1
<1>11. ASSUME NoDup(s) PROVE NoDup(g)
  BY <1>2, <1>3, <1>7, <1>8, <1>11 DEF NoDup
<1> QED
  BY <1>7, <1>9, <1>10, <1>11 DEF g

\* The sleeper that thread_wakeupOne picks is one of those on the address.
LEMMA FirstElem ==
    ASSUME NEW T, NEW s \in Seq(T), NEW S, Positions(s, S) # {}
    PROVE  First(s, S) \in Elems(s) \cap S
<1> DEFINE I == Positions(s, S)
           N == Cardinality(I)
<1>1. Len(s) \in Nat /\ I \in SUBSET (1 .. Len(s))
  BY LenProperties DEF Positions
<1>2. N \in Nat /\ \A k \in 1 .. N : Nth(I, k) \in I
  BY <1>1, NthEnumerates, Zenon
<1>3. IsFiniteSet(I)
  <2>1. IsFiniteSet(1 .. Len(s))
    BY <1>1, FS_Interval, 1 \in Int, Len(s) \in Int
  <2> QED
    BY <1>1, <2>1, FS_Subset
<1>4. N # 0
  BY <1>3, FS_EmptySet
<1>5. Nth(I, 1) \in I
  BY <1>2, <1>4
<1> QED
  BY <1>5, Zenon DEF First, Positions, Elems
=============================================================================
