---------------------------- MODULE QueueLemmas ----------------------------
(***************************************************************************)
(* What Array.push, Array.shift, Array.splice and Array.filter of the      *)
(* source do to a list, and when a loop over a queue ends, for the proofs  *)
(* about the scheduler, the worker pool, the intakes, the serving cache,   *)
(* the plans of invalidation and the inheritance graph.                    *)
(***************************************************************************)
EXTENDS Integers, Sequences, SequencesExt, Functions, Subsequences, FiniteSetTheorems,
        WellFoundedInduction, TLAPS

Injective(q) == \A i, j \in DOMAIN q : q[i] = q[j] => i = j

\* What Array.push does to the set of queued tasks.
LEMMA AppendQueue ==
  ASSUME NEW S, NEW q \in Seq(S), NEW t \in S
  PROVE  /\ Append(q, t) \in Seq(S)
         /\ Append(q, t) # <<>>
         /\ Range(Append(q, t)) = Range(q) \cup {t}
         /\ Injective(q) /\ t \notin Range(q) => Injective(Append(q, t))
  <1> DEFINE p == Append(q, t)
  <1>1. /\ p \in Seq(S) /\ p # <<>>
        /\ DOMAIN q = 1..Len(q) /\ DOMAIN p = 1..(Len(q) + 1)
        /\ \A i \in DOMAIN q : i \in DOMAIN p /\ p[i] = q[i]
        /\ Len(q) + 1 \in DOMAIN p /\ p[Len(q) + 1] = t
        /\ \A i \in DOMAIN p : i \in DOMAIN q \/ i = Len(q) + 1
    OBVIOUS
  <1> HIDE DEF p
  <1>2. Range(p) = Range(q) \cup {t}
    BY <1>1, Zenon DEF Range
  <1>3. Injective(q) /\ t \notin Range(q) => Injective(p)
    BY <1>1, Zenon DEF Range, Injective
  <1> QED BY <1>1, <1>2, <1>3 DEF p

\* What Array.shift does to the set of queued tasks.
LEMMA ShiftQueue ==
  ASSUME NEW S, NEW q \in Seq(S), q # <<>>
  PROVE  /\ Head(q) \in S
         /\ Head(q) \in Range(q)
         /\ Tail(q) \in Seq(S)
         /\ Range(q) = Range(Tail(q)) \cup {Head(q)}
         /\ Injective(q) => Injective(Tail(q)) /\ Head(q) \notin Range(Tail(q))
  <1>1. Range(q) = Range(Tail(q)) \cup {Head(q)}
    <2>1. ASSUME NEW x \in Range(q) PROVE x \in Range(Tail(q)) \cup {Head(q)}
      <3>1. PICK i \in DOMAIN q : q[i] = x
        BY <2>1 DEF Range
      <3>2. CASE i = 1
        BY <3>1, <3>2
      <3>3. CASE i # 1
        <4>1. i - 1 \in DOMAIN Tail(q) /\ Tail(q)[i - 1] = x
          BY <3>1, <3>3
        <4> QED BY <4>1 DEF Range
      <3> QED BY <3>2, <3>3
    <2>2. ASSUME NEW x \in Range(Tail(q)) PROVE x \in Range(q)
      BY <2>2 DEF Range
    <2>3. Head(q) \in Range(q)
      BY DEF Range
    <2> QED BY <2>1, <2>2, <2>3
  <1>2. Injective(q) => Injective(Tail(q)) /\ Head(q) \notin Range(Tail(q))
    BY DEF Range, Injective
  <1> QED BY <1>1, <1>2

LEMMA EmptyQueue == ASSUME NEW S
                    PROVE  /\ <<>> \in Seq(S)
                           /\ Range(<<>>) = {}
                           /\ Injective(<<>>)
  BY DEF Range, Injective

\* What Array.push of several elements does to a list.
LEMMA ConcatFacts ==
  ASSUME NEW S, NEW p \in Seq(S), NEW q \in Seq(S)
  PROVE  /\ p \o q \in Seq(S)
         /\ Range(p \o q) = Range(p) \cup Range(q)
         /\ Injective(p) /\ Injective(q) /\ Range(p) \cap Range(q) = {} => Injective(p \o q)
  <1> DEFINE c == p \o q
             m == Len(p)
             n == Len(q)
  <1>1. /\ m \in Nat /\ n \in Nat /\ DOMAIN p = 1 .. m /\ DOMAIN q = 1 .. n
        /\ c \in Seq(S) /\ DOMAIN c = 1 .. (m + n)
        /\ \A i \in 1 .. (m + n) : c[i] = IF i <= m THEN p[i] ELSE q[i - m]
    OBVIOUS
  <1> HIDE DEF c, m, n
  <1>2. ASSUME NEW i \in DOMAIN c
        PROVE  (i \in DOMAIN p /\ c[i] = p[i]) \/ (i - m \in DOMAIN q /\ c[i] = q[i - m])
    BY <1>1
  <1>3. /\ \A i \in DOMAIN p : i \in DOMAIN c /\ c[i] = p[i]
        /\ \A j \in DOMAIN q : j + m \in DOMAIN c /\ c[j + m] = q[j]
    <2>1. ASSUME NEW j \in DOMAIN q PROVE j + m \in DOMAIN c /\ c[j + m] = q[j]
      <3>1. j + m \in 1 .. (m + n) /\ ~(j + m <= m) /\ (j + m) - m = j
        BY <1>1
      <3> QED BY <1>1, <3>1
    <2>2. ASSUME NEW i \in DOMAIN p PROVE i \in DOMAIN c /\ c[i] = p[i]
      BY <1>1
    <2> QED BY <2>1, <2>2
  <1>4. ASSUME NEW x PROVE x \in Range(c) <=> x \in Range(p) \cup Range(q)
    BY <1>2, <1>3 DEF Range
  <1>5. ASSUME Injective(p), Injective(q), Range(p) \cap Range(q) = {},
               NEW i \in DOMAIN c, NEW j \in DOMAIN c, c[i] = c[j]
        PROVE  i = j
    <2>1. CASE i <= m /\ j <= m
      BY <1>1, <1>5, <2>1 DEF Injective
    <2>2. CASE ~(i <= m) /\ ~(j <= m)
      <3>1. i - m \in DOMAIN q /\ j - m \in DOMAIN q /\ q[i - m] = q[j - m]
        BY <1>1, <1>5, <2>2
      <3>2. i - m = j - m
        BY <1>5, <3>1 DEF Injective
      <3> QED BY <1>1, <3>2
    <2>3. CASE i <= m /\ ~(j <= m)
      <3>1. i \in DOMAIN p /\ j - m \in DOMAIN q /\ p[i] = q[j - m]
        BY <1>1, <1>5, <2>3
      <3> QED BY <1>5, <3>1 DEF Range
    <2>4. CASE ~(i <= m) /\ j <= m
      <3>1. j \in DOMAIN p /\ i - m \in DOMAIN q /\ p[j] = q[i - m]
        BY <1>1, <1>5, <2>4
      <3> QED BY <1>5, <3>1 DEF Range
    <2> QED BY <2>1, <2>2, <2>3, <2>4
  <1> QED BY <1>1, <1>4, <1>5 DEF c, Injective

\* What Array.splice leaves of a list.
LEMMA RemoveAtFacts ==
  ASSUME NEW S, NEW q \in Seq(S), NEW i \in DOMAIN q
  PROVE  /\ RemoveAt(q, i) \in Seq(S)
         /\ \A j \in DOMAIN RemoveAt(q, i) : \E k \in DOMAIN q : RemoveAt(q, i)[j] = q[k]
         /\ \A k \in DOMAIN q : k # i => \E j \in DOMAIN RemoveAt(q, i) : RemoveAt(q, i)[j] = q[k]
         /\ \A j, k \in DOMAIN RemoveAt(q, i) : j # k =>
              \E m, n \in DOMAIN q : m # n /\ RemoveAt(q, i)[j] = q[m] /\ RemoveAt(q, i)[k] = q[n]
  <1> DEFINE p == RemoveAt(q, i)
  <1>1. i \in 1 .. Len(q) /\ Len(q) \in Nat /\ DOMAIN q = 1 .. Len(q)
    OBVIOUS
  <1>2. p \in Seq(S) /\ Len(p) = Len(q) - 1 /\ DOMAIN p = 1 .. (Len(q) - 1)
    BY <1>1 DEF RemoveAt
  <1>3. ASSUME NEW j \in 1 .. (Len(q) - 1) PROVE p[j] = IF j < i THEN q[j] ELSE q[j + 1]
    <2> DEFINE left == SubSeq(q, 1, i - 1)
               right == SubSeq(q, i + 1, Len(q))
    <2>1. /\ left \in Seq(S) /\ Len(left) = i - 1 /\ right \in Seq(S) /\ Len(right) = Len(q) - i
          /\ p = left \o right
      BY <1>1 DEF RemoveAt
    <2>2. \A k \in 1 .. (i - 1) : left[k] = q[k]
      BY <1>1
    <2>3. \A k \in 1 .. (Len(q) - i) : right[k] = q[i + k]
      BY <1>1
    <2> HIDE DEF left, right, p
    <2>4. CASE j < i
      BY <1>1, <2>1, <2>2, <2>4
    <2>5. CASE ~(j < i)
      <3>1. p[j] = right[j - (i - 1)] /\ j - (i - 1) \in 1 .. (Len(q) - i)
        BY <1>1, <2>1, <2>5
      <3>2. right[j - (i - 1)] = q[i + (j - (i - 1))] /\ i + (j - (i - 1)) = j + 1
        BY <1>1, <2>3, <3>1
      <3> QED BY <2>5, <3>1, <3>2
    <2> QED BY <2>4, <2>5
  <1> HIDE DEF p
  <1>4. ASSUME NEW j \in DOMAIN p PROVE \E k \in DOMAIN q : p[j] = q[k]
    <2>1. CASE j < i
      BY <1>1, <1>2, <1>3, <2>1
    <2>2. CASE ~(j < i)
      <3>1. j + 1 \in DOMAIN q /\ p[j] = q[j + 1]
        BY <1>1, <1>2, <1>3, <2>2
      <3> QED BY <3>1
    <2> QED BY <2>1, <2>2
  <1>5. ASSUME NEW k \in DOMAIN q, k # i PROVE \E j \in DOMAIN p : p[j] = q[k]
    <2>1. CASE k < i
      BY <1>1, <1>2, <1>3, <2>1
    <2>2. CASE ~(k < i)
      <3>1. k - 1 \in 1 .. (Len(q) - 1) /\ ~(k - 1 < i) /\ (k - 1) + 1 = k
        BY <1>1, <1>5, <2>2
      <3>2. p[k - 1] = q[k]
        BY <1>3, <3>1
      <3> QED BY <1>2, <3>1, <3>2
    <2> QED BY <2>1, <2>2
  <1>6. ASSUME NEW j \in DOMAIN p, NEW k \in DOMAIN p, j # k
        PROVE  \E m, n \in DOMAIN q : m # n /\ p[j] = q[m] /\ p[k] = q[n]
    <2> DEFINE m == IF j < i THEN j ELSE j + 1
               n == IF k < i THEN k ELSE k + 1
    <2>1. m \in DOMAIN q /\ n \in DOMAIN q /\ m # n
      BY <1>1, <1>2, <1>6
    <2>2. p[j] = q[m] /\ p[k] = q[n]
      BY <1>2, <1>3
    <2> QED BY <2>1, <2>2
  <1> QED BY <1>2, <1>4, <1>5, <1>6 DEF p

\* The places of the positions I are the numbers up to their count, in the same order.
LEMMA RankFacts ==
  ASSUME NEW m \in Nat, NEW I \in SUBSET (1 .. m)
  PROVE  /\ Cardinality(I) \in Nat /\ Cardinality(I) <= m
         /\ \A i \in I : Rank(I, i) \in 1 .. Cardinality(I)
         /\ \A i, k \in I : i < k => Rank(I, i) < Rank(I, k)
         /\ \A n \in 1 .. Cardinality(I) : \E i \in I : Rank(I, i) = n
  <1>1. IsFiniteSet(1 .. m) /\ Cardinality(1 .. m) = m
    <2>1. 1 \in Int /\ m \in Int
      OBVIOUS
    <2> QED BY <2>1, FS_Interval
  <1>2. IsFiniteSet(I) /\ Cardinality(I) \in Nat /\ Cardinality(I) <= m
    BY <1>1, FS_Subset, FS_CardinalityType
  <1> DEFINE Below(i) == {j \in I : j <= i}
  <1>3. ASSUME NEW i \in I
        PROVE  /\ IsFiniteSet(Below(i)) /\ Cardinality(Below(i)) \in Nat
               /\ Cardinality(Below(i)) <= Cardinality(I) /\ Below(i) # {}
    <2>1. Below(i) \in SUBSET I /\ i \in Below(i)
      OBVIOUS
    <2> HIDE DEF Below
    <2> QED BY <1>2, <2>1, FS_Subset, FS_CardinalityType
  <1>4. ASSUME NEW i \in I PROVE Rank(I, i) \in 1 .. Cardinality(I)
    <2>1. Rank(I, i) = Cardinality(Below(i))
      BY DEF Rank
    <2>2. Cardinality(Below(i)) # 0
      <3> HIDE DEF Below
      <3> QED BY <1>3, FS_EmptySet
    <2> HIDE DEF Below
    <2> QED BY <1>2, <1>3, <2>1, <2>2
  <1>5. ASSUME NEW i \in I, NEW k \in I, i < k PROVE Rank(I, i) < Rank(I, k)
    <2>1. Below(i) \in SUBSET Below(k) /\ k \in Below(k) /\ k \notin Below(i)
      <3>1. i \in Nat /\ k \in Nat /\ \A j \in I : j \in Nat
        OBVIOUS
      <3>2. \A j \in I : j <= i => j <= k
        BY <1>5, <3>1
      <3>3. Below(i) \in SUBSET Below(k)
        BY <3>2
      <3>4. k \in Below(k) /\ k \notin Below(i)
        BY <1>5, <3>1
      <3> QED BY <3>3, <3>4
    <2>2. Rank(I, i) = Cardinality(Below(i)) /\ Rank(I, k) = Cardinality(Below(k))
      BY DEF Rank
    <2> HIDE DEF Below
    <2>3. Cardinality(Below(i)) <= Cardinality(Below(k))
          /\ Cardinality(Below(i)) # Cardinality(Below(k))
      BY <1>3, <2>1, FS_Subset
    <2> QED BY <1>3, <2>2, <2>3
  <1>6. \A n \in 1 .. Cardinality(I) : \E i \in I : Rank(I, i) = n
    <2> DEFINE f == [i \in I |-> Rank(I, i)]
               N == 1 .. Cardinality(I)
    <2>1. \A i, k \in I : Rank(I, i) = Rank(I, k) => i = k
      <3>1. \A i \in I : Rank(I, i) \in Nat
        BY <1>2, <1>4
      <3> QED BY <1>5, <3>1
    <2>2. f \in Injection(I, N)
      BY <1>4, <2>1 DEF Injection, IsInjective
    <2>3. IsFiniteSet(N) /\ Cardinality(N) = Cardinality(I)
      <3>1. 1 \in Int /\ Cardinality(I) \in Int
        BY <1>2
      <3> QED BY <1>2, <3>1, FS_Interval
    <2>4. f \in Surjection(I, N)
      <3> HIDE DEF f, N
      <3> QED BY <2>2, <2>3, FS_Injection
    <2> QED BY <2>4 DEF Surjection
  <1> QED BY <1>2, <1>4, <1>5, <1>6

\* A subsequence consists of what is at the positions, each as often as there.
LEMMA SubsequenceFacts ==
  ASSUME NEW S, NEW q \in Seq(S), NEW I \in SUBSET DOMAIN q
  PROVE  LET p == Subsequence(q, I)
         IN  /\ p \in Seq(S) /\ Len(p) <= Len(q)
             /\ I # DOMAIN q => Len(p) < Len(q)
             /\ \A n \in DOMAIN p : \E i \in I : p[n] = q[i]
             /\ \A i \in I : \E n \in DOMAIN p : p[n] = q[i]
             /\ Injective(q) => Injective(p)
  <1> DEFINE p == Subsequence(q, I)
             at(n) == CHOOSE i \in I : Rank(I, i) = n
  <1>1. Len(q) \in Nat /\ DOMAIN q = 1 .. Len(q)
    OBVIOUS
  <1>2. /\ Cardinality(I) \in Nat /\ Cardinality(I) <= Len(q)
        /\ \A i \in I : Rank(I, i) \in 1 .. Cardinality(I)
        /\ \A i, k \in I : i < k => Rank(I, i) < Rank(I, k)
        /\ \A n \in 1 .. Cardinality(I) : \E i \in I : Rank(I, i) = n
    BY <1>1, RankFacts
  <1>3. \A n \in 1 .. Cardinality(I) : at(n) \in I /\ Rank(I, at(n)) = n
    BY <1>2
  <1>4. ASSUME NEW i \in I PROVE at(Rank(I, i)) = i
    <2> DEFINE k == at(Rank(I, i))
    <2>1. k \in I /\ Rank(I, k) = Rank(I, i)
      BY <1>2, <1>3
    <2>2. \A j \in I : j \in Nat /\ Rank(I, j) \in Nat
      BY <1>1, <1>2
    <2> HIDE DEF k
    <2>3. ~(k < i) /\ ~(i < k)
      BY <1>2, <2>1, <2>2
    <2>4. k = i
      BY <2>1, <2>2, <2>3
    <2> QED BY <2>4 DEF k
  <1>5. p = [n \in 1 .. Cardinality(I) |-> q[at(n)]]
    BY DEF Subsequence
  <1> HIDE DEF p, at
  <1>6. /\ p \in Seq(S) /\ Len(p) = Cardinality(I) /\ DOMAIN p = 1 .. Cardinality(I)
        /\ \A n \in DOMAIN p : p[n] = q[at(n)]
    <2>1. \A n \in 1 .. Cardinality(I) : q[at(n)] \in S
      BY <1>3
    <2> QED BY <1>2, <1>5, <2>1
  <1>7. \A n \in DOMAIN p : \E i \in I : p[n] = q[i]
    BY <1>3, <1>6
  <1>8. ASSUME NEW i \in I PROVE \E n \in DOMAIN p : p[n] = q[i]
    <2>1. Rank(I, i) \in DOMAIN p /\ p[Rank(I, i)] = q[i]
      BY <1>2, <1>4, <1>6
    <2> QED BY <2>1
  <1>9. ASSUME Injective(q),
               NEW n \in DOMAIN p, NEW k \in DOMAIN p, p[n] = p[k]
        PROVE  n = k
    <2>1. at(n) = at(k)
      BY <1>3, <1>6, <1>9 DEF Injective
    <2> QED BY <1>3, <1>6, <2>1
  <1>10. ASSUME I # DOMAIN q PROVE Cardinality(I) # Len(q)
    <2> DEFINE m == Len(q)
    <2>1. IsFiniteSet(1 .. m) /\ Cardinality(1 .. m) = m
      <3>1. 1 \in Int /\ m \in Int /\ m \in Nat
        BY <1>1
      <3> HIDE DEF m
      <3> QED BY <3>1, FS_Interval
    <2>2. I \in SUBSET (1 .. m) /\ I # 1 .. m
      BY <1>1, <1>10
    <2> HIDE DEF m
    <2>3. Cardinality(I) # m
      BY <2>1, <2>2, FS_Subset
    <2> QED BY <2>3 DEF m
  <1>11. I # DOMAIN q => Len(p) < Len(q)
    BY <1>1, <1>2, <1>6, <1>10
  <1> QED BY <1>2, <1>6, <1>7, <1>8, <1>9, <1>11 DEF p, Injective

-----------------------------------------------------------------------------
(* Loops.                                                                  *)

\* A set of natural numbers that is not empty has a least element.
LEMMA LeastNatural ==
  ASSUME NEW T \in SUBSET Nat, T # {}
  PROVE  \E m \in T : \A n \in T : m <= n
<1>1. IsWellFoundedOn(OpToRel(<, Nat), Nat)
  BY NatLessThanWellFounded
<1>2. PICK m \in T : \A n \in T : ~(<<n, m>> \in OpToRel(<, Nat))
  BY <1>1, WFMin
<1>3. \A n \in T : ~(n < m)
  BY <1>2 DEF OpToRel
<1>4. \A n \in T : n \in Nat
  OBVIOUS
<1>5. \A n \in T : m <= n
  BY <1>3, <1>4
<1> QED  BY <1>5

\* Whoever follows the steps from s comes to d.
Leads(S, done, step, s, d) ==
  \A C \in SUBSET S : s \in C /\ (\A x \in C \ done : step[x] \in C) => d \in C

\* f gives what a loop over states returns: it takes steps until it is done, then gives out.
IsLoop(f, S, done, step, out) ==
  f = [s \in S |-> IF s \in done THEN out[s] ELSE f[step[s]]]

\* A definition by recursion of this form has a solution, whether or not the loop ends.
LEMMA LoopExists ==
  ASSUME NEW S, NEW done, NEW step \in [S -> S], NEW out
  PROVE  \E f : IsLoop(f, S, done, step, out)
<1> DEFINE Ends(s) == {d \in done \cap S : Leads(S, done, step, s, d)}
           f == [s \in S |-> out[CHOOSE d : d \in Ends(s)]]
<1>1. ASSUME NEW s \in S, s \in done
      PROVE  Ends(s) = {s}
  <2>1. Leads(S, done, step, s, s)
    BY DEF Leads
  <2>2. ASSUME NEW d \in Ends(s) PROVE d = s
    <3>1. {s} \in SUBSET S /\ s \in {s} /\ \A x \in {s} \ done : step[x] \in {s}
      BY <1>1
    <3> QED  BY <2>2, <3>1 DEF Leads
  <2> QED  BY <1>1, <2>1, <2>2
<1>2. ASSUME NEW s \in S, s \notin done
      PROVE  Ends(s) = Ends(step[s])
  <2>1. ASSUME NEW d \in Ends(s) PROVE Leads(S, done, step, step[s], d)
    <3> SUFFICES ASSUME NEW C \in SUBSET S, step[s] \in C, \A x \in C \ done : step[x] \in C
                 PROVE  d \in C
      BY DEF Leads
    <3>1. C \cup {s} \in SUBSET S /\ s \in C \cup {s}
          /\ \A x \in (C \cup {s}) \ done : step[x] \in C \cup {s}
      OBVIOUS
    <3>2. d \in C \cup {s}
      BY <2>1, <3>1 DEF Leads
    <3> QED  BY <1>2, <2>1, <3>2
  <2>2. ASSUME NEW d \in Ends(step[s]) PROVE Leads(S, done, step, s, d)
    BY <1>2, <2>2 DEF Leads
  <2> QED  BY <2>1, <2>2
<1>3. \A s \in S : f[s] = IF s \in done THEN out[s] ELSE f[step[s]]
  <2> SUFFICES ASSUME NEW s \in S PROVE f[s] = IF s \in done THEN out[s] ELSE f[step[s]]
    OBVIOUS
  <2>1. CASE s \in done
    <3>1. Ends(s) = {s}
      BY <1>1, <2>1
    <3>2. f[s] = out[CHOOSE d : d \in Ends(s)]
      OBVIOUS
    <3> HIDE DEF f, Ends
    <3>3. (CHOOSE d : d \in Ends(s)) = s
      BY <3>1
    <3> QED  BY <2>1, <3>2, <3>3
  <2>2. CASE s \notin done
    <3>1. Ends(s) = Ends(step[s])
      BY <1>2, <2>2
    <3>2. (CHOOSE d : d \in Ends(s)) = (CHOOSE d : d \in Ends(step[s]))
      BY <3>1
    <3> QED  BY <2>2, <3>2
  <2> QED  BY <2>1, <2>2
<1>4. f = [s \in S |-> IF s \in done THEN out[s] ELSE f[step[s]]]
  BY <1>3
<1> HIDE DEF f
<1> QED  BY <1>4 DEF IsLoop

\* A step stays in I and lowers a, or else b.
Lowers(I, done, step, a, b) ==
  \A s \in I \ done : /\ step[s] \in I
                      /\ a[step[s]] <= a[s]
                      /\ a[step[s]] = a[s] => b[step[s]] < b[s]

\* What comes out of the members of I that are done is in Good.
ComesOut(I, done, out, Good) == \A s \in I \cap done : out[s] \in Good

\* A loop whose steps stay in I and lower a, or else b, ends, and ends in Good.
LEMMA LoopKeeps ==
  ASSUME NEW S, NEW done, NEW step, NEW out, NEW f,
         IsLoop(f, S, done, step, out),
         NEW I \in SUBSET S, NEW a \in [I -> Nat], NEW b \in [I -> Nat],
         Lowers(I, done, step, a, b),
         NEW Good, ComesOut(I, done, out, Good)
  PROVE  \A s \in I : f[s] \in Good
<1> USE DEF Lowers, ComesOut
<1> DEFINE Bad == {s \in I : f[s] \notin Good}
<1> SUFFICES ASSUME Bad # {} PROVE FALSE
  OBVIOUS
<1>1. PICK m \in {a[s] : s \in Bad} : \A n \in {a[s] : s \in Bad} : m <= n
  <2>1. Bad \subseteq I
    OBVIOUS
  <2> HIDE DEF Bad
  <2>2. {a[s] : s \in Bad} \subseteq Nat /\ {a[s] : s \in Bad} # {}
    BY <2>1
  <2> QED  BY <2>2, LeastNatural
<1> DEFINE Low == {s \in Bad : a[s] = m}
<1>2. PICK n \in {b[s] : s \in Low} : \A k \in {b[s] : s \in Low} : n <= k
  <2>1. Low \subseteq I
    OBVIOUS
  <2>2. Low # {}
    BY <1>1
  <2> HIDE DEF Low
  <2>3. {b[s] : s \in Low} \subseteq Nat /\ {b[s] : s \in Low} # {}
    BY <2>1, <2>2
  <2> QED  BY <2>3, LeastNatural
<1>3. PICK s \in Low : b[s] = n
  BY <1>2
<1>4. s \notin done
  BY <1>3 DEF IsLoop
<1>5. step[s] \in I /\ f[s] = f[step[s]]
  BY <1>3, <1>4 DEF IsLoop
<1>6. step[s] \in Bad
  BY <1>3, <1>5
<1>7. /\ a[s] = m /\ a[step[s]] <= m /\ m <= a[step[s]]
      /\ a[s] \in Nat /\ a[step[s]] \in Nat
  BY <1>1, <1>3, <1>4, <1>6
<1>8. a[step[s]] = a[s]
  BY <1>7
<1>9. b[step[s]] < b[s]
  BY <1>3, <1>4, <1>8
<1>10. step[s] \in Low
  BY <1>6, <1>7, <1>8
<1>11. n <= b[step[s]]
  BY <1>2, <1>10
<1>12. b[s] \in Nat /\ b[step[s]] \in Nat
  BY <1>3, <1>6
<1> QED  BY <1>3, <1>9, <1>11, <1>12
=============================================================================
