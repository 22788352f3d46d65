----------------------------- MODULE ListProofs -----------------------------
(***************************************************************************)
(* Facts about lists and numbers that the other proofs cite: induction     *)
(* over the natural numbers, functions defined by recursion, what Keep     *)
(* returns, that ranks in an order number the elements it ranks, how sums  *)
(* grow, and what lists become when they are joined, flattened or mapped.  *)
(*                                                                         *)
(* The induction theorems of the library take a predicate as a parameter,  *)
(* which the provers cannot instantiate; here a predicate is a set.        *)
(***************************************************************************)
EXTENDS Lists, SequencesExt, FiniteSetTheorems, TLAPS

(***************************************************************************)
(* Induction                                                               *)
(***************************************************************************)
\* A set of natural numbers that is not empty has a least element.
LEMMA LeastNumber ==
  ASSUME NEW T \in SUBSET Nat, T # {}
  PROVE  \E n \in T : \A m \in T : n <= m
  <1> DEFINE less == {p \in Nat \X Nat : p[1] < p[2]}
  <1>1. IsWellFoundedOn(less, Nat)
    BY NatLessThanWellFounded DEF OpToRel
  <1> HIDE DEF less
  <1>2. PICK n \in T : \A m \in T : ~ (<<m, n>> \in less)
    BY <1>1, WFMin
  <1>3. \A m \in T : ~ (m < n)
    BY <1>2 DEF less
  <1> QED BY <1>3

\* Induction, for the set of the numbers that something holds of.
LEMMA InductionOverNat ==
  ASSUME NEW T, 0 \in T, \A n \in Nat : n \in T => n + 1 \in T
  PROVE  Nat \subseteq T
  <1> SUFFICES ASSUME ~ (Nat \subseteq T) PROVE FALSE
    OBVIOUS
  <1>1. PICK n \in Nat \ T : \A m \in Nat \ T : n <= m
    <2>1. Nat \ T \in SUBSET Nat /\ Nat \ T # {}
      OBVIOUS
    <2> QED BY <2>1, LeastNumber
  <1>2. n - 1 \in Nat /\ n - 1 < n /\ n = (n - 1) + 1
    BY <1>1
  <1>3. n - 1 \in T
    BY <1>1, <1>2
  <1> QED BY <1>1, <1>2, <1>3

\* f is a row of values that begins with v and goes on by the functions in next.
Recurs(f, v, next, N) == f[0] = v /\ \A n \in 1..N : f[n] = next[n][f[n - 1]]

\* A function defined by recursion over 0..N exists.
LEMMA RecursionOverInterval ==
  ASSUME NEW V, NEW v \in V, NEW N \in Nat, NEW next \in [1..N -> [V -> V]]
  PROVE  \E f \in [0..N -> V] : Recurs(f, v, next, N)
  <1> DEFINE upTo(f, n) == /\ f[0] = v
                           /\ \A k \in 1..n : f[k] = next[k][f[k - 1]]
             T == {n \in Nat : n <= N => \E f \in [0..n -> V] : upTo(f, n)}
  <1>1. 0 \in T
    <2>1. [k \in 0..0 |-> v] \in [0..0 -> V] /\ upTo([k \in 0..0 |-> v], 0)
      OBVIOUS
    <2> QED BY <2>1
  <1>2. ASSUME NEW n \in Nat, n \in T PROVE n + 1 \in T
    <2> SUFFICES ASSUME n + 1 <= N PROVE \E g \in [0..(n + 1) -> V] : upTo(g, n + 1)
      OBVIOUS
    <2>1. PICK f \in [0..n -> V] : upTo(f, n)
      BY <1>2
    <2> DEFINE g == [k \in 0..(n + 1) |-> IF k <= n THEN f[k] ELSE next[n + 1][f[n]]]
    <2>2. n + 1 \in 1..N /\ f[n] \in V /\ next[n + 1][f[n]] \in V
      OBVIOUS
    <2>3. g \in [0..(n + 1) -> V]
      BY <2>2
    <2>4. g[0] = v
      BY <2>1
    <2>5. ASSUME NEW k \in 1..(n + 1) PROVE g[k] = next[k][g[k - 1]]
      <3>1. CASE k <= n
        <4>1. k \in 1..n /\ k - 1 \in 0..n /\ g[k] = f[k] /\ g[k - 1] = f[k - 1]
          BY <3>1
        <4> QED BY <2>1, <4>1
      <3>2. CASE k = n + 1
        BY <3>2
      <3> QED BY <3>1, <3>2
    <2> QED BY <2>3, <2>4, <2>5
  <1> HIDE DEF T
  <1>3. Nat \subseteq T
    BY <1>1, <1>2, InductionOverNat
  <1>4. N \in T
    BY <1>3
  <1> QED BY <1>4 DEF T, Recurs

(***************************************************************************)
(* Keep                                                                    *)
(***************************************************************************)
\* k is what is kept of the first n elements of s: e[i] is the place in s that
\* the i-th element of k comes from.
KeptBy(e, k, s, S, n) ==
  /\ e \in [1..Len(k) -> 1..n]
  /\ \A i, j \in 1..Len(k) : i < j => e[i] < e[j]
  /\ \A i \in 1..Len(k) : k[i] = s[e[i]] /\ k[i] \in S
  /\ \A p \in 1..n : s[p] \in S => \E i \in 1..Len(k) : e[i] = p

\* What is kept of one element more.
LEMMA KeepNext ==
  ASSUME NEW T, NEW s \in Seq(T), NEW S, NEW n \in 1..Len(s), NEW o, o = n - 1,
         NEW k \in Seq(T), NEW e, KeptBy(e, k, s, S, o)
  PROVE  IF s[n] \in S THEN \E f : KeptBy(f, Append(k, s[n]), s, S, n)
                       ELSE KeptBy(e, k, s, S, n)
  <1>0. Len(k) \in Nat /\ n \in Nat /\ s[n] \in T /\ 1..o = 1..(n - 1)
    OBVIOUS
  <1>1. CASE s[n] \notin S
    <2>1. e \in [1..Len(k) -> 1..n]
      BY <1>0 DEF KeptBy
    <2>2. ASSUME NEW p \in 1..n, s[p] \in S PROVE \E i \in 1..Len(k) : e[i] = p
      <3>1. p \in 1..o
        BY <1>0, <1>1, <2>2
      <3> QED BY <2>2, <3>1 DEF KeptBy
    <2> QED BY <1>1, <2>1, <2>2 DEF KeptBy
  <1>2. CASE s[n] \in S
    <2> DEFINE l == Append(k, s[n])
               m == Len(k) + 1
               f == [i \in 1..m |-> IF i = m THEN n ELSE e[i]]
    <2>1. Len(l) = m /\ l[m] = s[n] /\ \A i \in 1..Len(k) : l[i] = k[i]
      BY <1>0
    <2>2. \A i \in 1..m : i = m \/ i \in 1..Len(k)
      BY <1>0
    <2>3. ASSUME NEW i \in 1..Len(k) PROVE e[i] \in 1..(n - 1) /\ e[i] \in 1..n /\ f[i] = e[i]
      <3>1. e[i] \in 1..(n - 1)
        BY <1>0 DEF KeptBy
      <3>2. i \in 1..m /\ i # m
        BY <1>0
      <3> QED BY <1>0, <3>1, <3>2
    <2>4. f \in [1..m -> 1..n] /\ f[m] = n
      <3>1. m \in 1..m /\ n \in 1..n
        BY <1>0
      <3>2. \A i \in 1..m : f[i] \in 1..n
        BY <2>2, <2>3, <3>1
      <3> QED BY <3>1, <3>2
    <2> HIDE DEF f
    <2>5. ASSUME NEW i \in 1..m, NEW j \in 1..m, i < j PROVE f[i] < f[j]
      <3>1. i \in 1..Len(k) /\ f[i] = e[i] /\ e[i] \in 1..(n - 1)
        BY <1>0, <2>3, <2>5
      <3>2. CASE j = m
        BY <1>0, <2>4, <3>1, <3>2
      <3>3. CASE j \in 1..Len(k)
        BY <2>3, <2>5, <3>1, <3>3 DEF KeptBy
      <3> QED BY <2>2, <3>2, <3>3
    <2>6. ASSUME NEW i \in 1..m PROVE l[i] = s[f[i]] /\ l[i] \in S
      <3>1. CASE i = m
        BY <1>2, <2>1, <2>4, <3>1
      <3>2. CASE i \in 1..Len(k)
        BY <2>1, <2>3, <3>2 DEF KeptBy
      <3> QED BY <2>2, <3>1, <3>2
    <2>7. ASSUME NEW p \in 1..n, s[p] \in S PROVE \E i \in 1..m : f[i] = p
      <3>1. CASE p = n
        BY <1>0, <2>4, <3>1
      <3>2. CASE p \in 1..(n - 1)
        <4>1. PICK i \in 1..Len(k) : e[i] = p
          BY <1>0, <2>7, <3>2 DEF KeptBy
        <4> QED BY <1>0, <2>3, <4>1
      <3> QED BY <3>1, <3>2
    <2> HIDE DEF l, m
    <2>8. KeptBy(f, l, s, S, n)
      BY <2>1, <2>4, <2>5, <2>6, <2>7 DEF KeptBy
    <2> QED BY <1>2, <2>8 DEF l
  <1> QED BY <1>1, <1>2

\* Keep is the last of a row of partial results.
Filters(kept, s, S) ==
  /\ kept[0] = <<>>
  /\ \A n \in 1..Len(s) :
       kept[n] = IF s[n] \in S THEN Append(kept[n - 1], s[n]) ELSE kept[n - 1]
  /\ Keep(s, S) = kept[Len(s)]

\* There is such a row.
LEMMA KeepSteps ==
  ASSUME NEW T, NEW s \in Seq(T), NEW S
  PROVE  \E kept : Filters(kept, s, S)
  <1> DEFINE N == Len(s)
             Step(k, n) == IF s[n] \in S THEN Append(k, s[n]) ELSE k
             next == [n \in 1..N |-> [k \in Seq(T) |-> Step(k, n)]]
             Is(f) == f = [n \in 0..N |-> IF n = 0 THEN <<>>
                                          ELSE IF s[n] \in S THEN Append(f[n - 1], s[n])
                                          ELSE f[n - 1]]
             kept == CHOOSE f : Is(f)
  <1>0. N \in Nat
    OBVIOUS
  <1>1. next \in [1..N -> [Seq(T) -> Seq(T)]] /\ <<>> \in Seq(T)
    OBVIOUS
  <1>2. PICK g \in [0..N -> Seq(T)] : g[0] = <<>> /\ \A n \in 1..N : g[n] = next[n][g[n - 1]]
    <2> DEFINE V == Seq(T)
               v == <<>>
    <2>1. v \in V /\ N \in Nat /\ next \in [1..N -> [V -> V]]
      BY <1>0, <1>1
    <2> HIDE DEF next, N, V, v
    <2>2. \E f \in [0..N -> V] : Recurs(f, v, next, N)
      BY <2>1, RecursionOverInterval
    <2> QED BY <2>2 DEF V, v, Recurs
  <1>3. Is(g)
    <2>1. ASSUME NEW n \in 0..N, n # 0 PROVE g[n] = Step(g[n - 1], n)
      <3>1. n \in 1..N /\ n - 1 \in 0..N /\ g[n - 1] \in Seq(T)
        BY <2>1
      <3> QED BY <1>2, <3>1
    <2> QED BY <1>2, <2>1
  <1>4. Is(kept)
    <2> HIDE DEF Is
    <2> QED BY <1>3
  <1>5. Keep(s, S) = kept[N]
    BY DEF Keep
  <1> HIDE DEF kept
  <1>6. kept[0] = <<>> /\ \A n \in 1..N : kept[n] = Step(kept[n - 1], n)
    <2>1. kept[0] = <<>>
      BY <1>0, <1>4
    <2>2. ASSUME NEW n \in 1..N PROVE kept[n] = Step(kept[n - 1], n)
      <3>1. n \in 0..N /\ n # 0
        BY <1>0
      <3> QED BY <1>4, <3>1
    <2> QED BY <2>1, <2>2
  <1> QED BY <1>5, <1>6 DEF Filters

\* What Keep returns: the elements of s that are in S, all of them, in order.
LEMMA KeepSpec ==
  ASSUME NEW T, NEW s \in Seq(T), NEW S
  PROVE  /\ Keep(s, S) \in Seq(T)
         /\ \E e : KeptBy(e, Keep(s, S), s, S, Len(s))
  <1> DEFINE N == Len(s)
             Step(k, n) == IF s[n] \in S THEN Append(k, s[n]) ELSE k
  <1>0. N \in Nat
    OBVIOUS
  <1>1. PICK kept : Filters(kept, s, S)
    BY KeepSteps
  <1>6. kept[0] = <<>> /\ \A n \in 1..N : kept[n] = Step(kept[n - 1], n)
    BY <1>1 DEF Filters
  <1>5. Keep(s, S) = kept[N]
    BY <1>1 DEF Filters
  <1> DEFINE Q == {n \in Nat : n <= N => /\ kept[n] \in Seq(T)
                                         /\ \E e : KeptBy(e, kept[n], s, S, n)}
  <1>7. 0 \in Q
    <2>1. KeptBy(<<>>, <<>>, s, S, 0)
      BY DEF KeptBy
    <2>2. kept[0] \in Seq(T) /\ \E e : KeptBy(e, kept[0], s, S, 0)
      BY <1>6, <2>1
    <2> QED BY <2>2
  <1>8. ASSUME NEW n \in Nat, n \in Q PROVE n + 1 \in Q
    <2> SUFFICES ASSUME n + 1 <= N
                 PROVE  kept[n + 1] \in Seq(T) /\ \E e : KeptBy(e, kept[n + 1], s, S, n + 1)
      OBVIOUS
    <2>1. PICK e : KeptBy(e, kept[n], s, S, n)
      BY <1>8
    <2>2. kept[n] \in Seq(T) /\ n + 1 \in 1..Len(s) /\ (n + 1) - 1 = n /\ s[n + 1] \in T
      BY <1>8
    <2>3. kept[n + 1] = Step(kept[n], n + 1)
      BY <1>6, <2>2
    <2>4. IF s[n + 1] \in S THEN \E f : KeptBy(f, Append(kept[n], s[n + 1]), s, S, n + 1)
                            ELSE KeptBy(e, kept[n], s, S, n + 1)
      BY <2>1, <2>2, KeepNext
    <2> QED BY <2>2, <2>3, <2>4
  <1> HIDE DEF Q
  <1>9. N \in Q
    BY <1>0, <1>7, <1>8, InductionOverNat
  <1> QED BY <1>0, <1>5, <1>9 DEF Q

\* Sets have as many elements as each other if a function pairs them.
LEMMA SameSize ==
  ASSUME NEW S, NEW T, IsFiniteSet(S), NEW f \in [S -> T],
         \A x, y \in S : f[x] = f[y] => x = y,
         \A y \in T : \E x \in S : f[x] = y
  PROVE  IsFiniteSet(T) /\ Cardinality(T) = Cardinality(S)
  <1>1. f \in Bijection(S, T)
    BY DEF Bijection, Injection, Surjection, IsInjective
  <1>2. ExistsBijection(S, T)
    BY <1>1 DEF ExistsBijection
  <1> QED BY <1>2, FS_Bijection

\* A list without repetitions is as long as it has elements.
LEMMA LengthOfDistinct ==
  ASSUME NEW T, NEW s \in Seq(T), \A i, j \in DOMAIN s : s[i] = s[j] => i = j,
         NEW S, S = {s[i] : i \in DOMAIN s}
  PROVE  IsFiniteSet(S) /\ Cardinality(S) = Len(s)
  <1>1. DOMAIN s = 1..Len(s) /\ Len(s) \in Nat
    OBVIOUS
  <1>2. IsFiniteSet(1..Len(s)) /\ Cardinality(1..Len(s)) = Len(s)
    <2> DEFINE n == Len(s)
    <2>1. 1 \in Int /\ n \in Int /\ (IF 1 > n THEN 0 ELSE n - 1 + 1) = n
      BY <1>1
    <2> HIDE DEF n
    <2>2. IsFiniteSet(1..n) /\ Cardinality(1..n) = n
      BY <2>1, FS_Interval
    <2> QED BY <2>2 DEF n
  <1>3. s \in [1..Len(s) -> S]
    BY <1>1
  <1>4. \A y \in S : \E i \in 1..Len(s) : s[i] = y
    BY <1>1
  <1>5. \A i, j \in 1..Len(s) : s[i] = s[j] => i = j
    BY <1>1
  <1>6. IsFiniteSet(S) /\ Cardinality(S) = Cardinality(1..Len(s))
    <2> DEFINE D == 1..Len(s)
    <2>1. /\ IsFiniteSet(D) /\ s \in [D -> S]
          /\ \A i, j \in D : s[i] = s[j] => i = j
          /\ \A y \in S : \E i \in D : s[i] = y
      BY <1>2, <1>3, <1>4, <1>5
    <2> HIDE DEF D
    <2>2. IsFiniteSet(S) /\ Cardinality(S) = Cardinality(D)
      BY ONLY <2>1, SameSize
    <2> QED BY <2>2 DEF D
  <1> QED BY <1>2, <1>6

\* What is kept of a list without repetitions is one, of the elements in S.
LEMMA KeepDistinct ==
  ASSUME NEW T, NEW s \in Seq(T), \A i, j \in DOMAIN s : s[i] = s[j] => i = j, NEW S
  PROVE  LET k == Keep(s, S)
         IN /\ k \in Seq(T)
            /\ \A i, j \in DOMAIN k : k[i] = k[j] => i = j
            /\ {k[i] : i \in DOMAIN k} = {s[i] : i \in DOMAIN s} \cap S
  <1> DEFINE k == Keep(s, S)
  <1>1. k \in Seq(T)
    BY KeepSpec
  <1>2. PICK e : KeptBy(e, k, s, S, Len(s))
    BY KeepSpec
  <1> HIDE DEF k
  <1>3. DOMAIN k = 1..Len(k) /\ DOMAIN s = 1..Len(s) /\ Len(k) \in Nat /\ Len(s) \in Nat
    BY <1>1
  <1>4. \A i \in DOMAIN k : e[i] \in DOMAIN s /\ k[i] = s[e[i]] /\ k[i] \in S
    BY <1>2, <1>3 DEF KeptBy
  <1>5. ASSUME NEW i \in DOMAIN k, NEW j \in DOMAIN k, k[i] = k[j] PROVE i = j
    <2>1. e[i] = e[j] /\ e[i] \in Nat /\ e[j] \in Nat
      BY <1>3, <1>4, <1>5
    <2>2. ~ (i < j) /\ ~ (j < i)
      BY <1>2, <1>3, <2>1 DEF KeptBy
    <2> QED BY <1>3, <2>2
  <1>6. ASSUME NEW p \in DOMAIN s, s[p] \in S PROVE \E i \in DOMAIN k : k[i] = s[p]
    <2>1. PICK i \in DOMAIN k : e[i] = p
      BY <1>2, <1>3, <1>6 DEF KeptBy
    <2> QED BY <1>4, <2>1
  <1>7. {k[i] : i \in DOMAIN k} = {s[i] : i \in DOMAIN s} \cap S
    BY <1>4, <1>6
  <1> QED BY <1>1, <1>5, <1>7 DEF k

\* The numbers of S, each once.
LEMMA KeepNumbers ==
  ASSUME NEW N \in Nat, NEW S \in SUBSET (1..N)
  PROVE  LET k == Keep([n \in 1..N |-> n], S)
         IN /\ k \in Seq(S) /\ Len(k) = Cardinality(S) /\ IsFiniteSet(S)
            /\ \A i, j \in DOMAIN k : k[i] = k[j] => i = j
            /\ {k[i] : i \in DOMAIN k} = S
  <1> DEFINE s == [n \in 1..N |-> n]
             k == Keep(s, S)
  <1>1. s \in Seq(1..N) /\ DOMAIN s = 1..N /\ \A n \in 1..N : s[n] = n
    OBVIOUS
  <1>2. {s[i] : i \in DOMAIN s} \cap S = S
    BY <1>1
  <1>3. \A i, j \in DOMAIN s : s[i] = s[j] => i = j
    BY <1>1
  <1> HIDE DEF s
  <1>4. /\ k \in Seq(1..N)
        /\ \A i, j \in DOMAIN k : k[i] = k[j] => i = j
        /\ {k[i] : i \in DOMAIN k} = S
    <2> DEFINE T == 1..N
    <2>1. s \in Seq(T)
      BY <1>1
    <2> HIDE DEF T
    <2>2. /\ k \in Seq(T)
          /\ \A i, j \in DOMAIN k : k[i] = k[j] => i = j
          /\ {k[i] : i \in DOMAIN k} = {s[i] : i \in DOMAIN s} \cap S
      BY <1>3, <2>1, KeepDistinct
    <2> QED BY <1>2, <2>2 DEF T
  <1> HIDE DEF k
  <1>5. k \in Seq(S)
    <2>1. \A i \in 1..Len(k) : k[i] \in S
      BY <1>4
    <2> QED BY <1>4, <2>1
  <1>6. IsFiniteSet(S) /\ Cardinality(S) = Len(k)
    BY <1>4, LengthOfDistinct
  <1> QED BY <1>4, <1>5, <1>6 DEF k, s

\* As many of a list without repetitions as one takes of it.
LEMMA FirstsCounted ==
  ASSUME NEW T, NEW s \in Seq(T), \A i, j \in DOMAIN s : s[i] = s[j] => i = j,
         NEW k \in 0..Len(s), NEW S, S = {s[i] : i \in 1..k}
  PROVE  IsFiniteSet(S) /\ Cardinality(S) = k
  <1> DEFINE D == 1..k
             f == [i \in D |-> s[i]]
  <1>1. IsFiniteSet(D) /\ Cardinality(D) = k
    <2>1. 1 \in Int /\ k \in Int /\ (1 > k => k = 0)
      OBVIOUS
    <2> QED BY <2>1, FS_Interval
  <1>2. \A i \in D : i \in DOMAIN s
    OBVIOUS
  <1>3. f \in [D -> S] /\ (\A i, j \in D : f[i] = f[j] => i = j) /\ \A y \in S : \E i \in D : f[i] = y
    BY <1>2
  <1> HIDE DEF D, f
  <1> QED BY ONLY <1>1, <1>3, SameSize

(***************************************************************************)
(* Ranks                                                                   *)
(***************************************************************************)
\* The numbers 1..n are ordered by R.
Orders(R, n) ==
  /\ \A i \in 1..n : <<i, i>> \notin R
  /\ \A i, j \in 1..n : i # j => <<i, j>> \in R \/ <<j, i>> \in R
  /\ \A i, j, k \in 1..n : <<i, j>> \in R /\ <<j, k>> \in R => <<i, k>> \in R

\* The rank of i in R: its place if the numbers 1..n are sorted by R.
Rank(R, n, i) == 1 + Cardinality({j \in 1..n : <<j, i>> \in R})

\* Ranks number the places.
LEMMA RanksNumber ==
  ASSUME NEW n \in Nat, NEW R, Orders(R, n)
  PROVE  /\ \A i \in 1..n : Rank(R, n, i) \in 1..n
         /\ \A i, j \in 1..n : <<i, j>> \in R <=> Rank(R, n, i) < Rank(R, n, j)
         /\ \A i, j \in 1..n : Rank(R, n, i) = Rank(R, n, j) => i = j
         /\ \A p \in 1..n : \E i \in 1..n : Rank(R, n, i) = p
  <1> DEFINE D == 1..n
             B(i) == {j \in D : <<j, i>> \in R}
  <1>1. IsFiniteSet(D) /\ Cardinality(D) = n
    <2>1. 1 \in Int /\ n \in Int /\ (1 > n => n = 0)
      OBVIOUS
    <2> QED BY <2>1, FS_Interval
  <1>2. ASSUME NEW i \in D PROVE IsFiniteSet(B(i)) /\ Cardinality(B(i)) \in Nat
    <2>1. B(i) \subseteq D
      OBVIOUS
    <2> HIDE DEF D, B
    <2> QED BY <1>1, <2>1, FS_Subset, FS_CardinalityType
  <1>3. ASSUME NEW i \in D, NEW T \in SUBSET D, B(i) \subseteq T, i \in T
        PROVE  IsFiniteSet(T) /\ Cardinality(T) \in Nat /\ Cardinality(B(i)) < Cardinality(T)
    <2>1. IsFiniteSet(T)
      BY <1>1, FS_Subset
    <2>2. i \notin B(i)
      BY DEF Orders
    <2> HIDE DEF D, B
    <2>3. B(i) # T
      BY <1>3, <2>2
    <2>4. Cardinality(B(i)) <= Cardinality(T) /\ Cardinality(B(i)) # Cardinality(T)
      BY <1>3, <2>1, <2>3, FS_Subset
    <2>5. Cardinality(T) \in Nat
      BY <2>1, FS_CardinalityType
    <2> QED BY <1>2, <2>1, <2>4, <2>5
  <1>4. ASSUME NEW i \in D PROVE Rank(R, n, i) = 1 + Cardinality(B(i)) /\ Rank(R, n, i) \in D
    <2>1. Rank(R, n, i) = 1 + Cardinality(B(i))
      BY DEF Rank
    <2>2. B(i) \subseteq D
      OBVIOUS
    <2>3. Cardinality(B(i)) < n /\ Cardinality(B(i)) \in Nat
      <3> HIDE DEF D, B
      <3> QED BY <1>1, <1>2, <1>3, <2>2
    <2> HIDE DEF B
    <2> QED BY <2>1, <2>3
  <1>5. ASSUME NEW i \in D, NEW j \in D, <<i, j>> \in R PROVE Rank(R, n, i) < Rank(R, n, j)
    <2>1. B(i) \subseteq B(j) /\ i \in B(j) /\ B(j) \subseteq D
      BY <1>5 DEF Orders
    <2>2. Cardinality(B(i)) < Cardinality(B(j))
      <3> HIDE DEF D, B
      <3> QED BY <1>3, <2>1
    <2>3. /\ Rank(R, n, i) = 1 + Cardinality(B(i)) /\ Rank(R, n, j) = 1 + Cardinality(B(j))
          /\ Cardinality(B(i)) \in Nat /\ Cardinality(B(j)) \in Nat
      <3> HIDE DEF D, B
      <3> QED BY <1>2, <1>4
    <2> HIDE DEF B
    <2> QED BY <2>2, <2>3
  <1>6. ASSUME NEW i \in D, NEW j \in D
        PROVE  /\ <<i, j>> \in R <=> Rank(R, n, i) < Rank(R, n, j)
               /\ Rank(R, n, i) = Rank(R, n, j) => i = j
    <2>1. Rank(R, n, i) \in Nat /\ Rank(R, n, j) \in Nat
      <3>1. Rank(R, n, i) \in D /\ Rank(R, n, j) \in D
        BY <1>4
      <3>2. D \subseteq Nat
        OBVIOUS
      <3> HIDE DEF D
      <3> QED BY <3>1, <3>2
    <2>2. i = j \/ <<i, j>> \in R \/ <<j, i>> \in R
      BY DEF Orders
    <2> HIDE DEF D
    <2> QED BY <1>5, <2>1, <2>2
  <1>7. ASSUME NEW p \in D PROVE \E i \in D : Rank(R, n, i) = p
    <2> DEFINE f == [i \in D |-> Rank(R, n, i)]
    <2> HIDE DEF D
    <2>1. f \in Injection(D, D)
      <3>1. f \in [D -> D]
        BY <1>4
      <3>2. \A i, j \in D : f[i] = f[j] => i = j
        BY <1>6
      <3> HIDE DEF f
      <3> QED BY <3>1, <3>2 DEF Injection, IsInjective
    <2> HIDE DEF f
    <2>2. f \in Surjection(D, D)
      BY <1>1, <2>1, FS_Injection
    <2>3. PICK i \in D : f[i] = p
      BY <2>2 DEF Surjection
    <2> QED BY <2>3 DEF f
  <1> QED BY <1>4, <1>6, <1>7

(***************************************************************************)
(* SumAt                                                                   *)
(***************************************************************************)
\* What the n-th place adds to a sum.
Adds(s, S, n) == IF n \in S THEN s[n] ELSE 0

\* SumAt is the last of a row of partial sums.
LEMMA SumSpec ==
  ASSUME NEW s \in Seq(Nat), NEW S
  PROVE  \E f \in [0..Len(s) -> Nat] :
           /\ f[0] = 0
           /\ \A n \in 1..Len(s) : f[n] = f[n - 1] + Adds(s, S, n)
           /\ SumAt(s, S) = f[Len(s)]
  <1> DEFINE N == Len(s)
             next == [n \in 1..N |-> [k \in Nat |-> k + Adds(s, S, n)]]
             Is(f) == f = [n \in 0..N |-> IF n = 0 THEN 0
                                          ELSE f[n - 1] + (IF n \in S THEN s[n] ELSE 0)]
             sum == CHOOSE f : Is(f)
  <1>0. N \in Nat /\ \A n \in 1..N : Adds(s, S, n) \in Nat
    BY DEF Adds
  <1>1. next \in [1..N -> [Nat -> Nat]]
    BY <1>0
  <1>2. PICK g \in [0..N -> Nat] : g[0] = 0 /\ \A n \in 1..N : g[n] = next[n][g[n - 1]]
    <2> DEFINE V == Nat
               v == 0
    <2>1. v \in V /\ N \in Nat /\ next \in [1..N -> [V -> V]]
      BY <1>0, <1>1
    <2> HIDE DEF next, N, V, v
    <2>2. \E f \in [0..N -> V] : Recurs(f, v, next, N)
      BY <2>1, RecursionOverInterval
    <2> QED BY <2>2 DEF V, v, Recurs
  <1>3. ASSUME NEW n \in 1..N PROVE g[n] = g[n - 1] + Adds(s, S, n)
    <2>1. n - 1 \in 0..N
      BY <1>0
    <2>2. g[n - 1] \in Nat
      BY ONLY <2>1, g \in [0..N -> Nat]
    <2> QED BY <1>2, <2>2
  <1>4. Is(g)
    <2>1. \A n \in 0..N : n # 0 => n \in 1..N
      BY <1>0
    <2> QED BY <1>2, <1>3, <2>1 DEF Adds
  <1>5. Is(sum)
    <2> HIDE DEF Is
    <2> QED BY <1>4
  <1>6. SumAt(s, S) = sum[N]
    BY DEF SumAt
  <1> HIDE DEF sum, next
  <1>7. sum[0] = 0 /\ \A n \in 1..N : sum[n] = sum[n - 1] + Adds(s, S, n)
    <2>1. sum[0] = 0
      BY <1>0, <1>5
    <2>2. ASSUME NEW n \in 1..N PROVE sum[n] = sum[n - 1] + Adds(s, S, n)
      <3>1. n \in 0..N /\ n # 0
        BY <1>0
      <3> QED BY <1>5, <3>1 DEF Adds
    <2> QED BY <2>1, <2>2
  <1> DEFINE Q == {n \in Nat : n <= N => sum[n] \in Nat}
  <1>8. 0 \in Q
    BY <1>7
  <1>9. ASSUME NEW n \in Nat, n \in Q PROVE n + 1 \in Q
    <2> SUFFICES ASSUME n + 1 <= N PROVE sum[n + 1] \in Nat
      OBVIOUS
    <2>1. sum[n] \in Nat /\ n + 1 \in 1..N /\ (n + 1) - 1 = n
      BY <1>0, <1>9
    <2> QED BY <1>0, <1>7, <2>1
  <1> HIDE DEF Q
  <1>10. Nat \subseteq Q
    BY <1>8, <1>9, InductionOverNat
  <1>11. sum \in [0..N -> Nat]
    <2>1. \A n \in 0..N : sum[n] \in Nat
      BY <1>0, <1>10 DEF Q
    <2> QED BY <1>5, <2>1
  <1> QED BY <1>6, <1>7, <1>11

\* Of two rows of sums that add the same but at place m, where one adds d more,
\* that one ends with d more.
LEMMA SumsCompared ==
  ASSUME NEW N \in Nat, NEW m \in 1..N, NEW d \in Nat,
         NEW f \in [0..N -> Nat], NEW g \in [0..N -> Nat], f[0] = g[0],
         \A n \in 1..N : g[n] - g[n - 1] = (f[n] - f[n - 1]) + (IF n = m THEN d ELSE 0)
  PROVE  g[N] = f[N] + d
  <1> DEFINE T == {n \in Nat : n <= N => g[n] = f[n] + (IF n < m THEN 0 ELSE d)}
  <1>1. 0 \in T
    <2>1. f[0] \in Nat /\ 0 < m
      OBVIOUS
    <2> QED BY <2>1
  <1>2. ASSUME NEW n \in Nat, n \in T PROVE n + 1 \in T
    <2> SUFFICES ASSUME n + 1 <= N
                 PROVE  g[n + 1] = f[n + 1] + (IF n + 1 < m THEN 0 ELSE d)
      OBVIOUS
    <2>1. /\ n \in 0..N /\ n + 1 \in 0..N /\ n + 1 \in 1..N /\ (n + 1) - 1 = n
          /\ g[n] = f[n] + (IF n < m THEN 0 ELSE d)
      BY <1>2
    <2> DEFINE f0 == f[n]
               f1 == f[n + 1]
               g0 == g[n]
               g1 == g[n + 1]
    <2>2. f0 \in Nat /\ f1 \in Nat /\ g0 \in Nat /\ g1 \in Nat /\ m \in Nat
      <3>1. f0 \in Nat /\ f1 \in Nat
        BY ONLY <2>1, f \in [0..N -> Nat]
      <3>2. g0 \in Nat /\ g1 \in Nat
        BY ONLY <2>1, g \in [0..N -> Nat]
      <3> QED BY <3>1, <3>2
    <2>3. g1 - g0 = (f1 - f0) + (IF n + 1 = m THEN d ELSE 0)
      BY <2>1
    <2>4. g0 = f0 + (IF n < m THEN 0 ELSE d)
      BY <2>1
    <2> HIDE DEF f0, f1, g0, g1
    <2>5. g1 = f1 + (IF n + 1 < m THEN 0 ELSE d)
      <3>1. CASE n + 1 < m
        BY ONLY n \in Nat, d \in Nat, <2>2, <2>3, <2>4, <3>1
      <3>2. CASE n + 1 = m
        BY ONLY n \in Nat, d \in Nat, <2>2, <2>3, <2>4, <3>2
      <3>3. CASE n + 1 > m
        BY ONLY n \in Nat, d \in Nat, <2>2, <2>3, <2>4, <3>3
      <3> QED BY <2>2, <3>1, <3>2, <3>3
    <2> QED BY <2>5 DEF f1, g1
  <1> HIDE DEF T
  <1>3. N \in T
    BY <1>1, <1>2, InductionOverNat
  <1> QED BY <1>3 DEF T

\* A place more adds its element.
LEMMA SumGrows ==
  ASSUME NEW s \in Seq(Nat), NEW S, NEW m \in 1..Len(s), m \notin S
  PROVE  SumAt(s, S \cup {m}) = SumAt(s, S) + s[m]
  <1> DEFINE N == Len(s)
  <1>1. PICK f \in [0..N -> Nat] : /\ f[0] = 0 /\ SumAt(s, S) = f[N]
                                   /\ \A n \in 1..N : f[n] = f[n - 1] + Adds(s, S, n)
    BY SumSpec
  <1>2. PICK g \in [0..N -> Nat] :
             /\ g[0] = 0 /\ SumAt(s, S \cup {m}) = g[N]
             /\ \A n \in 1..N : g[n] = g[n - 1] + Adds(s, S \cup {m}, n)
    BY SumSpec
  <1>3. ASSUME NEW n \in 1..N
        PROVE  g[n] - g[n - 1] = (f[n] - f[n - 1]) + (IF n = m THEN s[m] ELSE 0)
    <2>0. N \in Nat /\ n - 1 \in 0..N /\ s[n] \in Nat
      OBVIOUS
    <2>1. /\ f[n - 1] \in Nat /\ g[n - 1] \in Nat /\ s[n] \in Nat
          /\ Adds(s, S, n) \in Nat /\ Adds(s, S \cup {m}, n) \in Nat
      BY <2>0 DEF Adds
    <2>2. Adds(s, S \cup {m}, n) = Adds(s, S, n) + (IF n = m THEN s[m] ELSE 0)
      BY <2>1 DEF Adds
    <2>3. s[m] \in Nat
      OBVIOUS
    <2>4. f[n] = f[n - 1] + Adds(s, S, n) /\ g[n] = g[n - 1] + Adds(s, S \cup {m}, n)
      BY <1>1, <1>2
    <2> DEFINE a == Adds(s, S, n)
               more == IF n = m THEN s[m] ELSE 0
    <2>5. a \in Nat /\ more \in Nat /\ Adds(s, S \cup {m}, n) = a + more
      BY <2>1, <2>2, <2>3
    <2> HIDE DEF a, more
    <2>6. g[n] - g[n - 1] = (f[n] - f[n - 1]) + more
      <3>1. f[n] = f[n - 1] + a /\ g[n] = g[n - 1] + (a + more)
        BY <2>4, <2>5 DEF a
      <3>2. f[n - 1] \in Nat /\ g[n - 1] \in Nat
        BY <2>1
      <3> QED BY ONLY <2>5, <3>1, <3>2
    <2> QED BY <2>6 DEF more
  <1>4. N \in Nat /\ s[m] \in Nat /\ f[0] = g[0]
    BY <1>1, <1>2
  <1>5. m \in 1..N
    OBVIOUS
  <1> HIDE DEF N
  <1>6. g[N] = f[N] + s[m]
    BY ONLY <1>3, <1>4, <1>5, f \in [0..N -> Nat], g \in [0..N -> Nat], SumsCompared
  <1> QED BY <1>1, <1>2, <1>6

\* An element more is not in the sum over the places there were.
LEMMA SumKeeps ==
  ASSUME NEW s \in Seq(Nat), NEW e \in Nat, NEW S, Len(s) + 1 \notin S
  PROVE  SumAt(Append(s, e), S) = SumAt(s, S)
  <1> DEFINE N == Len(s)
             t == Append(s, e)
  <1>1. N \in Nat /\ t \in Seq(Nat) /\ Len(t) = N + 1 /\ \A n \in 1..N : t[n] = s[n]
    OBVIOUS
  <1> HIDE DEF t
  <1>2. PICK f \in [0..N -> Nat] : /\ f[0] = 0 /\ SumAt(s, S) = f[N]
                                   /\ \A n \in 1..N : f[n] = f[n - 1] + Adds(s, S, n)
    BY SumSpec
  <1>3. PICK g \in [0..(N + 1) -> Nat] :
             /\ g[0] = 0 /\ SumAt(t, S) = g[N + 1]
             /\ \A n \in 1..(N + 1) : g[n] = g[n - 1] + Adds(t, S, n)
    BY <1>1, SumSpec
  <1> DEFINE T == {n \in Nat : n <= N => g[n] = f[n]}
  <1>4. 0 \in T
    BY <1>2, <1>3
  <1>5. ASSUME NEW n \in Nat, n \in T PROVE n + 1 \in T
    <2> SUFFICES ASSUME n + 1 <= N PROVE g[n + 1] = f[n + 1]
      OBVIOUS
    <2>1. n + 1 \in 1..N /\ n + 1 \in 1..(N + 1) /\ (n + 1) - 1 = n /\ g[n] = f[n]
      BY <1>1, <1>5
    <2>2. Adds(t, S, n + 1) = Adds(s, S, n + 1)
      BY <1>1, <2>1 DEF Adds
    <2> QED BY <1>2, <1>3, <2>1, <2>2
  <1> HIDE DEF T
  <1>6. g[N] = f[N]
    <2>1. N \in T
      BY <1>1, <1>4, <1>5, InductionOverNat
    <2> QED BY <1>1, <2>1 DEF T
  <1>7. g[N + 1] = g[N]
    <2>1. Adds(t, S, N + 1) = 0
      BY DEF Adds
    <2>2. N + 1 \in 1..(N + 1) /\ (N + 1) - 1 = N /\ N \in 0..(N + 1)
      BY <1>1
    <2>3. g[N + 1] = g[N] + 0
      BY <1>3, <2>1, <2>2
    <2>4. g[N] \in Nat
      BY ONLY <2>2, g \in [0..(N + 1) -> Nat]
    <2> QED BY <2>3, <2>4
  <1> QED BY <1>2, <1>3, <1>6, <1>7 DEF t

(***************************************************************************)
(* Lists                                                                   *)
(***************************************************************************)
LEMMA ListDef ==
  ASSUME NEW s, IsList(s)
  PROVE  /\ Len(s) \in Nat /\ DOMAIN s = 1..Len(s) /\ s = [i \in 1..Len(s) |-> s[i]]
         /\ s \in Seq(ToSet(s)) /\ \A i \in DOMAIN s : s[i] \in ToSet(s)
  BY DEF IsList, ToSet

\* A function on the first numbers is a list.
LEMMA FunctionList ==
  ASSUME NEW n \in Nat, NEW f, f = [i \in 1..n |-> f[i]]
  PROVE  IsList(f) /\ Len(f) = n /\ DOMAIN f = 1..n
  <1> DEFINE T == {f[i] : i \in 1..n}
  <1>1. f \in [1..n -> T] /\ DOMAIN f = 1..n
    OBVIOUS
  <1>2. f \in Seq(T) /\ Len(f) = n
    <2> HIDE DEF T
    <2> QED BY <1>1
  <1> QED BY <1>1, <1>2 DEF IsList

\* A list of any elements is a sequence of these.
LEMMA ListOf ==
  ASSUME NEW T, NEW s \in Seq(T)
  PROVE  IsList(s) /\ ToSet(s) \subseteq T
  <1>1. Len(s) \in Nat /\ s = [i \in 1..Len(s) |-> s[i]] /\ \A i \in DOMAIN s : s[i] \in T
    OBVIOUS
  <1> QED BY <1>1, FunctionList DEF ToSet

\* A list is a sequence of the elements of any set that has its own.
LEMMA SeqOver ==
  ASSUME NEW T, NEW s, IsList(s), ToSet(s) \subseteq T
  PROVE  s \in Seq(T)
  <1>1. Len(s) \in Nat /\ s = [i \in 1..Len(s) |-> s[i]] /\ \A i \in 1..Len(s) : s[i] \in T
    BY ListDef
  <1>2. s \in [1..Len(s) -> T]
    BY <1>1
  <1> QED BY <1>1, <1>2

\* u is the list of the elements of s and of those of t.
Joins(u, s, t) ==
  /\ IsList(u) /\ ToSet(u) \subseteq ToSet(s) \cup ToSet(t)
  /\ Len(s) \in Nat /\ Len(t) \in Nat /\ Len(u) = Len(s) + Len(t)
  /\ DOMAIN u = 1..(Len(s) + Len(t)) /\ DOMAIN s = 1..Len(s) /\ DOMAIN t = 1..Len(t)
  /\ \A i \in 1..Len(s) : u[i] = s[i] /\ i \in DOMAIN u
  /\ \A i \in 1..Len(t) : u[Len(s) + i] = t[i] /\ Len(s) + i \in DOMAIN u

\* Two lists put together.
LEMMA ConcatPlaces ==
  ASSUME NEW s, NEW t, IsList(s), IsList(t)
  PROVE  Joins(s \o t, s, t)
  <1> DEFINE T == ToSet(s) \cup ToSet(t)
  <1>1. s \in Seq(T) /\ t \in Seq(T)
    BY SeqOver
  <1> HIDE DEF T
  <1>2. IsList(s \o t) /\ ToSet(s \o t) \subseteq T
    <2>1. s \o t \in Seq(T)
      BY <1>1
    <2> QED BY <2>1, ListOf
  <1>3. /\ Len(s) \in Nat /\ Len(t) \in Nat /\ Len(s \o t) = Len(s) + Len(t)
        /\ DOMAIN (s \o t) = 1..(Len(s) + Len(t))
        /\ \A i \in 1..Len(s) : (s \o t)[i] = s[i]
        /\ DOMAIN s = 1..Len(s) /\ DOMAIN t = 1..Len(t)
    BY <1>1
  <1>4. ASSUME NEW i \in 1..Len(t) PROVE (s \o t)[Len(s) + i] = t[i] /\ Len(s) + i \in DOMAIN (s \o t)
    <2>1. Len(s) + i \in 1..(Len(s) + Len(t)) /\ ~ (Len(s) + i <= Len(s)) /\ (Len(s) + i) - Len(s) = i
      BY <1>3
    <2> QED BY <1>1, <1>3, <2>1
  <1>5. \A i \in 1..Len(s) : i \in DOMAIN (s \o t)
    BY <1>3
  <1> QED BY <1>2, <1>3, <1>4, <1>5 DEF T, Joins

\* The elements of two lists put together are those of both.
LEMMA ConcatList ==
  ASSUME NEW s, NEW t, IsList(s), IsList(t)
  PROVE  IsList(s \o t) /\ ToSet(s \o t) = ToSet(s) \cup ToSet(t)
  <1>1. ToSet(s) \subseteq ToSet(s \o t)
    <2>1. \A i \in DOMAIN s : s[i] = (s \o t)[i] /\ i \in DOMAIN (s \o t)
      BY ConcatPlaces DEF Joins
    <2> QED BY <2>1 DEF ToSet
  <1>2. ToSet(t) \subseteq ToSet(s \o t)
    <2> DEFINE u == s \o t
    <2>1. Joins(u, s, t)
      BY ConcatPlaces
    <2> HIDE DEF u
    <2>2. \A i \in DOMAIN t : t[i] = u[Len(s) + i] /\ Len(s) + i \in DOMAIN u
      BY <2>1 DEF Joins
    <2>3. ToSet(t) \subseteq ToSet(u)
      BY <2>2 DEF ToSet
    <2> QED BY <2>3 DEF u
  <1> QED BY <1>1, <1>2, ConcatPlaces DEF Joins

\* The empty list adds nothing.
LEMMA EmptyFirst ==
  ASSUME NEW s, IsList(s)
  PROVE  <<>> \o s = s
  <1>1. s \in Seq(ToSet(s))
    BY ListDef
  <1> QED BY <1>1

\* Lists of one element and of none.
LEMMA OneElement ==
  ASSUME NEW x
  PROVE  IsList(<<x>>) /\ ToSet(<<x>>) = {x} /\ IsList(<<>>) /\ ToSet(<<>>) = {}
  <1>1. <<x>> \in Seq({x}) /\ <<x>>[1] = x /\ DOMAIN <<x>> = 1..1
    OBVIOUS
  <1>2. <<>> \in Seq({})
    OBVIOUS
  <1>3. ToSet(<<x>>) = {x}
    <2>1. 1 \in 1..1
      OBVIOUS
    <2> QED BY <1>1, <2>1 DEF ToSet
  <1>4. IsList(<<x>>)
    BY <1>1, ListOf
  <1>5. IsList(<<>>)
    BY <1>2, ListOf
  <1>6. ToSet(<<>>) = {}
    BY <1>2 DEF ToSet
  <1> QED BY <1>3, <1>4, <1>5, <1>6

\* What is kept of a list is a list, of its elements in S.
LEMMA KeepList ==
  ASSUME NEW s, NEW S, IsList(s)
  PROVE  IsList(Keep(s, S)) /\ ToSet(Keep(s, S)) = ToSet(s) \cap S
  <1> DEFINE T == ToSet(s)
             k == Keep(s, S)
  <1>1. s \in Seq(T) /\ DOMAIN s = 1..Len(s)
    BY ListDef
  <1>2. k \in Seq(T) /\ \E e : KeptBy(e, k, s, S, Len(s))
    <2> HIDE DEF T
    <2> QED BY <1>1, KeepSpec
  <1>3. IsList(k) /\ DOMAIN k = 1..Len(k)
    <2> HIDE DEF T, k
    <2> QED BY <1>2, ListOf, ListDef
  <1> HIDE DEF k, T
  <1>4. PICK e : KeptBy(e, k, s, S, Len(s))
    BY <1>2
  <1>5. \A i \in 1..Len(k) : k[i] \in S /\ k[i] = s[e[i]] /\ e[i] \in 1..Len(s)
    BY <1>4 DEF KeptBy
  <1>6. \A p \in 1..Len(s) : s[p] \in S => \E i \in 1..Len(k) : k[i] = s[p]
    BY <1>4 DEF KeptBy
  <1>7. ToSet(k) = ToSet(s) \cap S
    BY <1>1, <1>3, <1>5, <1>6 DEF ToSet
  <1> QED BY <1>3, <1>7 DEF k

\* FlattenSeq is the last of a row of concatenations.
Flattens(flat, ss) ==
  /\ flat[1] = ss[1] /\ \A n \in 1..Len(ss) : n # 1 => flat[n] = flat[n - 1] \o ss[n]
  /\ FlattenSeq(ss) = flat[Len(ss)]

\* There is such a row.
LEMMA FlattenSteps ==
  ASSUME NEW ss, IsList(ss), \A i \in DOMAIN ss : IsList(ss[i]), Len(ss) # 0
  PROVE  \E flat : Flattens(flat, ss)
  <1> DEFINE N == Len(ss)
             T == UNION {ToSet(ss[i]) : i \in DOMAIN ss}
             V == Seq(T)
             next == [n \in 1..N |-> [s \in V |-> s \o ss[n]]]
             Is(f) == f = [n \in 1..N |-> IF n = 1 THEN ss[n] ELSE f[n - 1] \o ss[n]]
             flat == CHOOSE f : Is(f)
  <1>1. N \in Nat /\ DOMAIN ss = 1..N /\ N # 0
    BY ListDef
  <1>2. ASSUME NEW n \in 1..N PROVE IsList(ss[n]) /\ ss[n] \in V
    <2>1. IsList(ss[n]) /\ ToSet(ss[n]) \subseteq T
      BY <1>1
    <2> HIDE DEF T
    <2> QED BY <2>1, SeqOver
  <1>3. next \in [1..N -> [V -> V]] /\ <<>> \in V
    <2> HIDE DEF T
    <2> QED BY <1>2
  <1>4. PICK g \in [0..N -> V] : g[0] = <<>> /\ \A n \in 1..N : g[n] = next[n][g[n - 1]]
    <2> DEFINE v == <<>>
    <2> HIDE DEF next, N, V, v
    <2>1. v \in V /\ N \in Nat /\ next \in [1..N -> [V -> V]]
      BY <1>1, <1>3 DEF v
    <2>2. \E f \in [0..N -> V] : Recurs(f, v, next, N)
      BY <2>1, RecursionOverInterval
    <2> QED BY <2>2 DEF v, Recurs
  <1>5. ASSUME NEW n \in 1..N PROVE g[n - 1] \in V /\ g[n] = g[n - 1] \o ss[n]
    <2>1. n - 1 \in 0..N
      BY <1>1
    <2>2. g[n - 1] \in V
      BY ONLY <2>1, g \in [0..N -> V]
    <2> QED BY <1>4, <2>2
  <1> DEFINE h == [n \in 1..N |-> g[n]]
  <1>6. Is(h)
    <2>1. ASSUME NEW n \in 1..N
          PROVE  h[n] = IF n = 1 THEN ss[n] ELSE h[n - 1] \o ss[n]
      <3>1. CASE n = 1
        <4>1. g[1] = <<>> \o ss[1]
          BY <1>4, <1>5, <3>1
        <4> QED BY <1>2, <3>1, <4>1, EmptyFirst
      <3>2. CASE n # 1
        <4>1. n - 1 \in 1..N
          BY <1>1, <3>2
        <4> QED BY <1>5, <3>2, <4>1
      <3> QED BY <3>1, <3>2
    <2> QED BY <2>1
  <1>7. Is(flat)
    <2> HIDE DEF Is, h
    <2> QED BY <1>6
  <1>8. FlattenSeq(ss) = flat[N]
    BY <1>1 DEF FlattenSeq
  <1> HIDE DEF flat, next, V, T, h
  <1>9. flat[1] = ss[1] /\ \A n \in 1..N : n # 1 => flat[n] = flat[n - 1] \o ss[n]
    <2>1. 1 \in 1..N
      BY <1>1
    <2>2. ASSUME NEW n \in 1..N
          PROVE  flat[n] = IF n = 1 THEN ss[n] ELSE flat[n - 1] \o ss[n]
      BY <1>7
    <2> QED BY <2>1, <2>2
  <1>10. Flattens(flat, ss)
    BY <1>8, <1>9 DEF Flattens
  <1> QED BY <1>10

\* No lists make the empty list.
LEMMA FlattenOfNone ==
  ASSUME NEW ss, IsList(ss), Len(ss) = 0
  PROVE  DOMAIN ss = {} /\ FlattenSeq(ss) = ss
  BY ListDef DEF FlattenSeq

\* FlattenSeq has the elements of all.
LEMMA FlattenList ==
  ASSUME NEW ss, IsList(ss), \A i \in DOMAIN ss : IsList(ss[i])
  PROVE  /\ IsList(FlattenSeq(ss))
         /\ ToSet(FlattenSeq(ss)) = UNION {ToSet(ss[i]) : i \in DOMAIN ss}
  <1> DEFINE N == Len(ss)
             Upto(n) == UNION {ToSet(ss[i]) : i \in 1..n}
  <1>1. N \in Nat /\ DOMAIN ss = 1..N /\ \A n \in 1..N : IsList(ss[n])
    BY ListDef
  <1>2. CASE N = 0
    BY <1>2, FlattenOfNone DEF ToSet
  <1>3. CASE N # 0
    <2>1. PICK flat : Flattens(flat, ss)
      BY <1>3, FlattenSteps
    <2>2. /\ flat[1] = ss[1] /\ FlattenSeq(ss) = flat[N]
          /\ \A n \in 1..N : n # 1 => flat[n] = flat[n - 1] \o ss[n]
      BY <2>1 DEF Flattens
    <2> HIDE DEF N
    <2> DEFINE Q == {n \in Nat : n + 1 <= N => /\ IsList(flat[n + 1])
                                               /\ ToSet(flat[n + 1]) = Upto(n + 1)}
    <2>3. 0 \in Q
      <3>1. 1 \in 1..N /\ 1..1 = {1}
        BY <1>1, <1>3
      <3> QED BY <1>1, <2>2, <3>1
    <2>4. ASSUME NEW n \in Nat, n \in Q PROVE n + 1 \in Q
      <3> DEFINE m == n + 2
      <3> SUFFICES ASSUME m <= N
                   PROVE  IsList(flat[m]) /\ ToSet(flat[m]) = Upto(m)
        OBVIOUS
      <3>1. m \in 1..N /\ m # 1 /\ m - 1 = n + 1 /\ 1..m = 1..(n + 1) \cup {m}
        BY <1>1
      <3>2. IsList(flat[n + 1]) /\ ToSet(flat[n + 1]) = Upto(n + 1)
        BY <1>1, <2>4
      <3>3. flat[m] = flat[n + 1] \o ss[m] /\ IsList(ss[m])
        BY <1>1, <2>2, <3>1
      <3> HIDE DEF m, Q
      <3>4. IsList(flat[m]) /\ ToSet(flat[m]) = Upto(n + 1) \cup ToSet(ss[m])
        BY <3>2, <3>3, ConcatList
      <3>5. Upto(n + 1) \cup ToSet(ss[m]) = Upto(m)
        BY ONLY <3>1
      <3> QED BY <3>4, <3>5
    <2> HIDE DEF Q
    <2>5. N - 1 \in Q /\ (N - 1) + 1 = N
      BY <1>1, <1>3, <2>3, <2>4, InductionOverNat
    <2> QED BY <1>1, <2>2, <2>5 DEF Q
  <1> QED BY <1>2, <1>3

\* Lists without repetitions, put together, if they share no element.
LEMMA ConcatDistinct ==
  ASSUME NEW s, NEW t, IsList(s), IsList(t), IsInjective(s), IsInjective(t),
         ToSet(s) \cap ToSet(t) = {}
  PROVE  IsInjective(s \o t)
  <1> DEFINE u == s \o t
  <1>1. Joins(u, s, t)
    BY ConcatPlaces
  <1> HIDE DEF u
  <1>2. /\ Len(s) \in Nat /\ Len(t) \in Nat /\ DOMAIN u = 1..(Len(s) + Len(t))
        /\ DOMAIN s = 1..Len(s) /\ DOMAIN t = 1..Len(t)
    BY <1>1 DEF Joins
  <1>3. \A i \in DOMAIN s : u[i] = s[i] /\ s[i] \in ToSet(s)
    BY <1>1, <1>2 DEF Joins, ToSet
  <1>4. ASSUME NEW i \in DOMAIN u, i \notin DOMAIN s
        PROVE  i - Len(s) \in DOMAIN t /\ u[i] = t[i - Len(s)] /\ t[i - Len(s)] \in ToSet(t)
    <2>1. i - Len(s) \in 1..Len(t) /\ Len(s) + (i - Len(s)) = i
      BY <1>2, <1>4
    <2>2. u[Len(s) + (i - Len(s))] = t[i - Len(s)]
      BY <1>1, <2>1 DEF Joins
    <2> QED BY <1>2, <2>1, <2>2 DEF ToSet
  <1>5. ASSUME NEW i \in DOMAIN u, NEW j \in DOMAIN u, u[i] = u[j] PROVE i = j
    <2>1. CASE i \in DOMAIN s
      <3>1. j \in DOMAIN s
        BY <1>3, <1>4, <1>5, <2>1
      <3> QED BY <1>3, <1>5, <2>1, <3>1 DEF IsInjective
    <2>2. CASE i \notin DOMAIN s
      <3>1. j \notin DOMAIN s
        BY <1>3, <1>4, <1>5, <2>2
      <3>2. i - Len(s) = j - Len(s)
        BY <1>4, <1>5, <2>2, <3>1 DEF IsInjective
      <3> QED BY <1>2, <3>2
    <2> QED BY <2>1, <2>2
  <1> QED BY <1>5 DEF IsInjective, u

\* No element twice, when there is none twice in a list nor in two of them.
LEMMA FlattenDistinct ==
  ASSUME NEW ss, IsList(ss), \A i \in DOMAIN ss : IsList(ss[i]) /\ IsInjective(ss[i]),
         \A i, j \in DOMAIN ss : i # j => ToSet(ss[i]) \cap ToSet(ss[j]) = {}
  PROVE  IsInjective(FlattenSeq(ss))
  <1> DEFINE N == Len(ss)
             Upto(n) == UNION {ToSet(ss[i]) : i \in 1..n}
  <1>1. N \in Nat /\ DOMAIN ss = 1..N /\ \A n \in 1..N : IsList(ss[n]) /\ IsInjective(ss[n])
    BY ListDef
  <1>2. CASE N = 0
    BY <1>2, FlattenOfNone DEF IsInjective
  <1>3. CASE N # 0
    <2>1. PICK flat : Flattens(flat, ss)
      BY <1>3, FlattenSteps
    <2>2. /\ flat[1] = ss[1] /\ FlattenSeq(ss) = flat[N]
          /\ \A n \in 1..N : n # 1 => flat[n] = flat[n - 1] \o ss[n]
      BY <2>1 DEF Flattens
    <2> HIDE DEF N
    <2> DEFINE Q == {n \in Nat : n + 1 <= N => /\ IsList(flat[n + 1]) /\ IsInjective(flat[n + 1])
                                               /\ ToSet(flat[n + 1]) = Upto(n + 1)}
    <2>3. 0 \in Q
      <3>1. 1 \in 1..N /\ 1..1 = {1}
        BY <1>1, <1>3
      <3> QED BY <1>1, <2>2, <3>1
    <2>4. ASSUME NEW n \in Nat, n \in Q PROVE n + 1 \in Q
      <3> DEFINE m == n + 2
      <3> SUFFICES ASSUME m <= N
                   PROVE  IsList(flat[m]) /\ IsInjective(flat[m]) /\ ToSet(flat[m]) = Upto(m)
        OBVIOUS
      <3>1. /\ m \in 1..N /\ m # 1 /\ m - 1 = n + 1 /\ 1..m = 1..(n + 1) \cup {m}
            /\ \A i \in 1..(n + 1) : i \in 1..N /\ i # m
        BY <1>1
      <3>2. IsList(flat[n + 1]) /\ IsInjective(flat[n + 1]) /\ ToSet(flat[n + 1]) = Upto(n + 1)
        BY <1>1, <2>4
      <3>3. flat[m] = flat[n + 1] \o ss[m] /\ IsList(ss[m]) /\ IsInjective(ss[m])
        BY <1>1, <2>2, <3>1
      <3>4. Upto(n + 1) \cap ToSet(ss[m]) = {}
        BY <1>1, <3>1
      <3> HIDE DEF m, Q
      <3>5. IsList(flat[m]) /\ ToSet(flat[m]) = Upto(n + 1) \cup ToSet(ss[m])
        BY <3>2, <3>3, ConcatList
      <3>6. IsInjective(flat[m])
        BY <3>2, <3>3, <3>4, ConcatDistinct
      <3>7. Upto(n + 1) \cup ToSet(ss[m]) = Upto(m)
        BY ONLY <3>1
      <3> QED BY <3>5, <3>6, <3>7
    <2> HIDE DEF Q
    <2>5. N - 1 \in Q /\ (N - 1) + 1 = N
      BY <1>1, <1>3, <2>3, <2>4, InductionOverNat
    <2> QED BY <2>2, <2>5 DEF Q
  <1> QED BY <1>2, <1>3

\* What is computed of every element is a list.
LEMMA EachList ==
  ASSUME NEW s, IsList(s), NEW f, f = [i \in DOMAIN s |-> f[i]]
  PROVE  IsList(f) /\ <<>> \o f = f /\ DOMAIN f = DOMAIN s
  BY ListDef, FunctionList, EmptyFirst

\* An element appended to the second of two lists is appended to both.
AppendsToBoth(a, b, x) == Append(a \o b, x) = a \o Append(b, x)

LEMMA ConcatAppend ==
  ASSUME NEW T, NEW a \in Seq(T), NEW b \in Seq(T), NEW x \in T
  PROVE  AppendsToBoth(a, b, x)
  <1> DEFINE u == Append(a \o b, x)
             v == a \o Append(b, x)
             M == Len(a)
             N == Len(b)
  <1>1. /\ M \in Nat /\ N \in Nat /\ u \in Seq(T) /\ v \in Seq(T)
        /\ Len(u) = M + N + 1 /\ Len(v) = M + N + 1 /\ Append(b, x) \in Seq(T)
    OBVIOUS
  <1>2. ASSUME NEW i \in 1..(M + N + 1) PROVE u[i] = v[i]
    OBVIOUS
  <1> HIDE DEF u, v, M, N
  <1>3. u = v
    BY <1>1, <1>2
  <1> QED BY <1>3 DEF u, v, AppendsToBoth

\* The elements kept of a concatenation are those kept of its parts.
LEMMA KeepJoin ==
  ASSUME NEW s, NEW t, IsList(s), IsList(t), NEW S
  PROVE  Keep(s \o t, S) = Keep(s, S) \o Keep(t, S)
  <1> DEFINE u == s \o t
             T == ToSet(s) \cup ToSet(t)
             M == Len(s)
             N == Len(t)
  <1>1. s \in Seq(T) /\ t \in Seq(T) /\ u \in Seq(T) /\ M \in Nat /\ N \in Nat
    BY SeqOver, ListDef
  <1>2. /\ Len(u) = M + N /\ \A i \in 1..M : u[i] = s[i]
        /\ \A i \in 1..N : u[M + i] = t[i] /\ t[i] \in T
    <2>1. Joins(u, s, t)
      BY ConcatPlaces
    <2>2. \A i \in 1..N : t[i] \in T
      BY <1>1
    <2> QED BY <2>1, <2>2 DEF Joins
  <1> HIDE DEF u, T
  <1>3. PICK a : Filters(a, s, S)
    BY <1>1, KeepSteps
  <1>4. PICK b : Filters(b, t, S)
    BY <1>1, KeepSteps
  <1>5. PICK c : Filters(c, u, S)
    BY <1>1, KeepSteps
  <1> DEFINE k == Keep(s, S)
  <1>6. k \in Seq(T)
    BY <1>1, KeepSpec
  <1> HIDE DEF M, N
  <1>7. c[M] = k
    <2> DEFINE Q == {n \in Nat : n <= M => c[n] = a[n]}
    <2>1. 0 \in Q
      BY <1>3, <1>5 DEF Filters
    <2>2. ASSUME NEW n \in Nat, n \in Q PROVE n + 1 \in Q
      <3> SUFFICES ASSUME n + 1 <= M PROVE c[n + 1] = a[n + 1]
        OBVIOUS
      <3>1. n + 1 \in 1..M /\ n + 1 \in 1..(M + N) /\ (n + 1) - 1 = n /\ c[n] = a[n]
        BY <1>1, <2>2
      <3>2. a[n + 1] = IF s[n + 1] \in S THEN Append(a[n], s[n + 1]) ELSE a[n]
        BY <1>3, <3>1 DEF Filters, M
      <3>3. c[n + 1] = IF u[n + 1] \in S THEN Append(c[n], u[n + 1]) ELSE c[n]
        BY <1>2, <1>5, <3>1 DEF Filters
      <3> QED BY <1>2, <3>1, <3>2, <3>3
    <2> HIDE DEF Q
    <2>3. M \in Q
      BY <1>1, <2>1, <2>2, InductionOverNat
    <2> QED BY <1>1, <1>3, <2>3 DEF Q, Filters, M
  <1> HIDE DEF k
  <1>8. Keep(u, S) = k \o Keep(t, S)
    <2> DEFINE R == {n \in Nat : n <= N => b[n] \in Seq(T) /\ c[M + n] = k \o b[n]}
    <2>1. 0 \in R
      <3>1. b[0] = <<>> /\ M + 0 = M
        BY <1>1, <1>4 DEF Filters
      <3>2. <<>> \in Seq(T) /\ k \o <<>> = k
        BY <1>6
      <3> QED BY <1>7, <3>1, <3>2
    <2>2. ASSUME NEW n \in Nat, n \in R PROVE n + 1 \in R
      <3> SUFFICES ASSUME n + 1 <= N
                   PROVE  b[n + 1] \in Seq(T) /\ c[M + (n + 1)] = k \o b[n + 1]
        OBVIOUS
      <3> DEFINE m == M + (n + 1)
                 x == t[n + 1]
      <3>1. /\ n + 1 \in 1..N /\ (n + 1) - 1 = n /\ b[n] \in Seq(T) /\ c[M + n] = k \o b[n]
            /\ m \in 1..(M + N) /\ m - 1 = M + n
        BY <1>1, <2>2
      <3>2. b[n + 1] = IF x \in S THEN Append(b[n], x) ELSE b[n]
        BY <1>4, <3>1 DEF Filters, N
      <3>3. c[m] = IF u[m] \in S THEN Append(c[m - 1], u[m]) ELSE c[m - 1]
        BY <1>2, <1>5, <3>1 DEF Filters
      <3>4. u[m] = x /\ x \in T
        BY <1>2, <3>1
      <3> HIDE DEF m, x
      <3>5. Append(k \o b[n], x) = k \o Append(b[n], x) /\ Append(b[n], x) \in Seq(T)
        <4> DEFINE d == b[n]
        <4> HIDE DEF d
        <4>1. d \in Seq(T)
          BY <3>1 DEF d
        <4>2. Append(k \o d, x) = k \o Append(d, x) /\ Append(d, x) \in Seq(T)
          <5>1. AppendsToBoth(k, d, x)
            BY ONLY <1>6, <3>4, <4>1, ConcatAppend
          <5>2. Append(d, x) \in Seq(T)
            BY ONLY <3>4, <4>1
          <5> QED BY <5>1, <5>2 DEF AppendsToBoth
        <4> QED BY <4>2 DEF d
      <3> QED BY <3>1, <3>2, <3>3, <3>4, <3>5 DEF m
    <2> HIDE DEF R
    <2>3. N \in R
      BY <1>1, <2>1, <2>2, InductionOverNat
    <2>4. c[M + N] = k \o b[N]
      BY <1>1, <2>3 DEF R
    <2> QED BY <1>2, <1>4, <1>5, <2>4 DEF Filters, N
  <1> QED BY <1>8 DEF k, u

\* Of a list without elements of S nothing is kept.
LEMMA KeepNone ==
  ASSUME NEW s, IsList(s), NEW S, ToSet(s) \cap S = {}
  PROVE  Keep(s, S) = <<>>
  <1> DEFINE k == Keep(s, S)
  <1>1. IsList(k) /\ ToSet(k) = {}
    BY KeepList
  <1> HIDE DEF k
  <1>2. k \in Seq(ToSet(k)) /\ Len(k) \in Nat /\ DOMAIN k = 1..Len(k) /\ \A i \in DOMAIN k : k[i] \in ToSet(k)
    BY <1>1, ListDef
  <1>3. Len(k) = 0
    <2>1. ASSUME Len(k) # 0 PROVE FALSE
      <3>1. 1 \in DOMAIN k
        BY <1>2, <2>1
      <3> QED BY <1>1, <1>2, <3>1
    <2> QED BY <2>1
  <1> QED BY <1>2, <1>3 DEF k

\* If only one of several lists has elements of S, they are what is kept of
\* all.
LEMMA KeepFlat ==
  ASSUME NEW ss, IsList(ss), \A i \in DOMAIN ss : IsList(ss[i]), NEW S, NEW p \in DOMAIN ss,
         \A i \in DOMAIN ss : i # p => ToSet(ss[i]) \cap S = {}
  PROVE  Keep(FlattenSeq(ss), S) = Keep(ss[p], S)
  <1> DEFINE N == Len(ss)
             k == Keep(ss[p], S)
  <1>1. N \in Nat /\ DOMAIN ss = 1..N /\ N # 0
    BY ListDef
  <1>2. PICK flat : Flattens(flat, ss)
    BY <1>1, FlattenSteps
  <1>3. /\ flat[1] = ss[1] /\ \A n \in 1..N : n # 1 => flat[n] = flat[n - 1] \o ss[n]
        /\ FlattenSeq(ss) = flat[N]
    BY <1>2 DEF Flattens
  <1>4. IsList(k) /\ k \o <<>> = k
    <2>1. IsList(k)
      BY KeepList
    <2> HIDE DEF k
    <2>2. k \in Seq(ToSet(k))
      BY <2>1, ListDef
    <2> QED BY <2>1, <2>2
  <1> HIDE DEF N, k
  <1> DEFINE R(n) == IsList(flat[n]) /\ Keep(flat[n], S) = IF n < p THEN <<>> ELSE k
             Q == {n \in Nat : 1 <= n /\ n <= N => R(n)}
  <1>5. ASSUME NEW n \in 1..N PROVE Keep(ss[n], S) = IF n = p THEN k ELSE <<>>
    BY <1>1, KeepNone DEF k
  <1>6. 0 \in Q
    OBVIOUS
  <1>7. ASSUME NEW n \in Nat, n \in Q, n + 1 <= N PROVE R(n + 1)
    <2>1. CASE n = 0
      <3>1. 1 \in 1..N /\ n + 1 = 1 /\ (1 < p <=> 1 # p)
        BY <1>1, <1>7, <2>1
      <3>2. Keep(ss[1], S) = IF 1 = p THEN k ELSE <<>>
        BY <1>5, <3>1
      <3> QED BY <1>1, <1>3, <3>1, <3>2
    <2>2. CASE n # 0
      <3>1. n + 1 \in 1..N /\ n + 1 # 1 /\ (n + 1) - 1 = n /\ 1 <= n /\ n <= N
        BY <1>1, <1>7, <2>2
      <3>2. R(n) /\ flat[n + 1] = flat[n] \o ss[n + 1] /\ IsList(ss[n + 1])
        BY <1>1, <1>3, <1>7, <3>1
      <3>3. Keep(flat[n + 1], S) = Keep(flat[n], S) \o Keep(ss[n + 1], S) /\ IsList(flat[n + 1])
        <4> DEFINE d == flat[n]
                   t == ss[n + 1]
        <4>1. IsList(d) /\ IsList(t) /\ flat[n + 1] = d \o t
          BY <3>2
        <4> HIDE DEF d, t
        <4>2. Keep(d \o t, S) = Keep(d, S) \o Keep(t, S) /\ IsList(d \o t)
          BY <4>1, KeepJoin, ConcatList
        <4> QED BY <4>1, <4>2 DEF d, t
      <3>4. Keep(ss[n + 1], S) = IF n + 1 = p THEN k ELSE <<>>
        BY <1>5, <3>1
      <3>5. <<>> \o k = k /\ <<>> \o <<>> = <<>>
        BY <1>4, EmptyFirst
      <3>6. p \in Nat
        BY <1>1
      <3>7. CASE n + 1 < p
        <4>1. n < p /\ n + 1 # p
          BY <3>6, <3>7
        <4> QED BY <3>2, <3>3, <3>4, <3>5, <3>7, <4>1
      <3>8. CASE n + 1 = p
        <4>1. n < p /\ ~ (n + 1 < p)
          BY <3>6, <3>8
        <4> QED BY <3>2, <3>3, <3>4, <3>5, <3>8, <4>1
      <3>9. CASE n + 1 > p
        <4>1. ~ (n < p) /\ ~ (n + 1 < p) /\ n + 1 # p
          BY <3>6, <3>9
        <4> QED BY <1>4, <3>2, <3>3, <3>4, <4>1
      <3> QED BY <3>6, <3>7, <3>8, <3>9
    <2> QED BY <2>1, <2>2
  <1>8. N \in Q
    <2> HIDE DEF R
    <2>1. ASSUME NEW n \in Nat, n \in Q PROVE n + 1 \in Q
      BY <1>7, <2>1
    <2> HIDE DEF Q
    <2> QED BY <1>1, <1>6, <2>1, InductionOverNat
  <1>9. R(N)
    <2> HIDE DEF R
    <2>1. 1 <= N
      BY <1>1
    <2> QED BY <1>8, <2>1
  <1> QED BY <1>1, <1>3, <1>9 DEF k

\* The first element that is kept is the first one of s that is in S.
LEMMA KeepFirst ==
  ASSUME NEW s, IsList(s), NEW S, ToSet(s) \cap S # {}
  PROVE  \E p \in DOMAIN s : /\ s[p] \in S /\ Keep(s, S)[1] = s[p]
                             /\ \A q \in 1..(p - 1) : s[q] \notin S
  <1> DEFINE k == Keep(s, S)
             N == Len(s)
  <1>1. N \in Nat /\ DOMAIN s = 1..N /\ s \in Seq(ToSet(s))
    BY ListDef
  <1>2. PICK e : KeptBy(e, k, s, S, N)
    BY <1>1, KeepSpec
  <1>3. Len(k) \in Nat /\ DOMAIN k = 1..Len(k) /\ ToSet(k) = ToSet(s) \cap S
    BY KeepList, ListDef
  <1> HIDE DEF k, N
  <1>4. 1 \in 1..Len(k)
    <2>1. PICK i \in DOMAIN k : TRUE
      BY <1>3 DEF ToSet
    <2> QED BY <1>3, <2>1
  <1>5. e[1] \in 1..N /\ k[1] = s[e[1]] /\ k[1] \in S
    BY <1>2, <1>4 DEF KeptBy
  <1>6. ASSUME NEW q \in 1..(e[1] - 1), s[q] \in S PROVE FALSE
    <2>1. q \in 1..N
      BY <1>1, <1>5
    <2>2. PICK i \in 1..Len(k) : e[i] = q
      BY <1>2, <1>6, <2>1 DEF KeptBy
    <2>3. i = 1 \/ 1 < i
      BY <1>3
    <2>4. e[1] <= e[i]
      BY <1>1, <1>2, <1>4, <1>5, <2>1, <2>2, <2>3 DEF KeptBy
    <2> QED BY <1>1, <1>5, <2>2, <2>4
  <1> QED BY <1>1, <1>5, <1>6 DEF k

\* u is the list of n and then of the elements of s.
HasFirst(u, n, s) ==
  /\ IsList(u) /\ 1 \in DOMAIN u /\ u[1] = n /\ ToSet(u) = {n} \cup ToSet(s)
  /\ \A i \in DOMAIN u : i = 1 \/ u[i] \in ToSet(s)

\* That is what one element and a list make.
LEMMA HeadFirst ==
  ASSUME NEW n, NEW s, IsList(s)
  PROVE  HasFirst(<<n>> \o s, n, s)
  <1> DEFINE h == <<n>>
             u == h \o s
  <1>1. IsList(h) /\ ToSet(h) = {n} /\ Len(h) = 1 /\ h[1] = n
    BY OneElement
  <1> HIDE DEF h
  <1>2. Joins(u, h, s) /\ IsList(u) /\ ToSet(u) = ToSet(h) \cup ToSet(s)
    BY <1>1, ConcatPlaces, ConcatList
  <1> HIDE DEF u
  <1>3. 1 \in DOMAIN u /\ u[1] = n
    <2>1. 1 \in 1..Len(h)
      BY <1>1
    <2> QED BY <1>1, <1>2, <2>1 DEF Joins
  <1>4. ASSUME NEW i \in DOMAIN u, i # 1 PROVE u[i] \in ToSet(s)
    <2>1. Len(s) \in Nat /\ DOMAIN u = 1..(1 + Len(s)) /\ DOMAIN s = 1..Len(s)
      BY <1>1, <1>2 DEF Joins
    <2>2. i - 1 \in 1..Len(s) /\ 1 + (i - 1) = i
      BY <1>4, <2>1
    <2>3. u[1 + (i - 1)] = s[i - 1]
      BY <1>1, <1>2, <2>2 DEF Joins
    <2> QED BY <2>1, <2>2, <2>3 DEF ToSet
  <1>5. HasFirst(u, n, s)
    BY <1>1, <1>2, <1>3, <1>4 DEF HasFirst
  <1> QED BY <1>5 DEF u, h

\* Lists are put together in any order.
Associates(s, t, u) == (s \o t) \o u = s \o (t \o u)

LEMMA ConcatAssoc ==
  ASSUME NEW s, NEW t, NEW u, IsList(s), IsList(t), IsList(u)
  PROVE  Associates(s, t, u)
  <1> DEFINE T == ToSet(s) \cup (ToSet(t) \cup ToSet(u))
  <1>1. s \in Seq(T) /\ t \in Seq(T) /\ u \in Seq(T)
    BY SeqOver
  <1> HIDE DEF T
  <1>2. (s \o t) \o u = s \o (t \o u)
    BY ONLY <1>1
  <1> QED BY <1>2 DEF Associates

=============================================================================
