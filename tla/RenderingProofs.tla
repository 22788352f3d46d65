-------------------------- MODULE RenderingProofs --------------------------
(***************************************************************************)
(* Proofs about Rendering, for any corpus, cap, number of groups and of    *)
(* places of the semaphore: the grouping by package parts the classes,     *)
(* what is selected of a group spreads over its buckets, and no class      *)
(* costs another its file.                                                 *)
(***************************************************************************)
EXTENDS Rendering, ListProofs

(***************************************************************************)
(* Grouping                                                                *)
(***************************************************************************)
\* There is a longest common prefix, and PrefixLength finds it.
LEMMA CommonLength ==
  ASSUME NEW Segment, NEW packages \in Seq(Seq(Segment)), Len(packages) >= 2,
         NEW n, n = PrefixLength(packages)
  PROVE  n \in Nat /\ IsCommonLength(packages, n)
  <1>1. 1 \in DOMAIN packages /\ packages[1] \in Seq(Segment) /\ Len(packages[1]) \in Nat
    OBVIOUS
  <1> DEFINE last == Len(packages[1])
             Apart == {m \in Nat : ~Agree(packages, m)}
  <1>2. last + 1 \in Apart
    BY <1>1 DEF Agree
  <1>3. 0 \notin Apart
    BY DEF Agree
  <1>4. PICK m \in Apart : \A k \in Apart : m <= k
    <2>1. Apart \in SUBSET Nat /\ Apart # {}
      BY <1>2
    <2> HIDE DEF Apart
    <2> QED BY <2>1, LeastNumber
  <1>5. m \in Nat /\ m # 0 /\ m <= last + 1
    BY <1>2, <1>3, <1>4
  <1>6. m - 1 \in 0..last /\ (m - 1) + 1 = m /\ m - 1 \notin Apart
    BY <1>1, <1>4, <1>5
  <1>7. IsCommonLength(packages, m - 1)
    BY <1>4, <1>6 DEF IsCommonLength
  <1> DEFINE found == CHOOSE k \in 0..last : IsCommonLength(packages, k)
  <1>8. n = IF Len(packages) = 1 /\ found > 0 THEN found - 1 ELSE found
    BY DEF PrefixLength
  <1>9. found \in 0..last /\ IsCommonLength(packages, found)
    BY <1>6, <1>7
  <1> HIDE DEF found
  <1>10. n = found
    <2>1. Len(packages) # 1
      <3>1. \A x \in Nat : x >= 2 => x # 1
        OBVIOUS
      <3>2. Len(packages) \in Nat /\ Len(packages) >= 2
        OBVIOUS
      <3> HIDE DEF Apart
      <3> QED BY <3>1, <3>2
    <2> HIDE DEF last
    <2> QED BY <1>8, <2>1
  <1> QED BY <1>1, <1>9, <1>10

\* The grouping by prefix never puts all classes into one domain that bears a
\* name: if they had a segment in common after the prefix, the prefix would
\* have it too. They part into several groups, or all of them are in "misc".
\* Where the docstring of package_prefix_grouping.py has all domains merge into
\* one, two groups or more remain. (A class alone is grouped by its package.)
THEOREM PrefixGroupsPart ==
  ASSUME NEW Segment, NEW packages \in Seq(Seq(Segment)), Len(packages) >= 2,
         NEW mapping, DOMAIN mapping = {},
         NEW label, \A c \in DOMAIN packages : Labels(packages, mapping)[c] = label
  PROVE  label = Misc
  <1> DEFINE n == PrefixLength(packages)
  <1>1. n \in Nat /\ IsCommonLength(packages, n)
    BY CommonLength
  <1>2. \A c \in DOMAIN packages : ByPrefix(n, packages[c]) = label
    BY DEF Labels
  <1> HIDE DEF n
  <1> SUFFICES ASSUME label # Misc
               PROVE  Agree(packages, n + 1)
    BY <1>1 DEF IsCommonLength
  <1>3. ASSUME NEW c \in DOMAIN packages
        PROVE  /\ Len(packages[c]) \in Nat
               /\ Len(packages[c]) > n
               /\ packages[c][n + 1] = label
    BY <1>2, <1>3 DEF ByPrefix
  <1>4. ASSUME NEW c \in DOMAIN packages, NEW d \in DOMAIN packages, NEW i \in 1..(n + 1)
        PROVE  packages[c][i] = packages[d][i]
    <2>1. CASE i \in 1..n
      BY <1>1, <2>1 DEF Agree, IsCommonLength
    <2>2. CASE i = n + 1
      BY <1>3, <2>2
    <2> QED BY <1>1, <2>1, <2>2
  <1> QED BY <1>1, <1>3, <1>4 DEF Agree

(***************************************************************************)
(* Selection                                                               *)
(***************************************************************************)
\* s has the elements of members, heaviest first.
SortedFrom(s, members, m) ==
  /\ Len(s) = Len(members)
  /\ {s[i] : i \in DOMAIN s} = {members[i] : i \in DOMAIN members}
  /\ \A i, j \in DOMAIN s : i < j => ~Heavier(m[s[j]], m[s[i]])
  /\ (\A i, j \in DOMAIN members : members[i] = members[j] => i = j)
       => \A i, j \in DOMAIN s : s[i] = s[j] => i = j

LEMMA ByWeightSorts ==
  ASSUME NEW C, NEW members \in Seq(C), NEW m, \A c \in C : m[c].wmc \in Nat \cup {None},
         None \notin Nat, NEW s, s = ByWeight(members, m)
  PROVE  s \in Seq(C) /\ SortedFrom(s, members, m)
  <1> DEFINE n == Len(members)
             D == DOMAIN members
             before(i, j) == \/ Heavier(m[members[i]], m[members[j]])
                             \/ ~Heavier(m[members[j]], m[members[i]]) /\ i < j
             place(i) == 1 + Cardinality({j \in D : before(j, i)})
             at(p) == CHOOSE i \in D : place(i) = p
             R == {q \in D \X D : before(q[1], q[2])}
  <1>1. D = 1..n /\ n \in Nat
    OBVIOUS
  <1>2. s = [p \in D |-> members[at(p)]]
    BY DEF ByWeight
  <1>3. \A i, j \in D : <<i, j>> \in R <=> before(i, j)
    OBVIOUS
  <1>4. \A i \in D : m[members[i]].wmc \in Nat \cup {None}
    OBVIOUS
  <1>5. Orders(R, n)
    <2>1. ASSUME NEW i \in D PROVE ~before(i, i)
      BY <1>1, <1>4 DEF Heavier
    <2>2. ASSUME NEW i \in D, NEW j \in D, i # j PROVE before(i, j) \/ before(j, i)
      BY <1>1, <1>4, <2>2 DEF Heavier
    <2>3. ASSUME NEW i \in D, NEW j \in D, NEW k \in D, before(i, j), before(j, k)
          PROVE  before(i, k)
      <3> DEFINE x == m[members[i]].wmc
                 y == m[members[j]].wmc
                 z == m[members[k]].wmc
      <3>1. {x, y, z} \subseteq Nat \cup {None} /\ {i, j, k} \subseteq Nat
        BY <1>1, <1>4
      <3>2. \A a, b \in {i, j, k} :
              before(a, b) <=> \/ m[members[a]].wmc # None /\ (m[members[b]].wmc = None \/ m[members[a]].wmc > m[members[b]].wmc)
                               \/ /\ ~(m[members[b]].wmc # None /\ (m[members[a]].wmc = None \/ m[members[b]].wmc > m[members[a]].wmc))
                                  /\ a < b
        BY DEF Heavier
      <3>3. /\ before(i, j) <=> \/ x # None /\ (y = None \/ x > y)
                                \/ ~(y # None /\ (x = None \/ y > x)) /\ i < j
            /\ before(j, k) <=> \/ y # None /\ (z = None \/ y > z)
                                \/ ~(z # None /\ (y = None \/ z > y)) /\ j < k
            /\ before(i, k) <=> \/ x # None /\ (z = None \/ x > z)
                                \/ ~(z # None /\ (x = None \/ z > x)) /\ i < k
        BY <3>2
      <3> HIDE DEF before, x, y, z
      <3> QED BY <2>3, <3>1, <3>3
    <2> HIDE DEF R, before
    <2> QED BY <1>1, <1>3, <2>1, <2>2, <2>3 DEF Orders
  <1>6. ASSUME NEW i \in D PROVE place(i) = Rank(R, n, i)
    <2>1. {j \in D : before(j, i)} = {j \in 1..n : <<j, i>> \in R}
      BY <1>1, <1>3
    <2> QED BY <2>1 DEF Rank
  <1> HIDE DEF R
  <1>7. /\ \A i \in D : place(i) \in 1..n
        /\ \A i, j \in D : place(i) = place(j) => i = j
        /\ \A p \in 1..n : \E i \in D : place(i) = p
        /\ \A i, j \in D : before(i, j) <=> place(i) < place(j)
    <2>1. /\ \A i \in 1..n : Rank(R, n, i) \in 1..n
          /\ \A i, j \in 1..n : <<i, j>> \in R <=> Rank(R, n, i) < Rank(R, n, j)
          /\ \A i, j \in 1..n : Rank(R, n, i) = Rank(R, n, j) => i = j
          /\ \A p \in 1..n : \E i \in 1..n : Rank(R, n, i) = p
      <3> HIDE DEF n
      <3> QED BY <1>1, <1>5, RanksNumber
    <2> HIDE DEF D, place, before, n
    <2>2. D = 1..n /\ \A i \in 1..n : place(i) = Rank(R, n, i)
      BY <1>1, <1>6
    <2>3. /\ \A i \in D : place(i) \in 1..n
          /\ \A i, j \in D : place(i) = place(j) => i = j
          /\ \A p \in 1..n : \E i \in D : place(i) = p
      <3>1. ASSUME NEW i \in D PROVE place(i) \in 1..n /\ place(i) = Rank(R, n, i)
        BY <2>1, <2>2
      <3>2. ASSUME NEW i \in D, NEW j \in D, place(i) = place(j) PROVE i = j
        <4>1. Rank(R, n, i) = Rank(R, n, j) /\ i \in 1..n /\ j \in 1..n
          BY <2>2, <3>2
        <4> QED BY <2>1, <4>1
      <3>3. ASSUME NEW p \in 1..n PROVE \E i \in D : place(i) = p
        <4>1. PICK i \in 1..n : Rank(R, n, i) = p
          BY <2>1
        <4>2. i \in D /\ place(i) = p
          BY <2>2, <4>1
        <4> QED BY <4>2
      <3> QED BY <3>1, <3>2, <3>3
    <2>4. ASSUME NEW i \in D, NEW j \in D PROVE before(i, j) <=> place(i) < place(j)
      <3>1. /\ before(i, j) <=> <<i, j>> \in R
            /\ place(i) = Rank(R, n, i) /\ place(j) = Rank(R, n, j)
            /\ <<i, j>> \in R <=> Rank(R, n, i) < Rank(R, n, j)
        BY <1>3, <2>1, <2>2
      <3> QED BY <3>1
    <2> QED BY <2>3, <2>4
  <1> HIDE DEF place
  <1>8. ASSUME NEW p \in D PROVE at(p) \in D /\ place(at(p)) = p
    <2>1. \E i \in D : place(i) = p
      BY <1>1, <1>7
    <2> HIDE DEF D
    <2> QED BY <2>1
  <1>9. \A i \in D : place(i) \in D /\ at(place(i)) = i
    <2> HIDE DEF D, at
    <2> QED BY <1>1, <1>7, <1>8
  <1> HIDE DEF at
  <1>10. s \in Seq(C) /\ Len(s) = n /\ DOMAIN s = D
    <2>1. \A p \in D : members[at(p)] \in C
      BY <1>8
    <2> HIDE DEF D, n
    <2>2. s \in [1..n -> C]
      BY <1>1, <1>2, <2>1
    <2> QED BY <1>1, <2>2
  <1>11. {s[i] : i \in DOMAIN s} = {members[i] : i \in DOMAIN members}
    <2>1. \A p \in D : s[p] = members[at(p)] /\ at(p) \in D
      BY <1>2, <1>8
    <2>2. \A i \in D : members[i] = s[place(i)] /\ place(i) \in D
      BY <1>2, <1>9
    <2> QED BY <1>10, <2>1, <2>2
  <1>12. ASSUME NEW i \in D, NEW j \in D, i < j PROVE ~Heavier(m[s[j]], m[s[i]])
    <2>1. before(at(i), at(j))
      <3>1. place(at(i)) < place(at(j)) /\ at(i) \in D /\ at(j) \in D
        BY <1>8, <1>12
      <3> HIDE DEF before, D
      <3> QED BY <1>7, <3>1
    <2>2. s[i] = members[at(i)] /\ s[j] = members[at(j)]
      BY <1>2
    <2>3. at(i) \in D /\ at(j) \in D
      BY <1>8
    <2>4. ~Heavier(m[members[at(j)]], m[members[at(i)]])
      BY <1>4, <2>1, <2>3 DEF Heavier
    <2> QED BY <2>2, <2>4
  <1>13. ASSUME \A i, j \in D : members[i] = members[j] => i = j, NEW i \in D, NEW j \in D, s[i] = s[j]
         PROVE  i = j
    <2>1. at(i) = at(j)
      BY <1>2, <1>8, <1>13
    <2> QED BY <1>8, <2>1
  <1> HIDE DEF D
  <1> QED BY <1>10, <1>11, <1>12, <1>13 DEF SortedFrom, D

\* How many of the first n elements x has.
Upto(x, n) == IF n <= Len(x) THEN n ELSE Len(x)

\* s consists of the first k[j] elements of each bucket b[j].
Filled(s, k, b) ==
  /\ k \in [1..3 -> Nat] /\ \A j \in 1..3 : k[j] <= Len(b[j])
  /\ Len(s) = k[1] + k[2] + k[3]
  /\ \A i, j \in DOMAIN s : s[i] = s[j] => i = j
  /\ \A i \in DOMAIN s : \E j \in 1..3 : \E p \in 1..k[j] : s[i] = b[j][p]
  /\ \A j \in 1..3 : \A p \in 1..k[j] : \E i \in DOMAIN s : s[i] = b[j][p]

\* Three lists that have no element twice, and none in common.
AreBuckets(b, C) ==
  /\ b \in [1..3 -> Seq(C)]
  /\ \A j \in 1..3 : \A p, q \in DOMAIN b[j] : b[j][p] = b[j][q] => p = q
  /\ \A j, h \in 1..3 : \A p \in DOMAIN b[j], q \in DOMAIN b[h] : b[j][p] = b[h][q] => j = h

LEMMA FilledBy ==
  ASSUME NEW C, NEW b, AreBuckets(b, C), NEW s \in Seq(C), NEW k, Filled(s, k, b),
         NEW j \in 1..3, k[j] + 1 <= Len(b[j])
  PROVE  Filled(Append(s, b[j][k[j] + 1]), [k EXCEPT ![j] = @ + 1], b)
  <1> DEFINE n == k[j] + 1
             e == b[j][n]
             l == Len(s) + 1
             t == Append(s, e)
             u == [k EXCEPT ![j] = @ + 1]
  <1>0. /\ k \in [1..3 -> Nat] /\ \A h \in 1..3 : k[h] \in Nat /\ k[h] <= Len(b[h])
        /\ \A h \in 1..3 : /\ b[h] \in Seq(C) /\ Len(b[h]) \in Nat
                           /\ DOMAIN b[h] = 1..Len(b[h])
    <2>1. \A h \in 1..3 : b[h] \in Seq(C)
      BY DEF AreBuckets
    <2>2. k \in [1..3 -> Nat] /\ \A h \in 1..3 : k[h] <= Len(b[h])
      BY DEF Filled
    <2>3. \A h \in 1..3 : k[h] \in Nat
      BY ONLY <2>2
    <2>4. \A h \in 1..3 : Len(b[h]) \in Nat /\ DOMAIN b[h] = 1..Len(b[h])
      BY ONLY <2>1
    <2> QED BY ONLY <2>1, <2>2, <2>3, <2>4
  <1>1. /\ n \in Nat /\ n \in DOMAIN b[j] /\ e \in C /\ l \in Nat
        /\ \A h \in 1..3 : \A p \in 1..k[h] : p \in DOMAIN b[h]
    <2>1. n \in Nat /\ n \in DOMAIN b[j]
      <3>1. k[j] \in Nat /\ Len(b[j]) \in Nat /\ DOMAIN b[j] = 1..Len(b[j])
        BY <1>0
      <3> QED BY ONLY <3>1, k[j] + 1 <= Len(b[j])
    <2>2. e \in C
      <3>1. b[j] \in Seq(C)
        BY <1>0
      <3> HIDE DEF n
      <3> QED BY ONLY <2>1, <3>1
    <2>3. \A h \in 1..3 : \A p \in 1..k[h] : p \in DOMAIN b[h]
      BY <1>0
    <2> QED BY <2>1, <2>2, <2>3
  <1>2. /\ Len(t) = l /\ DOMAIN t = 1..l /\ t[l] = e
        /\ \A i \in DOMAIN s : i \in 1..l /\ i # l /\ t[i] = s[i]
        /\ \A i \in 1..l : i = l \/ i \in DOMAIN s
    BY <1>1
  <1>3. /\ u \in [1..3 -> Nat] /\ u[j] = n /\ \A h \in 1..3 : h # j => u[h] = k[h]
        /\ u[1] + u[2] + u[3] = k[1] + k[2] + k[3] + 1
    <2>1. k \in [1..3 -> Nat] /\ k[j] + 1 \in Nat
      BY <1>0
    <2>2. /\ u \in [1..3 -> Nat] /\ u[j] = n /\ \A h \in 1..3 : h # j => u[h] = k[h]
      BY <2>1
    <2>3. u[1] + u[2] + u[3] = k[1] + k[2] + k[3] + 1
      <3>1. k[1] \in Nat /\ k[2] \in Nat /\ k[3] \in Nat
        BY <2>1
      <3>2. \/ j = 1 /\ u[1] = k[1] + 1 /\ u[2] = k[2] /\ u[3] = k[3]
            \/ j = 2 /\ u[1] = k[1] /\ u[2] = k[2] + 1 /\ u[3] = k[3]
            \/ j = 3 /\ u[1] = k[1] /\ u[2] = k[2] /\ u[3] = k[3] + 1
        <4>1. (j = 1 \/ j = 2 \/ j = 3) /\ 1 \in 1..3 /\ 2 \in 1..3 /\ 3 \in 1..3
          OBVIOUS
        <4> HIDE DEF u
        <4> QED BY <2>2, <4>1
      <3> HIDE DEF u
      <3> DEFINE x == k[1]
                 y == k[2]
                 z == k[3]
                 sum == u[1] + u[2] + u[3]
      <3>3. /\ x \in Nat /\ y \in Nat /\ z \in Nat
            /\ \/ sum = (x + 1) + y + z
               \/ sum = x + (y + 1) + z
               \/ sum = x + y + (z + 1)
        BY ONLY <3>1, <3>2
      <3> HIDE DEF x, y, z, sum
      <3>4. sum = x + y + z + 1
        BY ONLY <3>3
      <3> QED BY <3>4 DEF x, y, z, sum
    <2> QED BY <2>2, <2>3
  <1>4. \A h \in 1..3 : u[h] <= Len(b[h])
    BY <1>3 DEF Filled
  <1>5. Len(t) = u[1] + u[2] + u[3]
    BY <1>2, <1>3 DEF Filled
  <1>6. \A i \in DOMAIN s : s[i] # e
    <2> SUFFICES ASSUME NEW i \in DOMAIN s, s[i] = e PROVE FALSE
      OBVIOUS
    <2>1. PICK h \in 1..3 : \E p \in 1..k[h] : s[i] = b[h][p]
      BY DEF Filled
    <2>2. PICK p \in 1..k[h] : s[i] = b[h][p]
      BY <2>1
    <2>3. p \in DOMAIN b[h] /\ n \in DOMAIN b[j] /\ b[h][p] = b[j][n]
      BY <1>1, <2>2
    <2> HIDE DEF n, e
    <2>4. h = j
      BY <2>3 DEF AreBuckets
    <2>5. p = n
      BY <2>3, <2>4 DEF AreBuckets
    <2> DEFINE m == k[j]
    <2>6. m \in Nat /\ p \in 1..m /\ p = m + 1
      BY <1>0, <2>2, <2>4, <2>5 DEF n
    <2> HIDE DEF m
    <2> QED BY ONLY <2>6
  <1> HIDE DEF t, u, e, l
  <1>7. \A i, h \in DOMAIN t : t[i] = t[h] => i = h
    <2>1. \A i, h \in DOMAIN s : s[i] = s[h] => i = h
      BY DEF Filled
    <2> QED BY ONLY <1>2, <1>6, <2>1
  <1>8. ASSUME NEW i \in DOMAIN t PROVE \E h \in 1..3 : \E p \in 1..u[h] : t[i] = b[h][p]
    <2>1. CASE i = l
      <3>1. n \in 1..u[j] /\ t[i] = b[j][n]
        <4>1. n \in 1..n
          BY <1>0
        <4> HIDE DEF n
        <4> QED BY <1>2, <1>3, <2>1, <4>1 DEF e
      <3> QED BY <3>1
    <2>2. CASE i \in DOMAIN s
      <3>1. PICK h \in 1..3 : \E p \in 1..k[h] : s[i] = b[h][p]
        BY <2>2 DEF Filled
      <3>2. PICK p \in 1..k[h] : s[i] = b[h][p]
        BY <3>1
      <3>3. p \in 1..u[h]
        <4>1. k[h] \in Nat /\ (u[h] = k[h] \/ u[h] = k[h] + 1)
          BY <1>0, <1>3
        <4> QED BY <3>2, <4>1
      <3> QED BY <1>2, <2>2, <3>2, <3>3
    <2> QED BY <1>2, <2>1, <2>2
  <1>9. ASSUME NEW h \in 1..3, NEW p \in 1..u[h] PROVE \E i \in DOMAIN t : t[i] = b[h][p]
    <2>1. CASE h = j /\ p = n
      BY <1>1, <1>2, <2>1 DEF e, l
    <2>2. CASE p \in 1..k[h]
      <3>1. PICK i \in DOMAIN s : s[i] = b[h][p]
        BY <2>2 DEF Filled
      <3> QED BY <1>2, <3>1
    <2>3. (h = j /\ p = n) \/ p \in 1..k[h]
      <3>1. k[h] \in Nat /\ (u[h] = k[h] \/ (h = j /\ u[h] = n /\ n = k[h] + 1))
        BY <1>0, <1>3
      <3> HIDE DEF n
      <3> QED BY <3>1
    <2> QED BY <2>1, <2>2, <2>3
  <1>10. Filled(t, u, b)
    BY <1>3, <1>4, <1>5, <1>7, <1>8, <1>9 DEF Filled
  <1> QED BY <1>10 DEF t, u, e

\* Where the fill is when the first h buckets have had their turn in cycle n.
During(s, b, C, n, h, cp) ==
  /\ s \in Seq(C) /\ Len(s) <= cp
  /\ \E k \in [1..3 -> Nat] :
       /\ Filled(s, k, b)
       /\ \A j \in 1..3 : k[j] \in {Upto(b[j], n - 1), Upto(b[j], n)}
       /\ Len(s) = cp \/ \A j \in 1..3 : k[j] = Upto(b[j], IF j <= h THEN n ELSE n - 1)

LEMMA TakeStep ==
  ASSUME NEW C, NEW b, AreBuckets(b, C), NEW cp \in Nat, NEW n \in Nat \ {0},
         NEW h \in 1..3, NEW s, During(s, b, C, n, h - 1, cp)
  PROVE  During(Take(s, b[h], n, cp), b, C, n, h, cp)
  <1>0. /\ s \in Seq(C) /\ Len(s) \in Nat /\ Len(s) <= cp
        /\ \A j \in 1..3 : Len(b[j]) \in Nat
    BY DEF During, AreBuckets
  <1>1. PICK k \in [1..3 -> Nat] :
          /\ Filled(s, k, b)
          /\ \A j \in 1..3 : k[j] \in {Upto(b[j], n - 1), Upto(b[j], n)}
          /\ Len(s) = cp \/ \A j \in 1..3 : k[j] = Upto(b[j], IF j <= h - 1 THEN n ELSE n - 1)
    BY DEF During
  <1>2. CASE Len(s) = cp
    <2>1. Take(s, b[h], n, cp) = s
      BY <1>0, <1>2 DEF Take
    <2> QED BY <1>0, <1>1, <1>2, <2>1 DEF During
  <1>3. CASE Len(s) # cp /\ n > Len(b[h])
    <2>1. Take(s, b[h], n, cp) = s
      BY <1>0, <1>3 DEF Take
    <2>2. ASSUME NEW j \in 1..3 PROVE k[j] = Upto(b[j], IF j <= h THEN n ELSE n - 1)
      <3>1. CASE j = h
        <4>0. k[j] \in {Upto(b[j], n - 1), Upto(b[j], n)} /\ ~ (j <= h - 1)
          BY <1>1, <3>1
        <4>1. k[j] = Upto(b[j], n - 1) /\ Len(b[j]) \in Nat /\ n > Len(b[j])
          BY <1>0, <1>1, <1>3, <3>1, <4>0
        <4>2. Upto(b[j], n - 1) = Len(b[j]) /\ Upto(b[j], n) = Len(b[j])
          BY ONLY <4>1, n \in Nat \ {0} DEF Upto
        <4> QED BY <3>1, <4>1, <4>2
      <3>2. CASE j # h
        <4>1. j <= h <=> j <= h - 1
          BY <3>2
        <4> QED BY <1>1, <1>3, <4>1
      <3> QED BY <3>1, <3>2
    <2> QED BY <1>0, <1>1, <2>1, <2>2 DEF During
  <1>4. CASE Len(s) # cp /\ n <= Len(b[h])
    <2> DEFINE u == [k EXCEPT ![h] = @ + 1]
               t == Append(s, b[h][n])
    <2>1. Take(s, b[h], n, cp) = t
      <3>1. Len(s) < cp
        BY <1>0, <1>4
      <3> QED BY <1>4, <3>1 DEF Take
    <2>2. k[h] = n - 1 /\ k[h] + 1 = n
      <3>1. k[h] = Upto(b[h], n - 1) /\ Len(b[h]) \in Nat
        <4>1. \A j \in 1..3 : k[j] = Upto(b[j], IF j <= h - 1 THEN n ELSE n - 1)
          BY <1>1, <1>4
        <4>2. ~ (h <= h - 1)
          OBVIOUS
        <4> QED BY <1>0, <4>1, <4>2
      <3> DEFINE kh == k[h]
                 l == Len(b[h])
      <3>2. kh = (IF n - 1 <= l THEN n - 1 ELSE l) /\ l \in Nat /\ n <= l
        BY <1>4, <3>1 DEF Upto
      <3> HIDE DEF kh, l
      <3>3. kh = n - 1 /\ kh + 1 = n
        BY ONLY <3>2, n \in Nat \ {0}
      <3> QED BY <3>3 DEF kh
    <2>3. Filled(t, u, b)
      BY <1>0, <1>1, <1>4, <2>2, FilledBy
    <2>4. u \in [1..3 -> Nat] /\ u[h] = n /\ \A j \in 1..3 : j # h => u[j] = k[j]
      BY <2>2
    <2>5. b[h][n] \in C
      <3>1. b[h] \in Seq(C)
        BY DEF AreBuckets
      <3>2. n \in 1..Len(b[h])
        BY <1>0, <1>4
      <3> QED BY ONLY <3>1, <3>2
    <2>6. t \in Seq(C) /\ Len(t) = Len(s) + 1
      BY <1>0, <2>5
    <2>7. ASSUME NEW j \in 1..3
          PROVE  /\ u[j] \in {Upto(b[j], n - 1), Upto(b[j], n)}
                 /\ u[j] = Upto(b[j], IF j <= h THEN n ELSE n - 1)
      <3>1. CASE j = h
        BY <1>4, <2>4, <3>1 DEF Upto
      <3>2. CASE j # h
        <4>1. u[j] = k[j] /\ (j <= h <=> j <= h - 1)
          BY <2>4, <3>2
        <4> QED BY <1>0, <1>1, <1>4, <4>1
      <3> QED BY <3>1, <3>2
    <2>8. Len(t) <= cp
      BY <1>0, <1>4, <2>6
    <2> HIDE DEF t, u
    <2>9. During(t, b, C, n, h, cp)
      BY <2>3, <2>4, <2>6, <2>7, <2>8 DEF During
    <2> QED BY <2>1, <2>9
  <1> QED BY <1>0, <1>2, <1>3, <1>4

LEMMA CycleStep ==
  ASSUME NEW C, NEW b, AreBuckets(b, C), NEW cp \in Nat, NEW n \in Nat \ {0},
         NEW s, During(s, b, C, n, 0, cp)
  PROVE  During(Cycle(b, n, s, cp), b, C, n, 3, cp)
  <1> DEFINE t == Take(s, b[1], n, cp)
             u == Take(t, b[2], n, cp)
             v == Take(u, b[3], n, cp)
  <1>1. During(s, b, C, n, 1 - 1, cp)
    BY SMT
  <1>2. 1 \in 1..3 /\ 2 \in 1..3 /\ 3 \in 1..3 /\ 2 - 1 = 1 /\ 3 - 1 = 2
    BY SMT
  <1>3. During(t, b, C, n, 1, cp)
    BY <1>1, <1>2, TakeStep
  <1> HIDE DEF t
  <1>4. During(u, b, C, n, 2, cp)
    <2>1. During(t, b, C, n, 2 - 1, cp)
      BY <1>2, <1>3
    <2> QED BY <1>2, <2>1, TakeStep
  <1> HIDE DEF u
  <1>5. During(v, b, C, n, 3, cp)
    <2>1. During(u, b, C, n, 3 - 1, cp)
      BY <1>2, <1>4
    <2> QED BY <1>2, <2>1, TakeStep
  <1> QED BY <1>5 DEF Cycle, t, u

LEMMA CycleType ==
  ASSUME NEW C, NEW b \in [1..3 -> Seq(C)], NEW n \in Nat \ {0}, NEW cp \in Nat, NEW s \in Seq(C)
  PROVE  Cycle(b, n, s, cp) \in Seq(C)
  <1>1. ASSUME NEW t \in Seq(C), NEW j \in 1..3 PROVE Take(t, b[j], n, cp) \in Seq(C)
    <2>1. n <= Len(b[j]) => b[j][n] \in C
      OBVIOUS
    <2> QED BY <2>1 DEF Take
  <1>2. Take(s, b[1], n, cp) \in Seq(C)
    BY <1>1
  <1>3. Take(Take(s, b[1], n, cp), b[2], n, cp) \in Seq(C)
    BY <1>1, <1>2
  <1>4. Take(Take(Take(s, b[1], n, cp), b[2], n, cp), b[3], n, cp) \in Seq(C)
    BY <1>1, <1>3
  <1> QED BY <1>4 DEF Cycle

\* A cycle leaves a selection alone that has reached the cap.
LEMMA CycleFull ==
  ASSUME NEW C, NEW s \in Seq(C), NEW cp \in Nat, Len(s) = cp, NEW b, NEW n
  PROVE  Cycle(b, n, s, cp) = s
  BY DEF Cycle, Take

\* The list after n cycles: the fill has stopped in cycle t, or t is n.
Spread(s, b, C, n, cp) ==
  \E t \in 0..n : During(s, b, C, t, 3, cp) /\ (Len(s) = cp \/ t = n)

LEMMA SpreadStep ==
  ASSUME NEW C, NEW b, AreBuckets(b, C), NEW cp \in Nat, NEW n \in Nat, NEW s,
         Spread(s, b, C, n, cp)
  PROVE  Spread(Cycle(b, n + 1, s, cp), b, C, n + 1, cp)
  <1>1. PICK t \in 0..n : During(s, b, C, t, 3, cp) /\ (Len(s) = cp \/ t = n)
    BY DEF Spread
  <1>2. CASE Len(s) = cp
    <2>1. Cycle(b, n + 1, s, cp) = s
      BY <1>1, <1>2, CycleFull DEF During
    <2>2. t \in 0..(n + 1)
      OBVIOUS
    <2> QED BY <1>1, <1>2, <2>1, <2>2 DEF Spread
  <1>3. CASE Len(s) # cp
    <2>1. During(s, b, C, n, 3, cp)
      BY <1>1, <1>3
    <2>2. PICK k \in [1..3 -> Nat] : Filled(s, k, b) /\ \A j \in 1..3 : k[j] = Upto(b[j], n)
      <3>1. \A j \in 1..3 : j <= 3
        OBVIOUS
      <3> QED BY <1>3, <2>1, <3>1 DEF During
    <2>3. During(s, b, C, n + 1, 0, cp)
      <3>1. (n + 1) - 1 = n
        OBVIOUS
      <3>2. \A j \in 1..3 : /\ k[j] \in {Upto(b[j], (n + 1) - 1), Upto(b[j], n + 1)}
                            /\ k[j] = Upto(b[j], IF j <= 0 THEN n + 1 ELSE (n + 1) - 1)
        BY <2>2, <3>1
      <3> QED BY <2>1, <2>2, <3>2 DEF During
    <2>4. n + 1 \in Nat \ {0} /\ n + 1 \in 0..(n + 1)
      OBVIOUS
    <2>5. During(Cycle(b, n + 1, s, cp), b, C, n + 1, 3, cp)
      BY <2>3, <2>4, CycleStep
    <2> QED BY <2>4, <2>5 DEF Spread
  <1> QED BY <1>2, <1>3

LEMMA RoundRobinSpreads ==
  ASSUME NEW C, NEW b, AreBuckets(b, C), NEW cp \in Nat, NEW s, s = RoundRobin(b, cp)
  PROVE  Spread(s, b, C, cp, cp)
  <1> DEFINE turn == [n \in 1..cp |-> [x \in Seq(C) |-> Cycle(b, n, x, cp)]]
             Is(f) == f = [n \in 0..cp |-> IF n = 0 THEN <<>> ELSE Cycle(b, n, f[n - 1], cp)]
             filled == CHOOSE f : Is(f)
  <1>1. turn \in [1..cp -> [Seq(C) -> Seq(C)]] /\ <<>> \in Seq(C)
    BY CycleType DEF AreBuckets
  <1>2. PICK g \in [0..cp -> Seq(C)] : g[0] = <<>> /\ \A n \in 1..cp : g[n] = turn[n][g[n - 1]]
    <2> DEFINE V == Seq(C)
               v == <<>>
    <2>1. v \in V /\ turn \in [1..cp -> [V -> V]]
      BY <1>1
    <2> HIDE DEF turn, V, v
    <2>2. \E f \in [0..cp -> V] : Recurs(f, v, turn, cp)
      BY <2>1, RecursionOverInterval
    <2> QED BY <2>2 DEF V, v, Recurs
  <1>3. Is(g)
    <2>1. ASSUME NEW n \in 0..cp, n # 0 PROVE g[n] = Cycle(b, n, g[n - 1], cp)
      <3>1. n \in 1..cp /\ n - 1 \in 0..cp /\ g[n - 1] \in Seq(C)
        BY <2>1
      <3> QED BY <1>2, <3>1
    <2> QED BY <1>2, <2>1
  <1>4. Is(filled)
    <2> HIDE DEF Is
    <2> QED BY <1>3
  <1>5. s = filled[cp]
    BY DEF RoundRobin
  <1> HIDE DEF filled
  <1>6. filled[0] = <<>> /\ \A n \in 1..cp : filled[n] = Cycle(b, n, filled[n - 1], cp)
    <2>1. filled[0] = <<>>
      BY <1>4
    <2>2. ASSUME NEW n \in 1..cp PROVE filled[n] = Cycle(b, n, filled[n - 1], cp)
      <3>1. n \in 0..cp /\ n # 0
        OBVIOUS
      <3> QED BY <1>4, <3>1
    <2> QED BY <2>1, <2>2
  <1> DEFINE Q == {n \in Nat : n <= cp => Spread(filled[n], b, C, n, cp)}
  <1>7. 0 \in Q
    <2> DEFINE k == [j \in 1..3 |-> 0]
    <2>1. \A j \in 1..3 : Len(b[j]) \in Nat
      BY DEF AreBuckets
    <2>2. Filled(<<>>, k, b)
      BY <2>1 DEF Filled
    <2>3. \A j \in 1..3 : Upto(b[j], 0) = 0
      BY <2>1 DEF Upto
    <2>4. k \in [1..3 -> Nat] /\ \A j \in 1..3 : k[j] = 0 /\ j <= 3
      OBVIOUS
    <2>5. <<>> \in Seq(C) /\ Len(<<>>) = 0
      OBVIOUS
    <2> HIDE DEF k
    <2>6. \A j \in 1..3 : /\ k[j] \in {Upto(b[j], 0 - 1), Upto(b[j], 0)}
                          /\ k[j] = Upto(b[j], IF j <= 3 THEN 0 ELSE 0 - 1)
      BY <2>3, <2>4
    <2>7. Len(<<>>) <= cp
      BY <2>5
    <2>8. During(<<>>, b, C, 0, 3, cp)
      BY <2>2, <2>4, <2>5, <2>6, <2>7 DEF During
    <2>9. Spread(<<>>, b, C, 0, cp)
      BY <2>8 DEF Spread
    <2> QED BY <1>6, <2>9
  <1>8. ASSUME NEW n \in Nat, n \in Q PROVE n + 1 \in Q
    <2> SUFFICES ASSUME n + 1 <= cp PROVE Spread(filled[n + 1], b, C, n + 1, cp)
      OBVIOUS
    <2>1. n + 1 \in 1..cp /\ (n + 1) - 1 = n /\ n <= cp
      OBVIOUS
    <2>2. filled[n + 1] = Cycle(b, n + 1, filled[n], cp)
      BY <1>6, <2>1
    <2>3. Spread(filled[n], b, C, n, cp)
      BY <1>8, <2>1
    <2> QED BY <2>2, <2>3, SpreadStep
  <1> HIDE DEF Q
  <1>9. cp \in Q
    BY <1>7, <1>8, InductionOverNat
  <1> QED BY <1>5, <1>9 DEF Q

\* What the round-robin selects: the first elements of each bucket, no bucket
\* two more than another that still has some, up to the cap.
LEMMA RoundRobinSpec ==
  ASSUME NEW C, NEW b, AreBuckets(b, C), NEW cp \in Nat, NEW s, s = RoundRobin(b, cp)
  PROVE  /\ s \in Seq(C)
         /\ \E k \in [1..3 -> Nat] :
              /\ Filled(s, k, b)
              /\ \A j, h \in 1..3 : k[j] < Len(b[j]) => k[j] >= k[h] - 1
              /\ Len(s) = cp \/ \A j \in 1..3 : k[j] = Len(b[j])
  <1>1. PICK t \in 0..cp : During(s, b, C, t, 3, cp) /\ (Len(s) = cp \/ t = cp)
    BY RoundRobinSpreads DEF Spread
  <1>2. PICK k \in [1..3 -> Nat] :
          /\ Filled(s, k, b)
          /\ \A j \in 1..3 : k[j] \in {Upto(b[j], t - 1), Upto(b[j], t)}
          /\ Len(s) = cp \/ \A j \in 1..3 : k[j] = Upto(b[j], IF j <= 3 THEN t ELSE t - 1)
    BY <1>1 DEF During
  <1>3. s \in Seq(C) /\ Len(s) \in Nat /\ Len(s) <= cp
    BY <1>1 DEF During
  <1>4. \A j \in 1..3 : Len(b[j]) \in Nat /\ k[j] \in Nat /\ k[j] <= Len(b[j])
    <2>1. \A j \in 1..3 : Len(b[j]) \in Nat
      BY DEF AreBuckets
    <2>2. \A j \in 1..3 : k[j] \in Nat /\ k[j] <= Len(b[j])
      BY <1>2 DEF Filled
    <2> QED BY <2>1, <2>2
  <1>5. ASSUME NEW j \in 1..3, NEW h \in 1..3, k[j] < Len(b[j]) PROVE k[j] >= k[h] - 1
    <2>1. k[h] <= t
      <3>1. Upto(b[h], t - 1) <= t /\ Upto(b[h], t) <= t
        BY <1>4 DEF Upto
      <3> QED BY <1>2, <3>1
    <2>2. k[j] >= t - 1
      <3>1. /\ k[j] \in {Upto(b[j], t - 1), Upto(b[j], t)}
            /\ Len(b[j]) \in Nat /\ k[j] \in Nat /\ k[j] < Len(b[j])
        BY <1>2, <1>4, <1>5
      <3> QED BY ONLY <3>1, t \in 0..cp, cp \in Nat DEF Upto
    <2>3. k[h] \in Nat /\ k[j] \in Nat
      BY <1>4
    <2> QED BY ONLY <2>1, <2>2, <2>3, t \in 0..cp, cp \in Nat
  <1>6. ASSUME Len(s) # cp, NEW j \in 1..3 PROVE k[j] = Len(b[j])
    <2>1. t = cp /\ k[j] = Upto(b[j], cp)
      <3>1. j <= 3
        OBVIOUS
      <3> QED BY <1>1, <1>2, <1>6, <3>1
    <2>2. k[j] < cp
      <3>1. Len(s) = k[1] + k[2] + k[3] /\ k[1] \in Nat /\ k[2] \in Nat /\ k[3] \in Nat
        BY <1>2 DEF Filled
      <3>2. k[j] <= k[1] + k[2] + k[3]
        <4>1. j = 1 \/ j = 2 \/ j = 3
          OBVIOUS
        <4> QED BY <3>1, <4>1
      <3> QED BY <1>3, <1>4, <1>6, <3>1, <3>2
    <2> QED BY <1>4, <2>1, <2>2 DEF Upto
  <1> QED BY <1>2, <1>3, <1>5, <1>6

\* The number of the bucket for a class with the metrics x.
Level(x) == IF High(x) THEN 1 ELSE IF Low(x) THEN 3 ELSE 2

\* What the lemmas about the selection say of its input: members of a group
\* with no class twice, and metrics that are numbers or missing.
Selectable(C, members, m) ==
  /\ members \in Seq(C)
  /\ \A i, j \in DOMAIN members : members[i] = members[j] => i = j
  /\ \A c \in C : c \in DOMAIN m /\ m[c] \in Metrics

LEMMA BucketsSpec ==
  ASSUME NEW C, NEW members, NEW m, Selectable(C, members, m), NEW b, b = Buckets(members, m)
  PROVE  /\ AreBuckets(b, C)
         /\ \A j \in 1..3 : \A p \in DOMAIN b[j] :
              Level(m[b[j][p]]) = j /\ \E i \in DOMAIN members : members[i] = b[j][p]
         /\ \A i \in DOMAIN members :
              \E p \in DOMAIN b[Level(m[members[i]])] : b[Level(m[members[i]])][p] = members[i]
         /\ \A j \in 1..3 : \A p, q \in DOMAIN b[j] : p < q => ~Heavier(m[b[j][q]], m[b[j][p]])
  <1> DEFINE Of(j) == {c \in DOMAIN m : Level(m[c]) = j}
             Kept(j) == Keep(members, Of(j))
  <1>0. /\ None \notin Nat /\ members \in Seq(C)
        /\ \A c \in C : m[c].wmc \in Nat \cup {None}
        /\ \A x : Level(x) \in 1..3
    BY RenderingAssumption DEF RenderingAssumption, Selectable, Metrics, Level
  <1>1. b = <<ByWeight(Kept(1), m), ByWeight(Kept(2), m), ByWeight(Kept(3), m)>>
    <2>1. /\ {c \in DOMAIN m : High(m[c])} = Of(1)
          /\ {c \in DOMAIN m : Mid(m[c])} = Of(2)
          /\ {c \in DOMAIN m : Low(m[c])} = Of(3)
      BY DEF Level, Mid, Low
    <2> HIDE DEF Of
    <2> QED BY <2>1 DEF Buckets
  <1> HIDE DEF Of
  <1>2. ASSUME NEW j \in 1..3
        PROVE  /\ Kept(j) \in Seq(C)
               /\ \A p, q \in DOMAIN Kept(j) : Kept(j)[p] = Kept(j)[q] => p = q
               /\ {Kept(j)[p] : p \in DOMAIN Kept(j)} = {members[i] : i \in DOMAIN members} \cap Of(j)
    BY KeepDistinct DEF Selectable
  <1> HIDE DEF Kept
  <1>3. \A j \in 1..3 : b[j] = ByWeight(Kept(j), m)
    <2>1. \A j \in 1..3 : j = 1 \/ j = 2 \/ j = 3
      OBVIOUS
    <2> QED BY <1>1, <2>1
  <1>4. ASSUME NEW j \in 1..3
        PROVE  /\ b[j] \in Seq(C)
               /\ \A p, q \in DOMAIN b[j] : b[j][p] = b[j][q] => p = q
               /\ {b[j][p] : p \in DOMAIN b[j]} = {members[i] : i \in DOMAIN members} \cap Of(j)
               /\ \A p, q \in DOMAIN b[j] : p < q => ~Heavier(m[b[j][q]], m[b[j][p]])
    <2>1. b[j] \in Seq(C) /\ SortedFrom(b[j], Kept(j), m)
      BY <1>0, <1>2, <1>3, ByWeightSorts
    <2> QED BY <1>2, <2>1 DEF SortedFrom
  <1>5. ASSUME NEW j \in 1..3, NEW p \in DOMAIN b[j]
        PROVE  /\ Level(m[b[j][p]]) = j
               /\ \E i \in DOMAIN members : members[i] = b[j][p]
    <2>1. b[j][p] \in {members[i] : i \in DOMAIN members} \cap Of(j)
      BY <1>4
    <2> QED BY <2>1 DEF Of
  <1>6. ASSUME NEW i \in DOMAIN members, NEW j, j = Level(m[members[i]])
        PROVE  \E p \in DOMAIN b[j] : b[j][p] = members[i]
    <2>1. j \in 1..3
      BY <1>0, <1>6
    <2>2. members[i] \in Of(j)
      <3>1. members[i] \in C
        BY <1>0
      <3> QED BY <1>6, <3>1 DEF Of, Selectable
    <2>3. members[i] \in {b[j][p] : p \in DOMAIN b[j]}
      BY <1>4, <2>1, <2>2
    <2> QED BY <2>3
  <1>7. AreBuckets(b, C)
    <2>1. b \in [1..3 -> Seq(C)]
      <3>1. b[1] \in Seq(C) /\ b[2] \in Seq(C) /\ b[3] \in Seq(C)
        <4>1. 1 \in 1..3 /\ 2 \in 1..3 /\ 3 \in 1..3
          OBVIOUS
        <4> QED BY <1>4, <4>1
      <3> QED BY <1>1, <3>1
    <2>2. \A j, h \in 1..3 : \A p \in DOMAIN b[j], q \in DOMAIN b[h] : b[j][p] = b[h][q] => j = h
      BY <1>5
    <2> QED BY <1>4, <2>1, <2>2 DEF AreBuckets
  <1>8. \A i \in DOMAIN members :
              \E p \in DOMAIN b[Level(m[members[i]])] : b[Level(m[members[i]])][p] = members[i]
    BY <1>6
  <1> QED BY <1>4, <1>5, <1>7, <1>8

Elements(s) == {s[i] : i \in DOMAIN s}

\* The heaviest of a group.
LEMMA TopNSpec ==
  ASSUME NEW C, NEW members, NEW m, Selectable(C, members, m),
         NEW cp \in Nat \ {0}, cp < Len(members), NEW s, s = TopN(members, m, cp)
  PROVE  /\ s \in Seq(C) /\ Len(s) = cp
         /\ \A i, j \in DOMAIN s : s[i] = s[j] => i = j
         /\ Elements(s) \subseteq Elements(members)
         /\ \A d \in Elements(members) \ Elements(s), c \in Elements(s) : ~Heavier(m[d], m[c])
  <1> DEFINE w == ByWeight(members, m)
  <1>1. w \in Seq(C) /\ SortedFrom(w, members, m)
    <2>1. members \in Seq(C) /\ (\A c \in C : m[c].wmc \in Nat \cup {None}) /\ None \notin Nat
      BY RenderingAssumption DEF RenderingAssumption, Selectable, Metrics
    <2> QED BY <2>1, ByWeightSorts
  <1>2. s = SubSeq(w, 1, cp)
    BY DEF TopN
  <1> HIDE DEF w
  <1>3. /\ Len(w) = Len(members) /\ DOMAIN w = 1..Len(w) /\ Len(w) \in Nat
        /\ Elements(w) = Elements(members)
        /\ \A i, j \in DOMAIN w : w[i] = w[j] => i = j
        /\ \A i, j \in DOMAIN w : i < j => ~Heavier(m[w[j]], m[w[i]])
    <2>1. /\ members \in Seq(C) /\ \A i, j \in DOMAIN members : members[i] = members[j] => i = j
      BY DEF Selectable
    <2>2. Len(w) = Len(members) /\ DOMAIN w = 1..Len(w) /\ Len(w) \in Nat
      BY <1>1, <2>1 DEF SortedFrom
    <2>3. Elements(w) = Elements(members)
      BY <1>1 DEF SortedFrom, Elements
    <2>4. /\ \A i, j \in DOMAIN w : w[i] = w[j] => i = j
          /\ \A i, j \in DOMAIN w : i < j => ~Heavier(m[w[j]], m[w[i]])
      BY <1>1, <2>1 DEF SortedFrom
    <2> QED BY <2>2, <2>3, <2>4
  <1>4. s \in Seq(C) /\ Len(s) = cp /\ DOMAIN s = 1..cp /\ \A i \in 1..cp : s[i] = w[i] /\ i \in DOMAIN w
    <2>1. \A i \in 1..cp : i \in DOMAIN w
      BY <1>3
    <2> QED BY <1>1, <1>2, <1>3, <2>1
  <1>5. Elements(s) \subseteq Elements(members)
    <2> SUFFICES ASSUME NEW i \in DOMAIN s PROVE s[i] \in Elements(w)
      BY <1>3 DEF Elements
    <2> QED BY <1>4 DEF Elements
  <1>6. ASSUME NEW d \in Elements(members) \ Elements(s), NEW c \in Elements(s)
        PROVE  ~Heavier(m[d], m[c])
    <2>1. PICK j \in DOMAIN w : w[j] = d
      BY <1>3 DEF Elements
    <2>2. PICK i \in DOMAIN s : s[i] = c
      BY DEF Elements
    <2>3. j \notin 1..cp
      BY <1>4, <2>1 DEF Elements
    <2>4. i < j /\ i \in DOMAIN w /\ w[i] = c
      BY <1>3, <1>4, <2>1, <2>2, <2>3
    <2> QED BY <1>3, <2>1, <2>4
  <1> QED BY <1>3, <1>4, <1>5, <1>6

\* The classes of s that are in one bucket with c.
With(s, m, c) == {e \in Elements(s) : Level(m[e]) = Level(m[c])}

\* The sample of a large group.
LEMMA SampleSpec ==
  ASSUME NEW C, NEW members, NEW m, Selectable(C, members, m), NEW cp \in Nat \ {0},
         NEW s, s = RoundRobin(Buckets(members, m), cp)
  PROVE  /\ s \in Seq(C) /\ \A i, j \in DOMAIN s : s[i] = s[j] => i = j
         /\ Elements(s) \subseteq Elements(members)
         /\ members # <<>> => s # <<>>
         /\ \A d \in Elements(members) \ Elements(s) :
              /\ Len(s) = cp
              /\ \A c \in With(s, m, d) : ~Heavier(m[d], m[c])
              /\ \A c \in Elements(s) :
                   Cardinality(With(s, m, d)) >= Cardinality(With(s, m, c)) - 1
  <1> DEFINE b == Buckets(members, m)
  <1>1. /\ AreBuckets(b, C)
        /\ \A j \in 1..3 : \A p \in DOMAIN b[j] :
              Level(m[b[j][p]]) = j /\ \E i \in DOMAIN members : members[i] = b[j][p]
        /\ \A i \in DOMAIN members :
              \E p \in DOMAIN b[Level(m[members[i]])] : b[Level(m[members[i]])][p] = members[i]
        /\ \A j \in 1..3 : \A p, q \in DOMAIN b[j] : p < q => ~Heavier(m[b[j][q]], m[b[j][p]])
    BY BucketsSpec
  <1>2. s = RoundRobin(b, cp) /\ \A x : Level(x) \in 1..3
    BY DEF Level
  <1> HIDE DEF b
  <1>3. s \in Seq(C)
    BY <1>1, <1>2, RoundRobinSpec
  <1>4. PICK k \in [1..3 -> Nat] :
          /\ Filled(s, k, b)
          /\ \A j, h \in 1..3 : k[j] < Len(b[j]) => k[j] >= k[h] - 1
          /\ Len(s) = cp \/ \A j \in 1..3 : k[j] = Len(b[j])
    BY <1>1, <1>2, RoundRobinSpec
  <1>5. \A j \in 1..3 : /\ b[j] \in Seq(C) /\ Len(b[j]) \in Nat /\ DOMAIN b[j] = 1..Len(b[j])
                        /\ k[j] \in 0..Len(b[j]) /\ \A p \in 1..k[j] : p \in DOMAIN b[j]
    <2> SUFFICES ASSUME NEW j \in 1..3
                 PROVE  /\ b[j] \in Seq(C) /\ Len(b[j]) \in Nat /\ DOMAIN b[j] = 1..Len(b[j])
                        /\ k[j] \in 0..Len(b[j]) /\ \A p \in 1..k[j] : p \in DOMAIN b[j]
      OBVIOUS
    <2>1. b[j] \in Seq(C) /\ Len(b[j]) \in Nat /\ DOMAIN b[j] = 1..Len(b[j])
      BY <1>1 DEF AreBuckets
    <2>2. k[j] \in 0..Len(b[j])
      <3>1. k[j] <= Len(b[j])
        BY <1>4 DEF Filled
      <3>2. k[j] \in Nat
        BY <1>4
      <3> QED BY <2>1, <3>1, <3>2
    <2> QED BY <2>1, <2>2
  <1>6. ASSUME NEW e \in Elements(s)
        PROVE  /\ e \in Elements(members)
               /\ \E p \in 1..k[Level(m[e])] : e = b[Level(m[e])][p]
    <2>1. PICK i \in DOMAIN s : s[i] = e
      BY DEF Elements
    <2>2. PICK j \in 1..3 : \E p \in 1..k[j] : s[i] = b[j][p]
      BY <1>4 DEF Filled
    <2>3. PICK p \in 1..k[j] : e = b[j][p] /\ p \in DOMAIN b[j]
      BY <1>5, <2>1, <2>2
    <2>4. Level(m[e]) = j
      BY <1>1, <2>3
    <2>5. e \in Elements(members)
      BY <1>1, <2>3 DEF Elements
    <2> QED BY <2>3, <2>4, <2>5
  <1>7. ASSUME NEW c \in Elements(members), NEW j, j = Level(m[c])
        PROVE  /\ j \in 1..3 /\ k[j] \in Nat
               /\ With(s, m, c) = {b[j][p] : p \in 1..k[j]}
               /\ Cardinality(With(s, m, c)) = k[j]
    <2>1. j \in 1..3 /\ k[j] \in 0..Len(b[j])
      BY <1>2, <1>5, <1>7
    <2>2. ASSUME NEW e \in With(s, m, c) PROVE e \in {b[j][p] : p \in 1..k[j]}
      BY <1>6, <1>7, <2>2 DEF With
    <2>3. ASSUME NEW p \in 1..k[j] PROVE b[j][p] \in With(s, m, c)
      <3>1. b[j][p] \in Elements(s)
        <4>1. \E i \in DOMAIN s : s[i] = b[j][p]
          BY <1>4, <2>1 DEF Filled
        <4> QED BY <4>1 DEF Elements
      <3>2. Level(m[b[j][p]]) = j
        BY <1>1, <1>5, <2>1
      <3> QED BY <1>7, <3>1, <3>2 DEF With
    <2>4. With(s, m, c) = {b[j][p] : p \in 1..k[j]}
      BY <2>2, <2>3
    <2>5. Cardinality(With(s, m, c)) = k[j]
      <3>1. b[j] \in Seq(C) /\ \A p, q \in DOMAIN b[j] : b[j][p] = b[j][q] => p = q
        BY <1>1, <2>1 DEF AreBuckets
      <3> QED BY <2>1, <2>4, <3>1, FirstsCounted
    <2> QED BY <2>1, <2>4, <2>5
  <1>8. ASSUME NEW d \in Elements(members) \ Elements(s), NEW j, j = Level(m[d])
        PROVE  /\ j \in 1..3 /\ k[j] < Len(b[j])
               /\ \E q \in DOMAIN b[j] : b[j][q] = d /\ q > k[j]
    <2>1. PICK i \in DOMAIN members : members[i] = d
      BY DEF Elements
    <2>2. PICK q \in DOMAIN b[j] : b[j][q] = d
      BY <1>1, <1>8, <2>1
    <2>3. j \in 1..3
      BY <1>2, <1>8
    <2>4. q \notin 1..k[j]
      <3>1. ASSUME q \in 1..k[j] PROVE \E x \in DOMAIN s : s[x] = b[j][q]
        BY <1>4, <2>3, <3>1 DEF Filled
      <3> QED BY <2>2, <3>1 DEF Elements
    <2>5. q \in 1..Len(b[j]) /\ k[j] \in Nat /\ Len(b[j]) \in Nat
      BY <1>5, <2>2, <2>3
    <2>6. q > k[j]
      BY <2>4, <2>5
    <2> QED BY <2>2, <2>3, <2>5, <2>6
  <1>9. ASSUME NEW d \in Elements(members) \ Elements(s)
        PROVE  /\ Len(s) = cp
               /\ \A c \in With(s, m, d) : ~Heavier(m[d], m[c])
               /\ \A c \in Elements(s) :
                    Cardinality(With(s, m, d)) >= Cardinality(With(s, m, c)) - 1
    <2> DEFINE j == Level(m[d])
    <2>1. j \in 1..3 /\ k[j] < Len(b[j])
      BY <1>8
    <2>2. PICK q \in DOMAIN b[j] : b[j][q] = d /\ q > k[j]
      BY <1>8
    <2>3. Len(s) = cp
      BY <1>4, <1>5, <2>1
    <2>4. ASSUME NEW c \in With(s, m, d) PROVE ~Heavier(m[d], m[c])
      <3>1. PICK p \in 1..k[j] : c = b[j][p]
        BY <1>7
      <3>2. p < q /\ p \in DOMAIN b[j]
        BY <1>5, <2>1, <2>2
      <3> QED BY <1>1, <2>1, <2>2, <3>1, <3>2
    <2>5. ASSUME NEW c \in Elements(s)
          PROVE  Cardinality(With(s, m, d)) >= Cardinality(With(s, m, c)) - 1
      <3> DEFINE h == Level(m[c])
      <3>1. h \in 1..3 /\ Cardinality(With(s, m, c)) = k[h]
        BY <1>6, <1>7
      <3>2. Cardinality(With(s, m, d)) = k[j]
        BY <1>7
      <3> HIDE DEF h, j
      <3> QED BY <1>4, <2>1, <3>1, <3>2
    <2> QED BY <2>3, <2>4, <2>5
  <1>10. ASSUME members # <<>> PROVE s # <<>>
    <2>1. members \in Seq(C) /\ 1 \in DOMAIN members
      BY <1>10 DEF Selectable
    <2> DEFINE j == Level(m[members[1]])
    <2>2. PICK p \in DOMAIN b[j] : b[j][p] = members[1]
      BY <1>1, <2>1
    <2>3. j \in 1..3 /\ Len(b[j]) # 0
      BY <1>2, <1>5, <2>2
    <2> HIDE DEF j
    <2>4. Len(s) # 0
      <3>1. CASE Len(s) = cp
        BY <3>1
      <3>2. CASE Len(s) # cp
        <4>1. k[j] # 0 /\ p \in 1..k[j]
          BY <1>4, <1>5, <2>2, <2>3, <3>2
        <4>2. \E i \in DOMAIN s : s[i] = b[j][p]
          BY <1>4, <2>3, <4>1 DEF Filled
        <4> QED BY <1>3, <4>2
      <3> QED BY <3>1, <3>2
    <2> QED BY <1>3, <2>4
  <1>11. \A i, j \in DOMAIN s : s[i] = s[j] => i = j
    BY <1>4 DEF Filled
  <1> QED BY <1>3, <1>6, <1>9, <1>10, <1>11

\* Whichever way is taken: classes of the group, each once, and some if it has any.
LEMMA SelectSound ==
  ASSUME NEW C, NEW members, NEW m, Selectable(C, members, m), NEW cp \in Nat \ {0},
         NEW s, s = Select(members, m, cp)
  PROVE  /\ s \in Seq(C) /\ \A i, j \in DOMAIN s : s[i] = s[j] => i = j
         /\ Elements(s) \subseteq Elements(members)
         /\ s = <<>> <=> members = <<>>
  <1>1. members \in Seq(C) /\ Len(members) \in Nat
        /\ \A i, j \in DOMAIN members : members[i] = members[j] => i = j
    BY DEF Selectable
  <1>2. CASE Len(members) <= cp
    BY <1>1, <1>2 DEF Select
  <1>3. CASE Len(members) > cp /\ Len(members) < 2 * cp
    <2>1. s = TopN(members, m, cp)
      BY <1>1, <1>3 DEF Select
    <2>2. s \in Seq(C) /\ Len(s) = cp /\ members # <<>>
      BY <1>1, <1>3, <2>1, TopNSpec
    <2>3. s # <<>>
      BY <2>2
    <2> QED BY <1>3, <2>1, <2>2, <2>3, TopNSpec
  <1>4. CASE Len(members) > cp /\ ~(Len(members) < 2 * cp)
    <2>1. s = RoundRobin(Buckets(members, m), cp)
      BY <1>1, <1>4 DEF Select
    <2>2. members # <<>>
      BY <1>1, <1>4
    <2> QED BY <2>1, <2>2, SampleSpec
  <1> QED BY <1>1, <1>2, <1>3, <1>4

(***************************************************************************)
(* Rendering                                                               *)
(***************************************************************************)
\* The selection is made once.
SelectionInv ==
  /\ corpus \in Corpora /\ cap \in Caps
  /\ selection = [g \in Groups |-> Select(Members(corpus, g), corpus.metrics, cap)]

LEMMA GroupMembers ==
  ASSUME SelectionInv, NEW g \in Groups
  PROVE  /\ Selectable(Classes, Members(corpus, g), corpus.metrics)
         /\ Elements(Members(corpus, g)) = {c \in Classes : corpus.group[c] = g}
         /\ Len(Members(corpus, g)) = Cardinality({c \in Classes : corpus.group[c] = g})
         /\ cap \in Nat \ {0}
         /\ selection[g] = Select(Members(corpus, g), corpus.metrics, cap)
  <1> DEFINE S == {c \in Classes : corpus.group[c] = g}
             N == Len(corpus.group)
  <1>1. /\ N \in Nat /\ DOMAIN corpus.metrics = Classes
        /\ \A c \in Classes : corpus.metrics[c] \in Metrics
        /\ cap \in Nat \ {0}
    BY RenderingAssumption DEF RenderingAssumption, IsCorpus, SelectionInv, Classes
  <1>2. Members(corpus, g) = Keep([c \in 1..N |-> c], S) /\ S \subseteq 1..N /\ Classes = 1..N
    BY DEF Members, Classes
  <1> DEFINE M == Members(corpus, g)
  <1>3. /\ M \in Seq(S) /\ Len(M) = Cardinality(S)
        /\ \A i, j \in DOMAIN M : M[i] = M[j] => i = j
        /\ {M[i] : i \in DOMAIN M} = S
    <2> DEFINE k == Keep([c \in 1..N |-> c], S)
    <2>1. N \in Nat /\ S \in SUBSET (1..N) /\ M = k
      BY <1>1, <1>2
    <2> HIDE DEF N, S, M
    <2>2. /\ k \in Seq(S) /\ Len(k) = Cardinality(S)
          /\ \A i, j \in DOMAIN k : k[i] = k[j] => i = j
          /\ {k[i] : i \in DOMAIN k} = S
      BY ONLY <2>1, KeepNumbers
    <2> HIDE DEF k
    <2> QED BY <2>1, <2>2
  <1>4. M \in Seq(Classes)
    <2>1. S \subseteq Classes
      OBVIOUS
    <2> HIDE DEF S, M
    <2> QED BY <1>3, <2>1
  <1>5. selection[g] = Select(M, corpus.metrics, cap)
    BY DEF SelectionInv
  <1> HIDE DEF M
  <1> QED BY <1>1, <1>3, <1>4, <1>5 DEF Selectable, Elements, M

LEMMA SelectionHolds == SelectionInv => SelectionIsSound
  <1> SUFFICES ASSUME SelectionInv PROVE SelectionIsSound
    OBVIOUS
  <1>1. ASSUME NEW g \in Groups
        PROVE  /\ selection[g] \in Seq(Classes)
               /\ \A i \in DOMAIN selection[g] : corpus.group[selection[g][i]] = g
               /\ \A i, j \in DOMAIN selection[g] : selection[g][i] = selection[g][j] => i = j
               /\ selection[g] = <<>> <=> Members(corpus, g) = <<>>
    <2> DEFINE s == selection[g]
    <2>1. /\ s \in Seq(Classes) /\ \A i, j \in DOMAIN s : s[i] = s[j] => i = j
          /\ Elements(s) \subseteq Elements(Members(corpus, g))
          /\ s = <<>> <=> Members(corpus, g) = <<>>
      <3> DEFINE M == Members(corpus, g)
                 m == corpus.metrics
                 C == Classes
      <3>1. s = Select(M, m, cap) /\ Selectable(C, M, m) /\ cap \in Nat \ {0}
        BY GroupMembers
      <3> HIDE DEF s, M, m, C
      <3>2. /\ s \in Seq(C) /\ \A i, j \in DOMAIN s : s[i] = s[j] => i = j
            /\ Elements(s) \subseteq Elements(M)
            /\ s = <<>> <=> M = <<>>
        BY ONLY <3>1, SelectSound, RenderingAssumption
      <3> QED BY <3>2 DEF M, C
    <2>2. \A i \in DOMAIN s : s[i] \in {c \in Classes : corpus.group[c] = g}
      BY <2>1, GroupMembers DEF Elements
    <2> QED BY <2>1, <2>2
  <1>2. selection \in [Groups -> Seq(Classes)]
    <2>1. selection = [g \in Groups |-> selection[g]]
      BY DEF SelectionInv
    <2> QED BY <1>1, <2>1
  <1> QED BY <1>1, <1>2 DEF SelectionIsSound

LEMMA SpreadHolds == SelectionInv => DifficultySpread
  <1> SUFFICES ASSUME SelectionInv, NEW g \in Groups, NEW d \in Left(g)
               PROVE  LET Beside(c) == {e \in Selected(g) : SameBucket(c, e)}
                      IN /\ Cardinality(Selected(g)) = cap /\ Len(selection[g]) = cap
                         /\ IF Len(Members(corpus, g)) < 2 * cap
                            THEN \A c \in Selected(g) : ~Heavier(corpus.metrics[d], corpus.metrics[c])
                            ELSE /\ \A c \in Beside(d) : ~Heavier(corpus.metrics[d], corpus.metrics[c])
                                 /\ \A c \in Selected(g) :
                                      Cardinality(Beside(d)) >= Cardinality(Beside(c)) - 1
    BY DEF DifficultySpread
  <1> DEFINE s == selection[g]
             M == Members(corpus, g)
             m == corpus.metrics
             Beside(c) == {e \in Selected(g) : SameBucket(c, e)}
  <1>1. /\ Selectable(Classes, M, m) /\ cap \in Nat \ {0}
        /\ s = Select(M, m, cap)
    BY GroupMembers
  <1>2. Selected(g) = Elements(s) /\ d \in Elements(M) \ Elements(s)
    BY DEF Selected, Left, Elements, ToSet
  <1>3. \A c : Beside(c) = With(s, m, c)
    <2>1. \A c, e : SameBucket(c, e) <=> Level(m[c]) = Level(m[e])
      BY DEF SameBucket, Level, Low
    <2> HIDE DEF s, m
    <2>2. ASSUME NEW c PROVE Beside(c) = With(s, m, c)
      BY <1>2, <2>1 DEF With
    <2> QED BY <2>2
  <1> HIDE DEF s, M, m, Beside
  <1>4. M \in Seq(Classes) /\ Len(M) \in Nat
    BY <1>1 DEF Selectable
  <1>5. s \in Seq(Classes) /\ (\A i, j \in DOMAIN s : s[i] = s[j] => i = j) /\ s # M
    <2>1. s # M
      BY <1>2
    <2> QED BY <1>1, <2>1, SelectSound
  <1>6. Len(M) > cap
    BY <1>1, <1>4, <1>5 DEF Select
  <1>7. CASE Len(M) < 2 * cap
    <2>1. s = TopN(M, m, cap)
      BY <1>1, <1>4, <1>6, <1>7 DEF Select
    <2>2. Len(s) = cap /\ \A c \in Elements(s) : ~Heavier(m[d], m[c])
      BY <1>1, <1>2, <1>6, <2>1, TopNSpec
    <2>3. Cardinality(Elements(s)) = cap
      BY <1>5, <2>2, LengthOfDistinct DEF Elements
    <2> QED BY <1>2, <1>7, <2>2, <2>3 DEF s, M, m
  <1>8. CASE ~(Len(M) < 2 * cap)
    <2>1. s = RoundRobin(Buckets(M, m), cap)
      BY <1>1, <1>4, <1>6, <1>8 DEF Select
    <2>2. /\ Len(s) = cap
          /\ \A c \in With(s, m, d) : ~Heavier(m[d], m[c])
          /\ \A c \in Elements(s) : Cardinality(With(s, m, d)) >= Cardinality(With(s, m, c)) - 1
      BY <1>1, <1>2, <2>1, SampleSpec
    <2>3. Cardinality(Elements(s)) = cap
      BY <1>5, <2>2, LengthOfDistinct DEF Elements
    <2>4. /\ \A c \in Beside(d) : ~Heavier(m[d], m[c])
          /\ \A c \in Selected(g) : Cardinality(Beside(d)) >= Cardinality(Beside(c)) - 1
      BY <1>2, <1>3, <2>2
    <2> QED BY <1>2, <1>8, <2>2, <2>3, <2>4 DEF s, M, m, Beside
  <1> QED BY <1>7, <1>8

LEMMA SelectionStays == Spec => []SelectionInv
  <1>1. Init => SelectionInv
    BY DEF Init, SelectionInv
  <1>2. SelectionInv /\ [Next]_vars => SelectionInv'
    <2> SUFFICES ASSUME SelectionInv, [Next]_vars PROVE SelectionInv'
      OBVIOUS
    <2>1. UNCHANGED <<corpus, cap, selection>>
      BY DEF Next, Assemble, Rendered, Group, Refuse, Call, CallFails, CallReturns,
             CallCollides, vars
    <2> QED BY <2>1 DEF SelectionInv, Members
  <1> QED BY <1>1, <1>2, PTL DEF Spec

\* For any corpus and cap: what is left out of a domain group, and that only
\* when the cap is used up, is never heavier than its like that is rendered, and
\* the sample of a large group spreads over the buckets of difficulty
\* (ClassSelector._apply_ladder with its two strategies).
THEOREM SamplesSpread == Spec => []DifficultySpread
  BY SelectionStays, SpreadHolds, PTL

\* How far each coroutine is, and that what it has yet to do is undone.
PlaceOK ==
  /\ SelectionIsSound
  /\ next \in [Groups -> Nat \ {0}]
  /\ state \in [Groups -> States]
  /\ outcome \in [Classes -> Outcomes]
  /\ \A g \in Groups :
       /\ state[g] = "running" => next[g] <= Len(selection[g])
       /\ state[g] = "absent" => selection[g] = <<>>
       /\ state[g] # "raised" =>
            \A i \in DOMAIN selection[g] :
              i >= next[g] => outcome[selection[g][i]] = "unrendered"

\* A file map holds what was rendered, under paths that differ, and all of it
\* unless its group has raised, which only a second class on one path makes it.
FilesOK ==
  /\ files \in [Groups -> SUBSET Classes]
  /\ \A g \in Groups :
       /\ files[g] \subseteq RenderedOf(g)
       /\ \A c, d \in files[g] : corpus.path[c] = corpus.path[d] => c = d
       /\ state[g] # "raised" => RenderedOf(g) \subseteq files[g]
       /\ state[g] = "raised" => ~Distinct(g)

\* The project is made of the maps that were returned, and is made last.
ProjectOK ==
  project # None =>
    /\ \A g \in Groups : state[g] # "running"
    /\ project.classes = UNION {files[g] : g \in {h \in Groups : state[h] = "returned"}}

IInv == PlaceOK /\ FilesOK /\ ProjectOK

LEMMA InitInv == Init => IInv
  <1> SUFFICES ASSUME Init PROVE IInv
    OBVIOUS
  <1>0. SelectionIsSound
    BY SelectionHolds DEF Init, SelectionInv
  <1>1. PlaceOK
    <2>1. \A g \in Groups : selection[g] \in Seq(Classes) /\ Len(selection[g]) \in Nat
      BY <1>0 DEF SelectionIsSound
    <2>2. /\ next \in [Groups -> Nat \ {0}] /\ state \in [Groups -> States]
          /\ outcome \in [Classes -> Outcomes]
      BY DEF Init, States, Outcomes
    <2>3. ASSUME NEW g \in Groups
          PROVE  /\ state[g] = "running" => next[g] <= Len(selection[g])
                 /\ state[g] = "absent" => selection[g] = <<>>
                 /\ \A i \in DOMAIN selection[g] : outcome[selection[g][i]] = "unrendered"
      <3>1. state[g] = IF Members(corpus, g) = <<>> THEN "absent" ELSE "running"
        BY DEF Init
      <3>2. selection[g] = <<>> <=> Members(corpus, g) = <<>>
        BY <1>0 DEF SelectionIsSound
      <3>3. next[g] = 1 /\ (selection[g] # <<>> => Len(selection[g]) >= 1)
        BY <2>1 DEF Init
      <3>4. \A i \in DOMAIN selection[g] : selection[g][i] \in Classes
        BY <2>1
      <3> QED BY <2>1, <3>1, <3>2, <3>3, <3>4 DEF Init
    <2> QED BY <1>0, <2>2, <2>3 DEF PlaceOK
  <1>2. FilesOK
    <2>1. \A g \in Groups : RenderedOf(g) = {}
      <3> SUFFICES ASSUME NEW g \in Groups, NEW c \in Selected(g) PROVE outcome[c] # "rendered"
        BY DEF RenderedOf
      <3>1. selection[g] \in Seq(Classes)
        BY <1>0 DEF SelectionIsSound
      <3>2. c \in Classes
        BY <3>1 DEF Selected, ToSet
      <3> QED BY <3>2 DEF Init
    <2> QED BY <2>1 DEF Init, FilesOK
  <1>3. ProjectOK
    BY DEF Init, ProjectOK
  <1> QED BY <1>1, <1>2, <1>3 DEF IInv

\* The class a coroutine works on is one of its group, not yet rendered.
LEMMA AtWork ==
  ASSUME IInv, NEW g \in Groups, state[g] = "running"
  PROVE  /\ next[g] \in DOMAIN selection[g]
         /\ Current(g) \in Selected(g) /\ Current(g) \in Classes
         /\ corpus.group[Current(g)] = g
         /\ outcome[Current(g)] = "unrendered"
         /\ project = None
  <1>1. selection[g] \in Seq(Classes) /\ next[g] \in Nat \ {0} /\ next[g] <= Len(selection[g])
    BY DEF IInv, PlaceOK, SelectionIsSound
  <1>2. next[g] \in DOMAIN selection[g]
    BY <1>1
  <1>3. Current(g) \in Selected(g) /\ Current(g) \in Classes
    BY <1>1, <1>2 DEF Current, Selected, ToSet
  <1>4. corpus.group[Current(g)] = g
    BY <1>2 DEF IInv, PlaceOK, SelectionIsSound, Current
  <1>5. outcome[Current(g)] = "unrendered"
    BY <1>1, <1>2 DEF IInv, PlaceOK, Current
  <1>6. project = None
    BY DEF IInv, ProjectOK
  <1> QED BY <1>2, <1>3, <1>4, <1>5, <1>6

\* Classes of one group are not those of another.
LEMMA GroupsApart ==
  ASSUME SelectionIsSound, NEW g \in Groups, NEW h \in Groups, g # h,
         NEW c \in Selected(g)
  PROVE  c \in Classes /\ corpus.group[c] = g /\ c \notin Selected(h)
  BY DEF SelectionIsSound, Selected, ToSet

LEMMA SelectionKept ==
  ASSUME SelectionIsSound, UNCHANGED <<corpus, selection>>
  PROVE  SelectionIsSound'
  <1>1. \A g \in Groups : Members(corpus, g)' = Members(corpus, g)
    OBVIOUS
  <1> QED BY <1>1 DEF SelectionIsSound, Classes

\* What a step of g that settles its class leaves of PlaceOK: it holds if g goes
\* on by Advance, or raises.
LEMMA PlaceStep ==
  ASSUME IInv, NEW g \in Groups, state[g] = "running", NEW o \in Outcomes,
         Settle(g, o), UNCHANGED <<corpus, selection>>,
         Advance(g) \/ (state' = [state EXCEPT ![g] = "raised"] /\ UNCHANGED next)
  PROVE  PlaceOK'
  <1>1. SelectionIsSound'
    BY SelectionKept DEF IInv, PlaceOK
  <1>2. outcome' = [outcome EXCEPT ![Current(g)] = o] /\ outcome' \in [Classes -> Outcomes]'
    BY DEF Settle, IInv, PlaceOK, Classes
  <1>3. next' \in [Groups -> Nat \ {0}] /\ state' \in [Groups -> States]
    BY DEF Advance, IInv, PlaceOK, States
  <1>4. ASSUME NEW h \in Groups, h # g
        PROVE  /\ next'[h] = next[h] /\ state'[h] = state[h]
               /\ \A i \in DOMAIN selection[h] :
                    outcome'[selection[h][i]] = outcome[selection[h][i]]
    <2>1. next'[h] = next[h] /\ state'[h] = state[h]
      BY <1>4 DEF Advance, IInv, PlaceOK
    <2>2. ASSUME NEW i \in DOMAIN selection[h]
          PROVE  outcome'[selection[h][i]] = outcome[selection[h][i]]
      <3>1. corpus.group[Current(g)] = g
        BY AtWork
      <3>2. corpus.group[selection[h][i]] = h
        BY DEF IInv, PlaceOK, SelectionIsSound
      <3>3. selection[h][i] # Current(g)
        BY <1>4, <3>1, <3>2
      <3>4. selection[h][i] \in Classes
        BY DEF IInv, PlaceOK, SelectionIsSound
      <3> QED BY <1>2, <3>3, <3>4 DEF IInv, PlaceOK
    <2> QED BY <2>1, <2>2
  <1>5. /\ state'[g] = "running" => next'[g] <= Len(selection[g])
        /\ state'[g] # "absent"
        /\ state'[g] # "raised" =>
             \A i \in DOMAIN selection[g] :
               i >= next'[g] => outcome'[selection[g][i]] = "unrendered"
    <2>0. /\ selection[g] \in Seq(Classes) /\ Len(selection[g]) \in Nat
          /\ next[g] \in Nat /\ next[g] <= Len(selection[g])
      BY DEF IInv, PlaceOK, SelectionIsSound
    <2>1. CASE Advance(g)
      <3>1. /\ next'[g] = next[g] + 1
            /\ state'[g] = IF next[g] = Len(selection[g]) THEN "returned" ELSE "running"
        BY <2>1 DEF Advance, IInv, PlaceOK
      <3>2. ASSUME NEW i \in DOMAIN selection[g], i >= next'[g]
            PROVE  outcome'[selection[g][i]] = "unrendered"
        <4>1. i \in Nat /\ i # next[g] /\ i >= next[g]
          BY <2>0, <3>1, <3>2
        <4>2. selection[g][i] # Current(g)
          BY <4>1, AtWork DEF Current, IInv, PlaceOK, SelectionIsSound
        <4>3. outcome[selection[g][i]] = "unrendered"
          BY <4>1 DEF IInv, PlaceOK
        <4> QED BY <1>2, <4>2, <4>3 DEF IInv, PlaceOK
      <3> QED BY <2>0, <3>1, <3>2
    <2>2. CASE state' = [state EXCEPT ![g] = "raised"] /\ UNCHANGED next
      BY <2>2 DEF IInv, PlaceOK
    <2> QED BY <2>1, <2>2
  <1>6. ASSUME NEW h \in Groups
        PROVE  /\ state'[h] = "running" => next'[h] <= Len(selection'[h])
               /\ state'[h] = "absent" => selection'[h] = <<>>
               /\ state'[h] # "raised" =>
                    \A i \in DOMAIN selection'[h] :
                      i >= next'[h] => outcome'[selection'[h][i]] = "unrendered"
    <2>1. CASE h = g
      BY <1>5, <2>1
    <2>2. CASE h # g
      BY <1>4, <2>2 DEF IInv, PlaceOK
    <2> QED BY <2>1, <2>2
  <1> QED BY <1>1, <1>2, <1>3, <1>6 DEF PlaceOK

\* The part of FilesOK about other groups than the one that moves.
LEMMA OtherFiles ==
  ASSUME IInv, NEW g \in Groups, state[g] = "running", NEW o, Settle(g, o),
         UNCHANGED <<corpus, selection>>, NEW h \in Groups, h # g
  PROVE  RenderedOf(h)' = RenderedOf(h) /\ Distinct(h)' = Distinct(h)
  <1>1. \A c \in Selected(h) : outcome'[c] = outcome[c]
    <2> TAKE c \in Selected(h)
    <2>1. c # Current(g)
      BY AtWork, GroupsApart DEF IInv, PlaceOK
    <2> QED BY <2>1 DEF Settle, IInv, PlaceOK
  <1>2. Selected(h)' = Selected(h)
    BY DEF Selected
  <1>3. RenderedOf(h)' = RenderedOf(h)
    BY <1>1, <1>2 DEF RenderedOf
  <1> QED BY <1>3 DEF Distinct

\* The classes of g that count as rendered when its class has come to o.
LEMMA OwnFiles ==
  ASSUME IInv, NEW g \in Groups, state[g] = "running", NEW o \in Outcomes, Settle(g, o),
         UNCHANGED <<corpus, selection>>
  PROVE  /\ Current(g) \notin RenderedOf(g)
         /\ RenderedOf(g)' = RenderedOf(g) \cup (IF o = "rendered" THEN {Current(g)} ELSE {})
  <1>1. Current(g) \in Selected(g) /\ Current(g) \in Classes /\ outcome[Current(g)] = "unrendered"
    BY AtWork
  <1>2. outcome' = [outcome EXCEPT ![Current(g)] = o] /\ outcome \in [Classes -> Outcomes]
    BY DEF Settle, IInv, PlaceOK
  <1>3. Selected(g)' = Selected(g)
    BY DEF Selected
  <1>4. \A c : outcome'[c] = "rendered" /\ c \in Selected(g)
               <=> c \in Selected(g) /\ (IF c = Current(g) THEN o = "rendered"
                                                         ELSE outcome[c] = "rendered")
    <2> SUFFICES ASSUME NEW c \in Selected(g)
                 PROVE  outcome'[c] = IF c = Current(g) THEN o ELSE outcome[c]
      OBVIOUS
    <2>1. c \in Classes
      BY DEF Selected, ToSet, IInv, PlaceOK, SelectionIsSound
    <2> QED BY <1>1, <1>2, <2>1
  <1> QED BY <1>1, <1>3, <1>4 DEF RenderedOf

\* A class is refused or fails: its group's map stays as it is.
LEMMA NoFileStep ==
  ASSUME IInv, NEW g \in Groups, state[g] = "running", NEW o \in {"refused", "failed"},
         Settle(g, o), Advance(g), UNCHANGED <<corpus, selection, files>>
  PROVE  FilesOK'
  <1>1. RenderedOf(g)' = RenderedOf(g)
    BY OwnFiles DEF Outcomes
  <1>2. \A h \in Groups : RenderedOf(h)' = RenderedOf(h) /\ Distinct(h)' = Distinct(h)
    BY <1>1, OtherFiles DEF Distinct
  <1>3. \A h \in Groups : state'[h] = "raised" <=> state[h] = "raised"
    BY DEF Advance, IInv, PlaceOK
  <1> QED BY <1>2, <1>3 DEF IInv, FilesOK, Classes

\* A class is rendered to a path of its own.
LEMMA FileStep == ASSUME IInv, NEW g \in Groups, CallReturns(g) PROVE FilesOK'
  <1> DEFINE c == Current(g)
  <1>1. state[g] = "running" /\ Settle(g, "rendered") /\ UNCHANGED <<corpus, selection>>
    BY DEF CallReturns, Waiting
  <1>2. RenderedOf(g)' = RenderedOf(g) \cup {c}
    BY <1>1, OwnFiles DEF Outcomes
  <1>3. files' = [files EXCEPT ![g] = @ \cup {c}] /\ files \in [Groups -> SUBSET Classes]
    BY DEF CallReturns, IInv, FilesOK
  <1>4. files' \in [Groups -> SUBSET Classes]'
    BY <1>1, <1>3, AtWork DEF Classes
  <1>5. state'[g] # "raised" /\ \A h \in Groups : h # g => state'[h] = state[h]
    BY <1>1 DEF CallReturns, Advance, IInv, PlaceOK
  <1>6. \A d \in files[g] : corpus.path[d] # corpus.path[c]
    BY DEF CallReturns, Collides
  <1>7. ASSUME NEW h \in Groups
        PROVE  /\ files'[h] \subseteq RenderedOf(h)'
               /\ \A d, e \in files'[h] : corpus'.path[d] = corpus'.path[e] => d = e
               /\ state'[h] # "raised" => RenderedOf(h)' \subseteq files'[h]
               /\ state'[h] = "raised" => ~Distinct(h)'
    <2>1. CASE h = g
      <3>1. files'[g] = files[g] \cup {c}
        BY <1>3
      <3>2. files[g] \subseteq RenderedOf(g) /\ RenderedOf(g) \subseteq files[g]
        BY <1>1 DEF IInv, FilesOK
      <3>3. \A d, e \in files[g] : corpus.path[d] = corpus.path[e] => d = e
        BY DEF IInv, FilesOK
      <3> HIDE DEF c
      <3> QED BY <1>1, <1>2, <1>5, <1>6, <2>1, <3>1, <3>2, <3>3
    <2>2. CASE h # g
      <3>1. RenderedOf(h)' = RenderedOf(h) /\ Distinct(h)' = Distinct(h)
        BY <1>1, <2>2, OtherFiles
      <3>2. files'[h] = files[h]
        BY <1>3, <2>2
      <3> QED BY <1>1, <1>5, <2>2, <3>1, <3>2 DEF IInv, FilesOK
    <2> QED BY <2>1, <2>2
  <1> QED BY <1>4, <1>7 DEF FilesOK

\* A class is rendered to the path of another, and its group raises.
LEMMA CollideStep == ASSUME IInv, NEW g \in Groups, CallCollides(g) PROVE FilesOK'
  <1> DEFINE c == Current(g)
  <1>1. state[g] = "running" /\ Settle(g, "rendered") /\ UNCHANGED <<corpus, selection, files>>
    BY DEF CallCollides, Waiting
  <1>2. RenderedOf(g)' = RenderedOf(g) \cup {c} /\ c \notin RenderedOf(g)
    BY <1>1, OwnFiles DEF Outcomes
  <1>3. \A h \in Groups : state'[h] = IF h = g THEN "raised" ELSE state[h]
    BY DEF CallCollides, IInv, PlaceOK
  <1>4. PICK d \in files[g] : corpus.path[d] = corpus.path[c]
    BY DEF CallCollides, Collides
  <1>5. files[g] = RenderedOf(g)
    BY <1>1 DEF IInv, FilesOK
  <1> HIDE DEF c
  <1>6. ~Distinct(g)'
    BY <1>1, <1>2, <1>4, <1>5 DEF Distinct
  <1>7. \A h \in Groups : h # g => RenderedOf(h)' = RenderedOf(h) /\ Distinct(h)' = Distinct(h)
    BY <1>1, OtherFiles
  <1> QED BY <1>1, <1>2, <1>3, <1>5, <1>6, <1>7 DEF IInv, FilesOK, Classes

\* The semaphore and the project have no part in the rest of the invariant.
LEMMA FilesOnly ==
  ASSUME PlaceOK, FilesOK, UNCHANGED <<corpus, selection, next, outcome, files, state>>
  PROVE  PlaceOK' /\ FilesOK'
  <1>1. PlaceOK'
    BY SelectionKept DEF PlaceOK, Classes
  <1>2. \A g \in Groups : RenderedOf(g)' = RenderedOf(g) /\ Distinct(g)' = Distinct(g)
    BY DEF RenderedOf, Selected, Distinct
  <1> QED BY <1>1, <1>2 DEF FilesOK, Classes

LEMMA GroupStep == ASSUME IInv, NEW g \in Groups, Group(g) PROVE IInv'
  <1>1. state[g] = "running"
    BY DEF Group, Refuse, Call, CallFails, CallReturns, CallCollides, Admitted, Waiting
  <1>2. ProjectOK'
    BY <1>1, AtWork
    DEF Group, Refuse, Call, CallFails, CallReturns, CallCollides, ProjectOK
  <1>3. CASE Call(g)
    <2>1. UNCHANGED <<corpus, selection, next, outcome, files, state>>
      BY <1>3 DEF Call
    <2>2. PlaceOK' /\ FilesOK'
      BY <2>1, FilesOnly DEF IInv
    <2> QED BY <1>2, <2>2 DEF IInv
  <1>4. CASE Refuse(g)
    BY <1>1, <1>2, <1>4, PlaceStep, NoFileStep DEF Refuse, IInv, Outcomes
  <1>5. CASE CallFails(g)
    BY <1>1, <1>2, <1>5, PlaceStep, NoFileStep DEF CallFails, IInv, Outcomes
  <1>6. CASE CallReturns(g)
    BY <1>1, <1>2, <1>6, PlaceStep, FileStep DEF CallReturns, IInv, Outcomes
  <1>7. CASE CallCollides(g)
    BY <1>1, <1>2, <1>7, PlaceStep, CollideStep DEF CallCollides, IInv, Outcomes
  <1> QED BY <1>3, <1>4, <1>5, <1>6, <1>7 DEF Group

LEMMA StepInv == IInv /\ [Next]_vars => IInv'
  <1> SUFFICES ASSUME IInv, [Next]_vars PROVE IInv'
    OBVIOUS
  <1>1. ASSUME NEW g \in Groups, Group(g) PROVE IInv'
    BY <1>1, GroupStep
  <1>2. CASE Assemble
    <2>1. PlaceOK' /\ FilesOK'
      BY <1>2, FilesOnly DEF Assemble, IInv
    <2>2. ProjectOK'
      BY <1>2 DEF Assemble, ProjectOK
    <2> QED BY <2>1, <2>2 DEF IInv
  <1>3. CASE UNCHANGED vars
    BY <1>3, FilesOnly DEF vars, IInv, ProjectOK
  <1> QED BY <1>1, <1>2, <1>3 DEF Next, Rendered

LEMMA RenderingInvariant == Spec => []IInv
  BY InitInv, StepInv, PTL DEF Spec

\* A coroutine leaves no class behind: it has settled those before its place, and
\* returns at the end of its list only.
SettledOK ==
  \A g \in Groups :
    /\ \A i \in DOMAIN selection[g] : i < next[g] => outcome[selection[g][i]] # "unrendered"
    /\ state[g] = "returned" => next[g] > Len(selection[g])

\* A step of g that settles its class, and goes on by Advance or raises.
LEMMA SettledStep ==
  ASSUME IInv, SettledOK, NEW g \in Groups, state[g] = "running",
         NEW o \in Outcomes \ {"unrendered"}, Settle(g, o), UNCHANGED <<corpus, selection>>,
         Advance(g) \/ (state' = [state EXCEPT ![g] = "raised"] /\ UNCHANGED next)
  PROVE  SettledOK'
  <1>1. outcome' = [outcome EXCEPT ![Current(g)] = o] /\ outcome \in [Classes -> Outcomes]
    BY DEF Settle, IInv, PlaceOK
  <1>2. \A c \in Classes : outcome[c] # "unrendered" => outcome'[c] # "unrendered"
    BY <1>1
  <1>3. outcome'[Current(g)] # "unrendered"
    BY <1>1, AtWork
  <1>4. ASSUME NEW h \in Groups
        PROVE  /\ \A i \in DOMAIN selection[h] :
                    i < next'[h] => outcome'[selection[h][i]] # "unrendered"
               /\ state'[h] = "returned" => next'[h] > Len(selection[h])
    <2>1. /\ selection[h] \in Seq(Classes) /\ Len(selection[h]) \in Nat
          /\ next[h] \in Nat
          /\ \A i \in DOMAIN selection[h] : i \in Nat /\ selection[h][i] \in Classes
      BY DEF IInv, PlaceOK, SelectionIsSound
    <2>2. CASE h = g /\ Advance(g)
      <3>1. /\ next'[h] = next[h] + 1
            /\ state'[h] = "returned" => next[h] = Len(selection[h])
        BY <2>2 DEF Advance, IInv, PlaceOK
      <3>2. ASSUME NEW i \in DOMAIN selection[h], i < next'[h]
            PROVE  outcome'[selection[h][i]] # "unrendered"
        <4>1. i < next[h] \/ i = next[h]
          BY <2>1, <3>1, <3>2
        <4> QED BY <1>2, <1>3, <2>1, <2>2, <4>1 DEF SettledOK, Current
      <3> QED BY <2>1, <3>1, <3>2
    <2>3. CASE ~(h = g /\ Advance(g))
      <3>1. next'[h] = next[h] /\ (state'[h] = "returned" => state[h] = "returned")
        BY <2>3 DEF Advance, IInv, PlaceOK
      <3> QED BY <1>2, <2>1, <3>1 DEF SettledOK
    <2> QED BY <2>2, <2>3
  <1> QED BY <1>4 DEF SettledOK

LEMMA EveryStepSettles == IInv /\ SettledOK /\ [Next]_vars => SettledOK'
  <1> SUFFICES ASSUME IInv, SettledOK, [Next]_vars PROVE SettledOK'
    OBVIOUS
  <1>1. ASSUME UNCHANGED <<selection, next, outcome, state>> PROVE SettledOK'
    BY <1>1 DEF SettledOK
  <1>2. ASSUME NEW g \in Groups, Group(g) PROVE SettledOK'
    <2>1. CASE Call(g)
      BY <1>1, <2>1 DEF Call
    <2>2. CASE Refuse(g)
      BY <2>2, SettledStep DEF Refuse, Admitted, Outcomes
    <2>3. CASE CallFails(g)
      BY <2>3, SettledStep DEF CallFails, Waiting, Outcomes
    <2>4. CASE CallReturns(g)
      BY <2>4, SettledStep DEF CallReturns, Waiting, Outcomes
    <2>5. CASE CallCollides(g)
      BY <2>5, SettledStep DEF CallCollides, Waiting, Outcomes
    <2> QED BY <1>2, <2>1, <2>2, <2>3, <2>4, <2>5 DEF Group
  <1>3. CASE Assemble
    BY <1>1, <1>3 DEF Assemble
  <1>4. CASE UNCHANGED vars
    BY <1>1, <1>4 DEF vars
  <1> QED BY <1>2, <1>3, <1>4 DEF Next, Rendered

\* For any corpus and cap, whichever requests fail or are refused and in
\* whatever order they return: every class selected of a group is tried, and one
\* that was rendered is in the project, unless two of the group have one path.
THEOREM FailuresStayPut == Spec => []FailuresIsolated
  <1>1. Init => SettledOK
    <2> SUFFICES ASSUME Init PROVE SettledOK
      OBVIOUS
    <2>1. \A g \in Groups : selection[g] \in Seq(Classes)
      BY InitInv DEF IInv, PlaceOK, SelectionIsSound
    <2>2. \A g \in Groups : next[g] = 1 /\ state[g] # "returned"
      BY DEF Init
    <2> QED BY <2>1, <2>2 DEF SettledOK
  <1>2. Spec => []SettledOK
    BY <1>1, EveryStepSettles, RenderingInvariant, PTL DEF Spec
  <1>3. IInv /\ SettledOK => FailuresIsolated
    <2> SUFFICES ASSUME IInv, SettledOK, project # None, NEW g \in Groups, Distinct(g)
                 PROVE  /\ \A c \in Selected(g) : outcome[c] # "unrendered"
                        /\ RenderedOf(g) \subseteq project.classes
      BY DEF FailuresIsolated
    <2>1. state[g] \in {"absent", "returned"} /\ RenderedOf(g) \subseteq files[g]
      BY DEF IInv, ProjectOK, FilesOK, PlaceOK, States
    <2>2. CASE state[g] = "returned"
      <3>1. RenderedOf(g) \subseteq project.classes
        BY <2>1, <2>2 DEF IInv, ProjectOK
      <3>2. ASSUME NEW i \in DOMAIN selection[g] PROVE outcome[selection[g][i]] # "unrendered"
        <4>1. /\ i \in Nat /\ i <= Len(selection[g]) /\ Len(selection[g]) \in Nat
              /\ next[g] \in Nat /\ next[g] > Len(selection[g])
          BY <2>2 DEF IInv, PlaceOK, SelectionIsSound, SettledOK
        <4>2. i < next[g]
          BY <4>1
        <4> QED BY <4>2 DEF SettledOK
      <3> QED BY <3>1, <3>2 DEF Selected, ToSet
    <2>3. CASE state[g] = "absent"
      <3>1. Selected(g) = {}
        BY <2>3 DEF IInv, PlaceOK, Selected, ToSet
      <3> QED BY <3>1 DEF RenderedOf
    <2> QED BY <2>1, <2>2, <2>3
  <1> QED BY <1>2, <1>3, RenderingInvariant, PTL

\* No file of a project replaces another, and each comes from a rendered class.
THEOREM FilesAreKept == Spec => []NoOverwrite
  <1>1. IInv => NoOverwrite
    <2> SUFFICES ASSUME IInv, project # None, NEW c \in project.classes
                 PROVE  /\ outcome[c] = "rendered"
                        /\ \A d \in project.classes :
                             corpus.group[c] = corpus.group[d] /\ corpus.path[c] = corpus.path[d]
                               => c = d
      BY DEF NoOverwrite
    <2>1. \A d \in project.classes : \E g \in Groups : d \in files[g]
      BY DEF IInv, ProjectOK
    <2>2. \A g \in Groups : \A d \in files[g] :
            outcome[d] = "rendered" /\ corpus.group[d] = g
      BY DEF IInv, FilesOK, PlaceOK, SelectionIsSound, RenderedOf, Selected, ToSet
    <2> QED BY <2>1, <2>2 DEF IInv, FilesOK
  <1> QED BY <1>1, RenderingInvariant, PTL

\* The rest of the types: a coroutine does not run past its classes, and only
\* one that runs holds a place of the semaphore.
TypeInv ==
  /\ \A g \in Groups : next[g] <= Len(selection[g]) + 1
  /\ calling \subseteq {g \in Groups : state[g] = "running"}
  /\ project \in Project \cup {None}

LEMMA TypeStep == SelectionInv /\ IInv /\ TypeInv /\ [Next]_vars => TypeInv'
  <1> SUFFICES ASSUME SelectionInv, IInv, TypeInv, [Next]_vars PROVE TypeInv'
    OBVIOUS
  <1>0. next \in [Groups -> Nat \ {0}] /\ state \in [Groups -> States]
    BY DEF IInv, PlaceOK
  <1>1. ASSUME NEW g \in Groups, Group(g) PROVE TypeInv'
    <2>1. UNCHANGED <<project, selection>>
      BY <1>1 DEF Group, Refuse, Call, CallFails, CallReturns, CallCollides
    <2>2. CASE Call(g)
      BY <2>1, <2>2 DEF Call, Admitted, TypeInv
    <2>3. CASE ~Call(g)
      <3>1. /\ state[g] = "running" /\ calling' = calling \ {g}
            /\ Advance(g) \/ (UNCHANGED next /\ state' = [state EXCEPT ![g] = "raised"])
        <4>1. CASE Refuse(g)
          BY <4>1 DEF Refuse, Admitted
        <4>2. CASE CallFails(g) \/ CallReturns(g) \/ CallCollides(g)
          BY <4>2 DEF CallFails, CallReturns, CallCollides, Waiting
        <4> QED BY <1>1, <2>3, <4>1, <4>2 DEF Group
      <3>2. \A h \in Groups : h # g => next'[h] = next[h] /\ state'[h] = state[h]
        BY <1>0, <3>1 DEF Advance
      <3>3. next'[g] <= Len(selection[g]) + 1
        <4>1. /\ Len(selection[g]) \in Nat /\ next[g] \in Nat
              /\ next[g] <= Len(selection[g])
          BY <3>1 DEF IInv, PlaceOK, SelectionIsSound
        <4>2. next'[g] \in {next[g], next[g] + 1}
          BY <1>0, <3>1 DEF Advance
        <4> QED BY <4>1, <4>2
      <3> QED BY <2>1, <3>1, <3>2, <3>3 DEF TypeInv
    <2> QED BY <2>2, <2>3
  <1>2. CASE Assemble
    <2>1. project' \in Project
      <3>1. Classes \subseteq 1..MaxClasses
        BY RenderingAssumption DEF RenderingAssumption, IsCorpus, SelectionInv, Classes
      <3>2. files \in [Groups -> SUBSET Classes]
        BY DEF IInv, FilesOK
      <3> QED BY <1>2, <3>1, <3>2 DEF Assemble, Project
    <2> QED BY <1>2, <2>1 DEF Assemble, TypeInv
  <1>3. CASE UNCHANGED vars
    BY <1>3 DEF vars, TypeInv
  <1> QED BY <1>1, <1>2, <1>3 DEF Next, Rendered

\* For any corpus, cap and semaphore: every variable keeps its type, what is
\* selected are classes of the group, each once, and no coroutine that has ended
\* keeps a place of the semaphore (_render_async, _render_group).
THEOREM RenderingTypes == Spec => []TypeOK
  <1>1. Init => TypeInv
    <2> SUFFICES ASSUME Init PROVE TypeInv
      OBVIOUS
    <2>1. selection \in [Groups -> Seq(Classes)]
      BY InitInv DEF IInv, PlaceOK, SelectionIsSound
    <2>2. \A g \in Groups : Len(selection[g]) \in Nat
      BY <2>1
    <2> QED BY <2>2 DEF Init, TypeInv
  <1>2. Spec => []TypeInv
    BY <1>1, TypeStep, SelectionStays, RenderingInvariant, PTL DEF Spec
  <1>3. SelectionInv /\ IInv /\ TypeInv => TypeOK
    <2> SUFFICES ASSUME SelectionInv, IInv, TypeInv PROVE TypeOK
      OBVIOUS
    <2>1. ASSUME NEW g \in Groups PROVE next[g] \in 1..(Len(selection[g]) + 1)
      <3>1. next[g] \in Nat \ {0} /\ Len(selection[g]) \in Nat
        BY DEF IInv, PlaceOK, SelectionIsSound
      <3> QED BY <3>1 DEF TypeInv
    <2> QED BY <2>1 DEF TypeOK, TypeInv, SelectionInv, IInv, PlaceOK, FilesOK
  <1> QED BY <1>2, <1>3, SelectionStays, RenderingInvariant, PTL

=============================================================================
