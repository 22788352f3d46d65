--------------------------- MODULE ClassSelector ---------------------------
(***************************************************************************)
(* Which classes of a domain group get rendered: all of them up to the     *)
(* cap, the heaviest ones below twice the cap, and above that a            *)
(* round-robin over three buckets of difficulty. The ladder is that of     *)
(* ADR-009; its order by CBO and WMC together is not: the code orders by   *)
(* WMC alone.                                                              *)
(*                                                                         *)
(* A class is known by its number in the graph; members is a sequence of   *)
(* classes and m[c] the metrics of class c, either of which may be None.   *)
(***************************************************************************)
EXTENDS Integers, Sequences, FiniteSets, SequencesExt, Lists

CONSTANT None

HighCbo == 5
HighWmc == 20
LowCbo  == 1
LowWmc  == 5

Missing(x) == x.cbo = None \/ x.wmc = None

High(x) == ~Missing(x) /\ (x.cbo >= HighCbo \/ x.wmc >= HighWmc)
Low(x)  == ~Missing(x) /\ ~High(x) /\ x.cbo <= LowCbo /\ x.wmc <= LowWmc
Mid(x)  == ~High(x) /\ ~Low(x)

\* Python's sort on (wmc is None, -wmc): descending, classes without it last.
Heavier(x, y) == x.wmc # None /\ (y.wmc = None \/ x.wmc > y.wmc)

\* The sort is stable: equally heavy classes keep their order.
ByWeight(members, m) ==
  LET before(i, j) == \/ Heavier(m[members[i]], m[members[j]])
                      \/ ~Heavier(m[members[j]], m[members[i]]) /\ i < j
      place(i) == 1 + Cardinality({j \in DOMAIN members : before(j, i)})
  IN [p \in DOMAIN members |-> members[CHOOSE i \in DOMAIN members : place(i) = p]]

\* The three buckets, hardest first, each by weight.
Buckets(members, m) ==
  LET bucket(C) == ByWeight(Keep(members, C), m)
  IN <<bucket({c \in DOMAIN m : High(m[c])}),
       bucket({c \in DOMAIN m : Mid(m[c])}),
       bucket({c \in DOMAIN m : Low(m[c])})>>

\* One step of the cycle: the n-th class of the bucket, if it has one.
Take(selected, bucket, n, cap) ==
  IF n <= Len(bucket) /\ Len(selected) < cap THEN Append(selected, bucket[n]) ELSE selected

\* The n-th cycle takes the n-th class of every bucket.
Cycle(b, n, selected, cap) ==
  Take(Take(Take(selected, b[1], n, cap), b[2], n, cap), b[3], n, cap)

\* Variant: one bucket after the other, the fill that ADR-009 D-009-1 forbids.
RoundRobinSequential(buckets, cap) ==
  LET all == FlattenSeq(buckets) IN SubSeq(all, 1, IF Len(all) < cap THEN Len(all) ELSE cap)

\* Every cycle but a last, empty one selects a class, so cap cycles are enough.
RoundRobin(buckets, cap) ==
  LET filled[n \in 0..cap] == IF n = 0 THEN <<>>
                              ELSE Cycle(buckets, n, filled[n - 1], cap)
  IN filled[cap]

TopN(members, m, cap) == SubSeq(ByWeight(members, m), 1, cap)

Select(members, m, cap) ==
  IF Len(members) <= cap THEN members
  ELSE IF Len(members) < 2 * cap THEN TopN(members, m, cap)
  ELSE RoundRobin(Buckets(members, m), cap)

=============================================================================
