--------------------------- MODULE DomainGrouping ---------------------------
(***************************************************************************)
(* The domain group of a class (rendering/base.py and its two strategies): *)
(* by the segment of its package after what all packages have in common,   *)
(* or by a mapping from package prefixes that the user gives.              *)
(*                                                                         *)
(* A package is the sequence of its segments, that of a class without one  *)
(* is empty. packages[c] is the package of class c.                        *)
(***************************************************************************)
EXTENDS Integers, Sequences, SequencesExt

Misc == "misc"

\* All packages agree in their first n segments.
Agree(packages, n) ==
  \A c, d \in DOMAIN packages :
    n <= Len(packages[c]) /\ \A i \in 1..n : packages[c][i] = packages[d][i]

\* The longest common prefix has n segments.
IsCommonLength(packages, n) == Agree(packages, n) /\ ~Agree(packages, n + 1)

\* The number of segments stripped. A class alone keeps the last segment of
\* its package, if it has one.
PrefixLength(packages) ==
  LET n == CHOOSE n \in 0..Len(packages[1]) : IsCommonLength(packages, n)
  IN IF Len(packages) = 1 /\ n > 0 THEN n - 1 ELSE n

\* The segment after the first n, if there is one.
ByPrefix(n, pkg) == IF Len(pkg) > n THEN pkg[n + 1] ELSE Misc

\* The longest prefix of a package that has an entry decides; the empty one is
\* no prefix of others.
ByMapping(mapping, pkg) ==
  LET matching == {p \in DOMAIN mapping : IsPrefix(p, pkg) /\ (p = <<>> => pkg = <<>>)}
  IN IF matching = {} THEN Misc
     ELSE mapping[CHOOSE p \in matching : \A q \in matching : Len(q) <= Len(p)]

\* The label of every class. An empty mapping stands for none.
Labels(packages, mapping) ==
  [c \in DOMAIN packages |-> IF DOMAIN mapping = {} THEN ByPrefix(PrefixLength(packages), packages[c])
                             ELSE ByMapping(mapping, packages[c])]

=============================================================================
