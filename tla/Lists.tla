------------------------------- MODULE Lists -------------------------------
(***************************************************************************)
(* What a list is, the comprehension [x for x in s if x in S], and sums.   *)
(*                                                                         *)
(* The latter are SelectSeq with a set for a test and MapThenSumSet over   *)
(* places, written as recursive functions so that facts about them can be  *)
(* proved (ListProofs).                                                    *)
(***************************************************************************)
EXTENDS Integers, Sequences

IsList(s) == s \in Seq({s[i] : i \in DOMAIN s})

\* The elements of s that are in S, in their order.
Keep(s, S) ==
  LET kept[n \in 0..Len(s)] ==
        IF n = 0 THEN <<>>
        ELSE IF s[n] \in S THEN Append(kept[n - 1], s[n]) ELSE kept[n - 1]
  IN kept[Len(s)]

\* The sum of the elements of s at the places in S.
SumAt(s, S) ==
  LET sum[n \in 0..Len(s)] ==
        IF n = 0 THEN 0 ELSE sum[n - 1] + (IF n \in S THEN s[n] ELSE 0)
  IN sum[Len(s)]

=============================================================================
