---------------------------- MODULE MCRendering ----------------------------
(***************************************************************************)
(* Two families of corpora. Samples: one group, which caps of 2 and 3 take *)
(* through the three tiers of the selection: three or four classes of any  *)
(* of five profiles, and six of one profile for each bucket. Schedules:    *)
(* three groups on a semaphore of two places, with every collision of two  *)
(* paths, and every set of refusals unless the user groups the packages.   *)
(***************************************************************************)
EXTENDS Rendering

\* One package; packages of one vendor, one of them with a subpackage and one
\* where the others are subpackages; the same ones as a user might group them.
Shop == <<"com", "shop">>
Same == [c \in 1..6 |-> Shop]
Vendor == <<Shop \o <<"orders">>, Shop \o <<"orders", "api">>,
            Shop \o <<"billing">>, Shop \o <<"billing">>, Shop>>
ByUser == (Shop \o <<"orders">>) :> "orders" @@ (Shop \o <<"orders", "api">>) :> "billing"
            @@ (Shop \o <<"billing">>) :> "billing"

Corpus(package, mapping, metrics, path, refused) ==
  [package |-> package, mapping |-> mapping, group |-> Labels(package, mapping),
   metrics |-> metrics, path |-> path, refused |-> refused]

\* On either side of the thresholds, and without metrics. The first two are
\* both in the high bucket and differ in weight.
Profiles == {[cbo |-> 0, wmc |-> 20], [cbo |-> 5, wmc |-> 3],
             [cbo |-> 2, wmc |-> 5], [cbo |-> 1, wmc |-> 5],
             [cbo |-> 1, wmc |-> None]}

Plain == [cbo |-> 1, wmc |-> 1]

OneOfEach == {[cbo |-> 5, wmc |-> 3], [cbo |-> 2, wmc |-> 5], [cbo |-> 1, wmc |-> 5]}

SamplesOf(n, profiles) ==
  {Corpus(SubSeq(Same, 1, n), <<>>, m, [c \in 1..n |-> c], {}) : m \in [1..n -> profiles]}

Samples == SamplesOf(3, Profiles) \cup SamplesOf(4, Profiles) \cup SamplesOf(6, OneOfEach)

Schedules ==
  LET Shaped(mapping, p, r) == Corpus(Vendor, mapping, [c \in 1..5 |-> Plain], Append(p, 1), r)
      Paths == [1..4 -> {1, 2}]
  IN {Shaped(<<>>, p, r) : p \in Paths, r \in SUBSET (1..5)} \cup
       {Shaped(ByUser, p, {}) : p \in Paths}

MCCorpora == Samples \cup Schedules

=============================================================================
