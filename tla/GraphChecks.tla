---------------------------- MODULE GraphChecks ----------------------------
(***************************************************************************)
(* The checks of the graph scorecard that look at the graph alone          *)
(* (evals/checks/graph), and how the value of a check becomes its result.  *)
(*                                                                         *)
(* A ratio is a pair [part, whole]; that of nothing counts as 1.           *)
(***************************************************************************)
EXTENDS GraphAssembler

OfKind(graph, kinds) == {n \in graph.nodes : n.kind \in kinds}

Ids(nodes) == {n.id : n \in nodes}

\* Two nodes of one kind with one id; a class without a package; a method
\* whose class is not in the graph; an unresolved call without an end.
RepeatedIds(graph) ==
  {n \in graph.nodes : \E m \in graph.nodes : m # n /\ m.kind = n.kind /\ m.id = n.id}

Unpackaged(graph) == {n \in OfKind(graph, {"class"}) : Len(n.id) < 2}

Orphans(graph) ==
  {n \in OfKind(graph, {"method"}) : BeforeHash(n.id) \notin Ids(OfKind(graph, Kinds))}

LooseCalls(graph) ==
  {e \in graph.edges : e.kind = "calls_unresolved" /\ <<>> \in {e.source, e.target}}

\* The number of violations.
InternalConsistency(graph) ==
  Cardinality(RepeatedIds(graph)) + Cardinality(Unpackaged(graph))
    + Cardinality(Orphans(graph)) + Cardinality(LooseCalls(graph))

\* Of the resolved calls, those with both ends in the graph.
RelationshipCorrectness(graph) ==
  LET calls == {e \in graph.edges : e.kind = "calls_resolved"}
      ids   == Ids(graph.nodes)
  IN [part |-> Cardinality({e \in calls : {e.source, e.target} \subseteq ids}),
      whole |-> Cardinality(calls)]

\* Of the declarations, those from the syntax tree. Only a class says where it
\* is from; any other node counts as if it were.
StructuralCompleteness(graph) ==
  LET FromTree(n) == n.kind = "class" => n.extraction_mode = "ast"
  IN [part |-> Cardinality({n \in graph.nodes : FromTree(n)}),
      whole |-> Cardinality(graph.nodes)]

-----------------------------------------------------------------------------
\* CheckResult.derive_result, for the thresholds that checks have: a ratio of
\* 1.0, a count of 0, the truth.
Full(ratio) == ratio.part = ratio.whole

Verdict(holds) == IF holds THEN "pass" ELSE "fail"

GraphVerdicts(graph) ==
  [internal_consistency     |-> Verdict(InternalConsistency(graph) = 0),
   relationship_correctness |-> Verdict(Full(RelationshipCorrectness(graph))),
   structural_completeness  |-> Verdict(Full(StructuralCompleteness(graph)))]

=============================================================================
