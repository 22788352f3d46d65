------------------------------ MODULE MCEvals ------------------------------
(***************************************************************************)
(* Evals over two output directories, three checks that may fail and two   *)
(* evals.                                                                  *)
(***************************************************************************)
EXTENDS Evals

CONSTANT First  \* one of the directories

\* Rendered into the child "ts", and the sidecar with it, where no eval finds it.
Rendered(id) ==
  [manifest |-> "whole", graph |-> "valid", children |-> {"ts"}, source |-> TRUE,
   golden |-> FALSE, id |-> id, artefacts |-> {"graph", "llm_annotations"},
   compile_checks |-> {"typescript"}, sidecars |-> {}]

\* The second directory: a corpus with a golden and no rendering; one with the
\* id of the first; one whose sources are gone; one with a directory of somebody
\* else's in it; a graph that was damaged, one that was deleted; a run killed
\* while it wrote its manifest; no run at all.
MCDisks ==
  {[d \in Corpora |-> IF d = First THEN Rendered("a") ELSE other] : other \in
    {[Rendered("b") EXCEPT !.golden = TRUE, !.children = {}, !.compile_checks = {},
                           !.artefacts = {"graph"}],
     Rendered("a"),
     [Rendered("b") EXCEPT !.source = FALSE],
     [Rendered("b") EXCEPT !.children = {"ts", "docs"}],
     [Rendered("b") EXCEPT !.graph = "invalid"],
     [Rendered("b") EXCEPT !.graph = "missing"],
     [Rendered("b") EXCEPT !.manifest = "torn"],
     [Rendered("b") EXCEPT !.manifest = "missing"]}}

MCRequests == {{}, {"graph"}, {"ts", "go"}}

MCFilters == {CheckIds, {"reproducibility", "compile"}, CheckIds \ {"reproducibility"}}

MCFaults == {{}, {"internal_consistency"}, {"golden_graph_agreement"}}

=============================================================================
