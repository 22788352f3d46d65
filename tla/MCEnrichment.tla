---------------------------- MODULE MCEnrichment ----------------------------
(***************************************************************************)
(* A graph of four nodes of every shape. The thresholds of the code (10    *)
(* nodes, 3 failures, 10 %) are scaled down to 3, 1 and 34 %, so that both *)
(* rules of D-005-6 are met on both sides.                                 *)
(***************************************************************************)
EXTENDS Enrichment

MCShapes == {"member", "normal", "oversized"}

=============================================================================
