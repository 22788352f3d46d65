--------------------------- MODULE MCRunDirectory ---------------------------
(***************************************************************************)
(* Three commands from two terminals on one output directory, with a graph *)
(* scorecard and one for a rendered target.                                *)
(***************************************************************************)
EXTENDS RunDirectory, TLC

CONSTANTS s1, s2

MCKinds == {"graph", "typescript"}

=============================================================================
