----------------------------- MODULE MCLlmStack -----------------------------
(***************************************************************************)
(* Small batches for TLC. Three requests over two keys: 1 and 2 have equal *)
(* prompts and race on a cold key, 3 has a key of its own.                 *)
(***************************************************************************)
EXTENDS LlmStack

CONSTANTS k1, k2

MCKeyOf == [r \in 1..NumRequests |-> IF r = 3 THEN k2 ELSE k1]

=============================================================================
