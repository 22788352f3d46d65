---------------------------- MODULE PaidAnswers ----------------------------
(***************************************************************************)
(* What the LLM stack of codeograph.llm promises to a batch of requests,   *)
(* with every thread, retry and lock left out:                             *)
(*                                                                         *)
(*   - the provider is called at most MaxCalls times;                      *)
(*   - a key enters the response cache only against a call of its own, so  *)
(*     the cache never holds more new keys than calls were paid for;       *)
(*   - a request is answered only with what the cache holds under its key  *)
(*     (the answer is written through before it is given), and once        *)
(*     settled, it stays as it settled.                                    *)
(*                                                                         *)
(* LlmStack is shown to implement this module.                             *)
(***************************************************************************)
EXTENDS Naturals, FiniteSets

CONSTANTS
  Requests,   \* the requests of the batch
  Keys,       \* the cache keys
  KeyOf,      \* KeyOf[r]: the cache key of request r
  WarmKeys,   \* the keys earlier runs left in the cache
  MaxCalls,   \* the ceiling on provider calls, or None
  None

VARIABLES
  status,     \* status[r]: "pending", then "answered" or "failed"
  paid,       \* how many calls the provider has been sent and has answered
  stored      \* the keys the cache holds

vars == <<status, paid, stored>>

Init ==
  /\ status = [r \in Requests |-> "pending"]
  /\ paid = 0
  /\ stored = WarmKeys

Pay ==
  /\ MaxCalls # None => paid < MaxCalls
  /\ paid' = paid + 1
  /\ UNCHANGED <<status, stored>>

Remember(k) ==
  /\ k \notin stored
  /\ Cardinality(stored) < Cardinality(WarmKeys) + paid
  /\ stored' = stored \cup {k}
  /\ UNCHANGED <<status, paid>>

Answer(r) ==
  /\ status[r] = "pending"
  /\ KeyOf[r] \in stored
  /\ status' = [status EXCEPT ![r] = "answered"]
  /\ UNCHANGED <<paid, stored>>

Fail(r) ==
  /\ status[r] = "pending"
  /\ status' = [status EXCEPT ![r] = "failed"]
  /\ UNCHANGED <<paid, stored>>

Next ==
  \/ Pay
  \/ \E k \in Keys : Remember(k)
  \/ \E r \in Requests : Answer(r) \/ Fail(r)

Spec == Init /\ [][Next]_vars

=============================================================================
