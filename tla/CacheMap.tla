------------------------------ MODULE CacheMap ------------------------------
(***************************************************************************)
(* What the response cache promises to the processes that share it: one    *)
(* dictionary. A lookup sees the value the dictionary holds at that        *)
(* moment, a store puts a new value in the place of one, a purge forgets   *)
(* keys, and nothing else - no crash, no opening of the file, no counting  *)
(* of hits - changes what is stored: a value that was replaced or purged   *)
(* does not come back. CacheBackend is shown to implement this module.     *)
(***************************************************************************)
CONSTANTS
  Procs,    \* the processes that share the cache
  Keys,     \* the cache keys
  Values,   \* what a key may hold
  None      \* no value

VARIABLES
  store,    \* store[k]: the value under key k, or None
  seen,     \* seen[p]: what p's lookup under way has seen, or None
  used      \* the values ever stored

vars == <<store, seen, used>>

Init ==
  /\ store = [k \in Keys |-> None]
  /\ seen = [p \in Procs |-> None]
  /\ used = {}

Lookup(p, k) ==
  /\ store[k] # None
  /\ seen' = [seen EXCEPT ![p] = store[k]]
  /\ UNCHANGED <<store, used>>

\* The lookup is answered, or its process ends before it is.
Leave(p) ==
  /\ seen' = [seen EXCEPT ![p] = None]
  /\ UNCHANGED <<store, used>>

Store(k) ==
  /\ \E v \in Values \ used : /\ store' = [store EXCEPT ![k] = v]
                             /\ used' = used \cup {v}
  /\ UNCHANGED seen

Forget ==
  /\ \E S \in SUBSET Keys :
       store' = [k \in Keys |-> IF k \in S THEN None ELSE store[k]]
  /\ UNCHANGED <<seen, used>>

Next ==
  \/ \E p \in Procs : Leave(p) \/ \E k \in Keys : Lookup(p, k)
  \/ \E k \in Keys : Store(k)
  \/ Forget

Spec == Init /\ [][Next]_vars

=============================================================================
