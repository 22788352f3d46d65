------------------------------ MODULE LlmStack ------------------------------
(***************************************************************************)
(* The LLM stack of codeograph (llm/factory.py, llm/resolver.py) under a   *)
(* concurrent batch of structured completions                              *)
(* (LlmProvider.complete_structured_many):                                 *)
(*                                                                         *)
(*    Telemetry -> Caching -> Retrying -> Ceiling -> provider              *)
(*                                                                         *)
(* Each pool thread carries one request through the layers. The threads    *)
(* share the response cache (its own lock per operation), the two counters *)
(* of the ceiling (one lock, taken once before and once after the call)    *)
(* and the telemetry file (a lock per row). Between those critical         *)
(* sections anything may happen, so each is an action of its own.          *)
(*                                                                         *)
(* A reply is named by the number of the provider call that produced it;   *)
(* its text is of no concern here. Without any ceiling the resolver leaves *)
(* the Ceiling layer out: that is MaxCalls = MaxTokens = None, where the   *)
(* counters are kept but never read.                                       *)
(***************************************************************************)
EXTENDS Lists, FiniteSets

CONSTANTS
  NumRequests,    \* length of the batch
  Keys,           \* cache keys (compute_cache_key, eight components)
  KeyOf,          \* KeyOf[r]: the key of request r; equal prompts share a key
  WarmKeys,       \* the keys earlier runs left in cache.db
  MaxCalls,       \* --max-llm-calls, or None
  MaxTokens,      \* --max-tokens-total, or None
  None,
  MaxAttempts,    \* RetryPolicy.max_attempts
  MaxConcurrent,  \* llm_concurrency: threads of the pool
  Usages          \* token totals a reply may report (0: no usage metadata)

Requests == 1..NumRequests

ASSUME StackAssumption ==
  /\ NumRequests \in Nat
  /\ IsFiniteSet(Keys)
  /\ KeyOf \in [Requests -> Keys]
  /\ WarmKeys \subseteq Keys
  /\ None \notin Nat
  /\ MaxCalls \in Nat \cup {None}
  /\ MaxTokens \in Nat \cup {None}
  /\ MaxAttempts \in Nat \ {0}
  /\ MaxConcurrent \in Nat \ {0}
  /\ Usages \subseteq Nat

-----------------------------------------------------------------------------
VARIABLES
  pc,           \* pc[r]: where the thread that carries request r is
  attempts,     \* attempts[r]: attempts of the retry loop
  held,         \* held[r]: the reply the thread has in hand
  outcome,      \* outcome[r]: what the stack gave back for r
  cache,        \* cache[k]: the reply stored under key k
  callsCount,   \* CeilingLlmProvider._calls_count
  tokensCount,  \* CeilingLlmProvider._tokens_count
  calls,        \* the calls the provider answered, in order (external)
  rejected,     \* replies the token ceiling turned into an error (history)
  rows,         \* the rows of the telemetry file, in order
  lostRows,     \* requests whose row could not be written (history)
  collected     \* how many futures the caller has taken results from

vars == <<pc, attempts, held, outcome, cache, callsCount, tokensCount, calls,
          rejected, rows, lostRows, collected>>

Absent  == -1   \* no reply
Earlier == 0    \* a reply some earlier run stored

Locations == {"queued", "lookup", "reserve", "calling", "backoff", "account",
              "store", "emit", "done"}

Answered  == {"hit", "reply"}
LlmErrors == {"LlmRateLimitExhausted", "LlmCeilingExceeded", "LlmPermanent"}
Outcomes  == Answered \cup LlmErrors \cup {"none", "unexpected"}

\* How a call ends: an error worth a retry (429, 5xx, connection), any other
\* error, a reply that parses into the schema, or one that does not (with
\* include_raw=True the parsed value is then None and nothing is raised).
Verdicts == {"transient", "permanent", "parsed", "unparsed"}
Replies  == {"parsed", "unparsed"}

CallRecords == [req : Requests, verdict : Verdicts, tokens : Nat]
RowRecords  == [req : Requests, status : {"success", "error"}, hit : BOOLEAN]

TypeOK ==
  /\ pc \in [Requests -> Locations]
  /\ attempts \in [Requests -> 0..MaxAttempts]
  /\ held \in [Requests -> Int]
  /\ outcome \in [Requests -> Outcomes]
  /\ cache \in [Keys -> Int]
  /\ callsCount \in Nat
  /\ tokensCount \in Nat
  /\ calls \in Seq(CallRecords)
  /\ rejected \subseteq Nat
  /\ rows \in Seq(RowRecords)
  /\ lostRows \subseteq Requests
  /\ collected \in 0..NumRequests

Init ==
  /\ pc = [r \in Requests |-> "queued"]
  /\ attempts = [r \in Requests |-> 0]
  /\ held = [r \in Requests |-> Absent]
  /\ outcome = [r \in Requests |-> "none"]
  /\ cache = [k \in Keys |-> IF k \in WarmKeys THEN Earlier ELSE Absent]
  /\ callsCount = 0
  /\ tokensCount = 0
  /\ calls = <<>>
  /\ rejected = {}
  /\ rows = <<>>
  /\ lostRows = {}
  /\ collected = 0

-----------------------------------------------------------------------------
Move(r, from, to) ==
  /\ pc[r] = from
  /\ pc' = [pc EXCEPT ![r] = to]

\* The thread leaves the inner layers with outcome o and reaches the telemetry
\* layer, which records answers and LlmErrors.
Surface(r, from, o) ==
  /\ Move(r, from, "emit")
  /\ outcome' = [outcome EXCEPT ![r] = o]

\* Any other exception passes the telemetry layer (it catches LlmError only)
\* and reaches the batch, which wraps it in an LlmError.
Escape(r, from) ==
  /\ Move(r, from, "done")
  /\ outcome' = [outcome EXCEPT ![r] = "unexpected"]

\* Variant: a finished request keeps its pool slot.
BusyLeaksSlots == {r \in Requests : pc[r] # "queued"}

Busy == {r \in Requests : pc[r] \notin {"queued", "done"}}

(***************************************************************************)
(* The batch: the pool takes requests in submission order; the caller      *)
(* takes results in that order too.                                        *)
(***************************************************************************)
Start(r) ==
  /\ \A q \in Requests : q < r => pc[q] # "queued"
  /\ Cardinality(Busy) < MaxConcurrent
  /\ Move(r, "queued", "lookup")
  /\ UNCHANGED <<attempts, held, outcome, cache, callsCount, tokensCount,
                 calls, rejected, rows, lostRows, collected>>

Collect ==
  /\ collected < NumRequests
  /\ pc[collected + 1] = "done"
  /\ collected' = collected + 1
  /\ UNCHANGED <<pc, attempts, held, outcome, cache, callsCount, tokensCount,
                 calls, rejected, rows, lostRows>>

(***************************************************************************)
(* CachingLlmProvider: look up, and on a miss call on and write through.   *)
(***************************************************************************)
LookupHit(r) ==
  /\ cache[KeyOf[r]] # Absent
  /\ Surface(r, "lookup", "hit")
  /\ held' = [held EXCEPT ![r] = cache[KeyOf[r]]]
  /\ UNCHANGED <<attempts, cache, callsCount, tokensCount, calls, rejected,
                 rows, lostRows, collected>>

LookupMiss(r) ==
  /\ cache[KeyOf[r]] = Absent
  /\ Move(r, "lookup", "reserve")
  /\ attempts' = [attempts EXCEPT ![r] = 1]
  /\ UNCHANGED <<held, outcome, cache, callsCount, tokensCount, calls,
                 rejected, rows, lostRows, collected>>

\* sqlite3.OperationalError, say because another process holds cache.db.
LookupFails(r) ==
  /\ Escape(r, "lookup")
  /\ UNCHANGED <<attempts, held, cache, callsCount, tokensCount, calls,
                 rejected, rows, lostRows, collected>>

Store(r) ==
  /\ Surface(r, "store", "reply")
  /\ calls[held[r]].verdict = "parsed"
  /\ cache' = [cache EXCEPT ![KeyOf[r]] = held[r]]
  /\ UNCHANGED <<attempts, held, callsCount, tokensCount, calls, rejected,
                 rows, lostRows, collected>>

\* Variant: a failed write-through is swallowed.
StoreFailsQuietly(r) ==
  /\ Surface(r, "store", "reply")
  /\ UNCHANGED <<attempts, held, cache, callsCount, tokensCount, calls,
                 rejected, rows, lostRows, collected>>

\* A value of None has no model_dump_json (AttributeError), and the put may
\* fail for any reply.
StoreFails(r) ==
  /\ Escape(r, "store")
  /\ UNCHANGED <<attempts, held, cache, callsCount, tokensCount, calls,
                 rejected, rows, lostRows, collected>>

(***************************************************************************)
(* CeilingLlmProvider: one critical section before the call, one after.    *)
(***************************************************************************)
\* Variant: the comparison is off by one.
CallAllowedOffByOne == MaxCalls = None \/ callsCount <= MaxCalls

CallAllowed == MaxCalls = None \/ callsCount < MaxCalls

Reserve(r) ==
  /\ CallAllowed
  /\ Move(r, "reserve", "calling")
  /\ callsCount' = callsCount + 1
  /\ UNCHANGED <<attempts, held, outcome, cache, tokensCount, calls, rejected,
                 rows, lostRows, collected>>

Refuse(r) ==
  /\ ~CallAllowed
  /\ Surface(r, "reserve", "LlmCeilingExceeded")
  /\ UNCHANGED <<attempts, held, cache, callsCount, tokensCount, calls,
                 rejected, rows, lostRows, collected>>

OverTokens(n) == MaxTokens # None /\ n > MaxTokens

Total(r) == tokensCount + calls[held[r]].tokens

Accept(r) ==
  /\ Move(r, "account", "store")
  /\ ~OverTokens(Total(r))
  /\ tokensCount' = Total(r)
  /\ UNCHANGED <<attempts, held, outcome, cache, callsCount, calls, rejected,
                 rows, lostRows, collected>>

\* Variant: a reply over the ceiling is not added to the total.
RejectUncounted(r) ==
  /\ Surface(r, "account", "LlmCeilingExceeded")
  /\ OverTokens(Total(r))
  /\ rejected' = rejected \cup {held[r]}
  /\ UNCHANGED <<attempts, held, cache, callsCount, tokensCount, calls, rows,
                 lostRows, collected>>

\* Variant: the reply is cached and returned before the total is compared.
RejectTooLate(r) ==
  /\ Move(r, "account", "store")
  /\ OverTokens(Total(r))
  /\ tokensCount' = Total(r)
  /\ rejected' = rejected \cup {held[r]}
  /\ UNCHANGED <<attempts, held, outcome, cache, callsCount, calls, rows,
                 lostRows, collected>>

\* The reply is paid for and counted, and dropped.
Reject(r) ==
  /\ Surface(r, "account", "LlmCeilingExceeded")
  /\ OverTokens(Total(r))
  /\ tokensCount' = Total(r)
  /\ rejected' = rejected \cup {held[r]}
  /\ UNCHANGED <<attempts, held, cache, callsCount, calls, rows, lostRows,
                 collected>>

(***************************************************************************)
(* The provider answers, and RetryingLlmProvider reacts to its error: only *)
(* a transient one is tried again, after a sleep, up to MaxAttempts times. *)
(***************************************************************************)
Record(r, v, t) ==
  calls' = Append(calls, [req |-> r, verdict |-> v, tokens |-> t])

ReplyArrives(r) ==
  /\ Move(r, "calling", "account")
  /\ \E v \in Replies, t \in Usages : Record(r, v, t)
  /\ held' = [held EXCEPT ![r] = Len(calls) + 1]
  /\ UNCHANGED <<attempts, outcome, cache, callsCount, tokensCount, rejected,
                 rows, lostRows, collected>>

TransientError(r) ==
  /\ \/ /\ attempts[r] < MaxAttempts
        /\ Move(r, "calling", "backoff")
        /\ UNCHANGED outcome
     \/ /\ attempts[r] = MaxAttempts
        /\ Surface(r, "calling", "LlmRateLimitExhausted")
  /\ Record(r, "transient", 0)
  /\ UNCHANGED <<attempts, held, cache, callsCount, tokensCount, rejected,
                 rows, lostRows, collected>>

\* Variant: every LlmError is worth another attempt.
PermanentErrorRetried(r) ==
  /\ attempts[r] < MaxAttempts
  /\ Move(r, "calling", "backoff")
  /\ Record(r, "permanent", 0)
  /\ UNCHANGED <<attempts, held, outcome, cache, callsCount, tokensCount,
                 rejected, rows, lostRows, collected>>

PermanentError(r) ==
  /\ Surface(r, "calling", "LlmPermanent")
  /\ Record(r, "permanent", 0)
  /\ UNCHANGED <<attempts, held, cache, callsCount, tokensCount, rejected,
                 rows, lostRows, collected>>

WakeUp(r) ==
  /\ Move(r, "backoff", "reserve")
  /\ attempts' = [attempts EXCEPT ![r] = @ + 1]
  /\ UNCHANGED <<held, outcome, cache, callsCount, tokensCount, calls,
                 rejected, rows, lostRows, collected>>

(***************************************************************************)
(* TelemetryLlmProvider: one row per answer or LlmError, best effort.      *)
(***************************************************************************)
\* Variant: every answer is taken for a cache hit.
RowAlwaysHit(r) == [req    |-> r,
                    status |-> IF outcome[r] \in Answered THEN "success" ELSE "error",
                    hit    |-> outcome[r] \in Answered]

Row(r) == [req    |-> r,
           status |-> IF outcome[r] \in Answered THEN "success" ELSE "error",
           hit    |-> outcome[r] = "hit"]

Emit(r) ==
  /\ Move(r, "emit", "done")
  /\ rows' = Append(rows, Row(r))
  /\ UNCHANGED <<attempts, held, outcome, cache, callsCount, tokensCount,
                 calls, rejected, lostRows, collected>>

EmitFails(r) ==
  /\ Move(r, "emit", "done")
  /\ lostRows' = lostRows \cup {r}
  /\ UNCHANGED <<attempts, held, outcome, cache, callsCount, tokensCount,
                 calls, rejected, rows, collected>>

-----------------------------------------------------------------------------
Thread(r) ==
  \/ Start(r)
  \/ LookupHit(r) \/ LookupMiss(r) \/ LookupFails(r)
  \/ Reserve(r) \/ Refuse(r)
  \/ ReplyArrives(r) \/ TransientError(r) \/ PermanentError(r) \/ WakeUp(r)
  \/ Accept(r) \/ Reject(r)
  \/ Store(r) \/ StoreFails(r)
  \/ Emit(r) \/ EmitFails(r)

\* The caller has every result: nothing more happens.
Returned ==
  /\ collected = NumRequests
  /\ UNCHANGED vars

Next == Collect \/ Returned \/ \E r \in Requests : Thread(r)

\* The operating system schedules every runnable thread, the provider answers
\* or its client times out, and a sleep ends.
Fairness ==
  /\ WF_vars(Collect)
  /\ \A r \in Requests : WF_vars(Thread(r))

Spec == Init /\ [][Next]_vars

FairSpec == Spec /\ Fairness


-----------------------------------------------------------------------------
(***************************************************************************)
(* Properties                                                              *)
(***************************************************************************)
CallsOf(r) == {n \in DOMAIN calls : calls[n].req = r}
InFlight   == {r \in Requests : pc[r] = "calling"}

\* No interleaving of the pool's threads gets more calls past the ceiling than
\* --max-llm-calls allows, retries included: the check and the increment in
\* CeilingLlmProvider are one critical section, the call itself is outside it.
CallCeiling == MaxCalls # None => Len(calls) + Cardinality(InFlight) <= MaxCalls

\* What each call cost, and the replies that some thread holds and has not
\* accounted for yet.
Costs       == [n \in DOMAIN calls |-> calls[n].tokens]
Unaccounted == {held[r] : r \in {q \in Requests : pc[q] = "account"}}

\* _tokens_count loses no reply and counts none twice, whichever threads come
\* to account for theirs in between: it is what the provider reported over all
\* the replies that some thread has accounted for.
TokenTally == tokensCount = SumAt(Costs, DOMAIN calls \ Unaccounted)

\* A request is sent to the provider again only after a transient error, and
\* at most MaxAttempts times, whatever the other threads spend meanwhile.
RetryDiscipline ==
  /\ \A m, n \in DOMAIN calls :
       m < n /\ calls[m].req = calls[n].req => calls[m].verdict = "transient"
  /\ \A r \in Requests : Cardinality(CallsOf(r)) <= MaxAttempts

\* A reply fit to be used for key k: it parsed, it answers a request with that
\* key, and its tokens were not over the ceiling when they were added up.
UsableFor(n, k) ==
  \/ n = Earlier /\ k \in WarmKeys
  \/ /\ n \in DOMAIN calls
     /\ calls[n].verdict = "parsed"
     /\ KeyOf[calls[n].req] = k
     /\ n \notin rejected

\* Concurrent misses of one key may each pay and overwrite each other's entry,
\* but neither the cache nor a caller ever gets a reply that belongs to another
\* key, that did not parse, or that the token ceiling turned into an error.
Provenance ==
  /\ \A k \in Keys : cache[k] # Absent => UsableFor(cache[k], k)
  /\ \A r \in Requests : outcome[r] \in Answered => UsableFor(held[r], KeyOf[r])

\* The telemetry file tells the truth about the money: at most one row per
\* request, a hit row only if the request cost no call, any other success row
\* only if the request's last call is the reply it was answered with, and an
\* error row only if no call of the request led to an accepted reply.
HonestTelemetry ==
  /\ \A i, j \in DOMAIN rows : rows[i].req = rows[j].req => i = j
  /\ \A i \in DOMAIN rows :
       LET r == rows[i].req
           accepted == {n \in CallsOf(r) :
                          calls[n].verdict = "parsed" /\ n \notin rejected}
       IN /\ rows[i].hit => rows[i].status = "success" /\ CallsOf(r) = {}
          /\ rows[i].status = "success" /\ ~rows[i].hit => accepted # {}
          /\ rows[i].status = "error" => accepted = {}

\* Requests with one prompt pay side by side only: once one of them has been
\* answered, by its own call or from the cache, the others that have not looked
\* up yet go no further than the cache (the answer is written through before it
\* is given, caching_llm_provider.py:79-81, and a failed write gives none).
AnsweredKeysAreFree ==
  [][\A r, q \in Requests :
       /\ KeyOf[q] = KeyOf[r] /\ outcome[r] \in Answered
       /\ pc[q] \in {"queued", "lookup"}
       => pc'[q] # "reserve"]_vars

\* Whatever fails, every request settles and the caller gets its whole list.
BatchReturns == <>(collected = NumRequests)

(***************************************************************************)
(* The promise this module implements                                      *)
(***************************************************************************)
Answers == INSTANCE PaidAnswers WITH
  status <- [r \in Requests |->
               IF pc[r] # "done" THEN "pending"
               ELSE IF outcome[r] \in Answered THEN "answered" ELSE "failed"],
  paid   <- Len(calls),
  stored <- {k \in Keys : cache[k] # Absent}

AnswersSpec == Answers!Spec

=============================================================================
