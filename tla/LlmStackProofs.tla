--------------------------- MODULE LlmStackProofs ---------------------------
(***************************************************************************)
(* Theorems about LlmStack, for every batch, cache, ceiling and pool size: *)
(* its types, the ceiling on calls, where replies come from; then what a   *)
(* batch spends and says it spent, its retries, the rows of its telemetry, *)
(* its token count, and that it keeps the promise of PaidAnswers.          *)
(***************************************************************************)
EXTENDS LlmStack, ListProofs

\* A thread that is about to account for a reply, or to store it, holds a
\* reply to a call of its own request.
HeldOK ==
  \A r \in Requests : pc[r] \in {"account", "store"} =>
    /\ held[r] \in DOMAIN calls
    /\ calls[held[r]].req = r
    /\ calls[held[r]].verdict \in Replies

\* A thread that sleeps before a retry has an attempt left.
RetryOK == \A r \in Requests : pc[r] = "backoff" => attempts[r] < MaxAttempts

\* A rejected reply is one its thread has already given up.
RejectedOK ==
  \A n \in rejected :
    /\ n \in DOMAIN calls
    /\ pc[calls[n].req] \in {"emit", "done"}
    /\ outcome[calls[n].req] = "LlmCeilingExceeded"

\* The provider's log gains one call of request r, answered with v.
Logs(r, v) ==
  /\ Len(calls) \in Nat
  /\ DOMAIN calls = 1..Len(calls)
  /\ Len(calls') = Len(calls) + 1
  /\ DOMAIN calls' = DOMAIN calls \cup {Len(calls) + 1}
  /\ Len(calls) + 1 \notin DOMAIN calls
  /\ \A n \in DOMAIN calls : calls'[n] = calls[n]
  /\ calls'[Len(calls) + 1].req = r
  /\ calls'[Len(calls) + 1].verdict = v

LEMMA AppendCall ==
  ASSUME NEW r \in Requests, NEW v \in Verdicts, NEW t \in Nat,
         calls \in Seq(CallRecords), Record(r, v, t)
  PROVE  calls' \in Seq(CallRecords) /\ Logs(r, v)
<1> DEFINE c == [req |-> r, verdict |-> v, tokens |-> t]
<1>1. c \in CallRecords /\ c.req = r /\ c.verdict = v
  BY DEF CallRecords
<1>2. calls' = Append(calls, c)
  BY DEF Record
<1> HIDE DEF c
<1>3. /\ calls' \in Seq(CallRecords)
      /\ Len(calls) \in Nat /\ Len(calls') = Len(calls) + 1
      /\ DOMAIN calls = 1..Len(calls) /\ DOMAIN calls' = 1..Len(calls')
      /\ \A n \in DOMAIN calls : calls'[n] = calls[n]
      /\ calls'[Len(calls) + 1] = c
  BY <1>1, <1>2
<1>4. /\ Len(calls) + 1 \notin 1..Len(calls)
      /\ 1..(Len(calls) + 1) = 1..Len(calls) \cup {Len(calls) + 1}
  BY <1>3
<1> QED
  BY <1>1, <1>3, <1>4 DEF Logs

LEMMA ReplyLogged ==
  ASSUME TypeOK, NEW r \in Requests, ReplyArrives(r)
  PROVE  \E v \in Replies : calls' \in Seq(CallRecords) /\ Logs(r, v)
<1>1. PICK v \in Replies, t \in Usages : Record(r, v, t)
  BY DEF ReplyArrives
<1> QED
  BY <1>1, AppendCall, StackAssumption DEF TypeOK, Verdicts, Replies

LEMMA TransientLogged ==
  ASSUME TypeOK, NEW r \in Requests, TransientError(r)
  PROVE  calls' \in Seq(CallRecords) /\ Logs(r, "transient")
<1>1. Record(r, "transient", 0) /\ "transient" \in Verdicts
  BY DEF TransientError, Verdicts
<1> QED
  BY <1>1, AppendCall DEF TypeOK

LEMMA PermanentLogged ==
  ASSUME TypeOK, NEW r \in Requests, PermanentError(r)
  PROVE  calls' \in Seq(CallRecords) /\ Logs(r, "permanent")
<1>1. Record(r, "permanent", 0) /\ "permanent" \in Verdicts
  BY DEF PermanentError, Verdicts
<1> QED
  BY <1>1, AppendCall DEF TypeOK

\* What the provider logged is a call record.
LEMMA LoggedCall ==
  ASSUME TypeOK, NEW n \in DOMAIN calls
  PROVE  /\ calls[n] \in CallRecords
         /\ n \in 1..Len(calls)
BY DEF TypeOK

LEMMA TypeInit == Init => TypeOK /\ HeldOK /\ RetryOK /\ RejectedOK
<1> SUFFICES ASSUME Init
             PROVE  TypeOK /\ HeldOK /\ RetryOK /\ RejectedOK
  OBVIOUS
<1>1. TypeOK
  <2>1. calls \in Seq(CallRecords) /\ rows \in Seq(RowRecords)
    BY DEF Init
  <2>2. collected \in 0..NumRequests
    BY StackAssumption DEF Init
  <2>3. pc \in [Requests -> Locations] /\ outcome \in [Requests -> Outcomes]
    BY DEF Init, Locations, Outcomes
  <2>4. attempts \in [Requests -> 0..MaxAttempts] /\ held \in [Requests -> Int]
    BY StackAssumption DEF Init, Absent
  <2>5. cache \in [Keys -> Int]
    BY DEF Init, Absent, Earlier
  <2> QED
    BY <2>1, <2>2, <2>3, <2>4, <2>5 DEF Init, TypeOK
<1>2. HeldOK /\ RetryOK /\ RejectedOK
  BY DEF Init, HeldOK, RetryOK, RejectedOK
<1> QED
  BY <1>1, <1>2

\* A thread that accounts for its reply makes a new total of it.
LEMMA TotalType ==
  ASSUME TypeOK, HeldOK, NEW r \in Requests, pc[r] = "account"
  PROVE  Total(r) \in Nat /\ held[r] \in Nat
<1>1. held[r] \in DOMAIN calls
  BY DEF HeldOK
<1>2. calls[held[r]] \in CallRecords /\ held[r] \in 1..Len(calls)
  BY <1>1, LoggedCall
<1>3. calls[held[r]].tokens \in Nat
  BY <1>2 DEF CallRecords
<1>4. tokensCount \in Nat /\ Len(calls) \in Nat
  BY DEF TypeOK
<1>5. held[r] \in Nat
  BY <1>2, <1>4
<1>6. tokensCount + calls[held[r]].tokens \in Nat
  BY <1>3, <1>4
<1> QED
  BY <1>5, <1>6 DEF Total

LEMMA TypeStep ==
  ASSUME TypeOK, HeldOK, RetryOK, NEW r \in Requests, Thread(r)
  PROVE  TypeOK'
<1> USE StackAssumption DEF Requests, Locations, Answered, LlmErrors, Outcomes,
        Move, Surface, Escape
<1>1. CASE Start(r)
  BY <1>1 DEF Start, TypeOK
<1>2. CASE LookupHit(r)
  BY <1>2 DEF LookupHit, TypeOK
<1>3. CASE LookupMiss(r)
  BY <1>3 DEF LookupMiss, TypeOK
<1>4. CASE LookupFails(r)
  BY <1>4 DEF LookupFails, TypeOK
<1>5. CASE Reserve(r)
  BY <1>5 DEF Reserve, TypeOK
<1>6. CASE Refuse(r)
  BY <1>6 DEF Refuse, TypeOK
<1>7. CASE ReplyArrives(r)
  <2>2. calls' \in Seq(CallRecords) /\ Len(calls) \in Nat
    BY <1>7, ReplyLogged DEF Logs
  <2>3. held' \in [Requests -> Int] /\ pc' \in [Requests -> Locations]
    <3>1. /\ pc' = [pc EXCEPT ![r] = "account"]
          /\ held' = [held EXCEPT ![r] = Len(calls) + 1]
      BY <1>7 DEF ReplyArrives
    <3>2. Len(calls) + 1 \in Int /\ "account" \in Locations
      BY <2>2
    <3> QED
      BY <3>1, <3>2 DEF TypeOK
  <2> QED
    BY <1>7, <2>2, <2>3 DEF ReplyArrives, TypeOK
<1>8. CASE TransientError(r)
  <2>1. calls' \in Seq(CallRecords)
    BY <1>8, TransientLogged
  <2> QED
    BY <1>8, <2>1 DEF TransientError, TypeOK
<1>9. CASE PermanentError(r)
  <2>1. calls' \in Seq(CallRecords)
    BY <1>9, PermanentLogged
  <2> QED
    BY <1>9, <2>1 DEF PermanentError, TypeOK
<1>10. CASE WakeUp(r)
  <2>1. attempts[r] \in 0..MaxAttempts /\ attempts[r] < MaxAttempts
    BY <1>10 DEF WakeUp, TypeOK, RetryOK
  <2>2. attempts[r] + 1 \in 0..MaxAttempts
    BY <2>1
  <2>3. attempts' \in [Requests -> 0..MaxAttempts]
    BY <1>10, <2>2 DEF WakeUp, TypeOK
  <2> QED
    BY <1>10, <2>3 DEF WakeUp, TypeOK
<1>11. CASE Accept(r)
  <2>1. pc[r] = "account" /\ tokensCount' = Total(r)
    BY <1>11 DEF Accept
  <2>2. tokensCount' \in Nat
    BY <2>1, TotalType
  <2> QED
    BY <1>11, <2>2 DEF Accept, TypeOK
<1>12. CASE Reject(r)
  <2>1. /\ pc[r] = "account" /\ tokensCount' = Total(r)
        /\ rejected' = rejected \cup {held[r]}
    BY <1>12 DEF Reject
  <2>2. tokensCount' \in Nat /\ held[r] \in Nat
    BY <2>1, TotalType
  <2>3. rejected' \subseteq Nat
    BY <2>1, <2>2 DEF TypeOK
  <2> QED
    BY <1>12, <2>2, <2>3 DEF Reject, TypeOK
<1>13. CASE Store(r)
  BY <1>13 DEF Store, TypeOK
<1>14. CASE StoreFails(r)
  BY <1>14 DEF StoreFails, TypeOK
<1>15. CASE Emit(r)
  <2>1. Row(r) \in RowRecords
    BY DEF Row, RowRecords
  <2>2. rows' \in Seq(RowRecords)
    BY <1>15, <2>1 DEF Emit, TypeOK
  <2> QED
    BY <1>15, <2>2 DEF Emit, TypeOK
<1>16. CASE EmitFails(r)
  BY <1>16 DEF EmitFails, TypeOK
<1> QED
  BY <1>1, <1>2, <1>3, <1>4, <1>5, <1>6, <1>7, <1>8, <1>9, <1>10, <1>11,
     <1>12, <1>13, <1>14, <1>15, <1>16 DEF Thread

\* A step of one thread leaves what the others carry alone.
LEMMA OthersKeep ==
  ASSUME TypeOK, NEW r \in Requests, Thread(r), NEW q \in Requests, q # r
  PROVE  /\ pc'[q] = pc[q] /\ outcome'[q] = outcome[q]
         /\ held'[q] = held[q] /\ attempts'[q] = attempts[q]
<1> USE DEF Move, Surface, Escape, TypeOK
<1>1. CASE Start(r) \/ LookupHit(r) \/ LookupMiss(r) \/ LookupFails(r)
  BY <1>1 DEF Start, LookupHit, LookupMiss, LookupFails
<1>2. CASE Reserve(r) \/ Refuse(r) \/ WakeUp(r)
  BY <1>2 DEF Reserve, Refuse, WakeUp
<1>3. CASE ReplyArrives(r) \/ TransientError(r) \/ PermanentError(r)
  BY <1>3 DEF ReplyArrives, TransientError, PermanentError
<1>4. CASE Accept(r) \/ Reject(r)
  BY <1>4 DEF Accept, Reject
<1>5. CASE Store(r) \/ StoreFails(r) \/ Emit(r) \/ EmitFails(r)
  BY <1>5 DEF Store, StoreFails, Emit, EmitFails
<1> QED
  BY <1>1, <1>2, <1>3, <1>4, <1>5 DEF Thread

\* Whatever step a thread takes, the log keeps what it holds, and gains at most
\* the answer to the call the thread was making.
LEMMA CallsGrow ==
  ASSUME TypeOK, NEW r \in Requests, Thread(r)
  PROVE  /\ DOMAIN calls \subseteq DOMAIN calls'
         /\ \A n \in DOMAIN calls : calls'[n] = calls[n]
         /\ \A n \in DOMAIN calls' \ DOMAIN calls :
              calls'[n].req = r /\ pc[r] = "calling"
<1>1. CASE ReplyArrives(r) \/ TransientError(r) \/ PermanentError(r)
  <2>1. pc[r] = "calling"
    BY <1>1 DEF ReplyArrives, TransientError, PermanentError, Move, Surface
  <2>2. \E v \in Verdicts : Logs(r, v)
    BY <1>1, ReplyLogged, TransientLogged, PermanentLogged DEF Replies, Verdicts
  <2> QED
    BY <2>1, <2>2 DEF Logs
<1>2. CASE UNCHANGED calls
  BY <1>2
<1>3. CASE Start(r) \/ LookupHit(r) \/ LookupMiss(r) \/ LookupFails(r)
  BY <1>2, <1>3 DEF Start, LookupHit, LookupMiss, LookupFails
<1>4. CASE Reserve(r) \/ Refuse(r) \/ WakeUp(r) \/ Accept(r) \/ Reject(r)
  BY <1>2, <1>4 DEF Reserve, Refuse, WakeUp, Accept, Reject
<1>5. CASE Store(r) \/ StoreFails(r) \/ Emit(r) \/ EmitFails(r)
  BY <1>2, <1>5 DEF Store, StoreFails, Emit, EmitFails
<1> QED
  BY <1>1, <1>3, <1>4, <1>5 DEF Thread

LEMMA HeldStep ==
  ASSUME TypeOK, HeldOK, NEW r \in Requests, Thread(r)
  PROVE  HeldOK'
<1> SUFFICES ASSUME NEW q \in Requests, pc'[q] \in {"account", "store"}
             PROVE  /\ held'[q] \in DOMAIN calls'
                    /\ calls'[held'[q]].req = q
                    /\ calls'[held'[q]].verdict \in Replies
  BY DEF HeldOK
<1>1. CASE q # r
  BY <1>1, OthersKeep, CallsGrow DEF HeldOK
<1>2. CASE q = r /\ ReplyArrives(r)
  <2>1. held'[r] = Len(calls) + 1
    BY <1>2 DEF ReplyArrives, TypeOK
  <2> QED
    BY <1>2, <2>1, ReplyLogged DEF Logs
<1>3. CASE q = r /\ ~ReplyArrives(r)
  <2>1. Accept(r)
    <3> USE <1>3 DEF Move, Surface, Escape, TypeOK
    <3>1. ~Start(r) /\ ~LookupHit(r) /\ ~LookupMiss(r) /\ ~LookupFails(r)
      BY DEF Start, LookupHit, LookupMiss, LookupFails
    <3>2. ~Reserve(r) /\ ~Refuse(r) /\ ~WakeUp(r) /\ ~Reject(r)
      BY DEF Reserve, Refuse, WakeUp, Reject
    <3>3. ~TransientError(r) /\ ~PermanentError(r)
      BY DEF TransientError, PermanentError
    <3>4. ~Store(r) /\ ~StoreFails(r) /\ ~Emit(r) /\ ~EmitFails(r)
      BY DEF Store, StoreFails, Emit, EmitFails
    <3> QED
      BY <3>1, <3>2, <3>3, <3>4 DEF Thread
  <2> QED
    BY <1>3, <2>1 DEF Accept, Move, HeldOK
<1> QED
  BY <1>1, <1>2, <1>3

LEMMA RetryStep ==
  ASSUME TypeOK, RetryOK, NEW r \in Requests, Thread(r)
  PROVE  RetryOK'
<1> USE DEF Move, Surface, Escape, RetryOK, TypeOK
<1>1. CASE Start(r) \/ LookupHit(r) \/ LookupMiss(r) \/ LookupFails(r)
  BY <1>1 DEF Start, LookupHit, LookupMiss, LookupFails
<1>2. CASE Reserve(r) \/ Refuse(r) \/ WakeUp(r)
  BY <1>2 DEF Reserve, Refuse, WakeUp
<1>3. CASE ReplyArrives(r) \/ TransientError(r) \/ PermanentError(r)
  BY <1>3 DEF ReplyArrives, TransientError, PermanentError
<1>4. CASE Accept(r) \/ Reject(r)
  BY <1>4 DEF Accept, Reject
<1>5. CASE Store(r) \/ StoreFails(r) \/ Emit(r) \/ EmitFails(r)
  BY <1>5 DEF Store, StoreFails, Emit, EmitFails
<1> QED
  BY <1>1, <1>2, <1>3, <1>4, <1>5 DEF Thread

\* Once its outcome is known, a thread only writes its row.
LEMMA Settled ==
  ASSUME TypeOK, NEW r \in Requests, Thread(r), pc[r] \in {"emit", "done"}
  PROVE  /\ Emit(r) \/ EmitFails(r)
         /\ pc'[r] = "done"
         /\ UNCHANGED <<attempts, held, outcome, cache, callsCount,
                        tokensCount, calls, rejected>>
<1> USE DEF Move, Surface, Escape
<1>1. ~Start(r) /\ ~LookupHit(r) /\ ~LookupMiss(r) /\ ~LookupFails(r)
  BY DEF Start, LookupHit, LookupMiss, LookupFails
<1>2. ~Reserve(r) /\ ~Refuse(r) /\ ~WakeUp(r) /\ ~Accept(r) /\ ~Reject(r)
  BY DEF Reserve, Refuse, WakeUp, Accept, Reject
<1>3. ~ReplyArrives(r) /\ ~TransientError(r) /\ ~PermanentError(r)
  BY DEF ReplyArrives, TransientError, PermanentError
<1>4. ~Store(r) /\ ~StoreFails(r)
  BY DEF Store, StoreFails
<1>5. Emit(r) \/ EmitFails(r)
  BY <1>1, <1>2, <1>3, <1>4 DEF Thread
<1> QED
  BY <1>5 DEF Emit, EmitFails, TypeOK

LEMMA RejectedStep ==
  ASSUME TypeOK, HeldOK, RejectedOK, NEW r \in Requests, Thread(r)
  PROVE  RejectedOK'
<1> SUFFICES ASSUME NEW n \in rejected'
             PROVE  /\ n \in DOMAIN calls'
                    /\ pc'[calls'[n].req] \in {"emit", "done"}
                    /\ outcome'[calls'[n].req] = "LlmCeilingExceeded"
  BY DEF RejectedOK
<1>1. CASE n \in rejected
  <2> DEFINE q == calls[n].req
  <2>1. n \in DOMAIN calls /\ n \in DOMAIN calls' /\ calls'[n].req = q
    BY <1>1, CallsGrow DEF RejectedOK
  <2>2. q \in Requests
    BY <2>1, LoggedCall DEF CallRecords
  <2>3. pc[q] \in {"emit", "done"} /\ outcome[q] = "LlmCeilingExceeded"
    BY <1>1 DEF RejectedOK
  <2>4. pc'[q] \in {"emit", "done"} /\ outcome'[q] = "LlmCeilingExceeded"
    <3> HIDE DEF q
    <3>1. CASE q # r
      BY <2>2, <2>3, <3>1, OthersKeep
    <3>2. CASE q = r
      BY <2>3, <3>2, Settled
    <3> QED
      BY <3>1, <3>2
  <2> QED
    BY <2>1, <2>4
<1>2. CASE n \notin rejected
  <2>1. Reject(r)
    BY <1>2 DEF Thread, Start, LookupHit, LookupMiss, LookupFails, Reserve,
       Refuse, WakeUp, ReplyArrives, TransientError, PermanentError, Accept,
       Store, StoreFails, Emit, EmitFails
  <2>2. n = held[r] /\ pc[r] = "account" /\ calls' = calls
    BY <1>2, <2>1 DEF Reject, Surface, Move
  <2>3. pc'[r] = "emit" /\ outcome'[r] = "LlmCeilingExceeded"
    BY <2>1 DEF Reject, Surface, Move, TypeOK
  <2> QED
    BY <2>2, <2>3 DEF HeldOK
<1> QED
  BY <1>1, <1>2

\* The part of the invariant that every other one leans on.
BaseInv == TypeOK /\ HeldOK /\ RetryOK /\ RejectedOK

LEMMA BaseCorrect == Spec => []BaseInv
<1>1. Init => BaseInv
  BY TypeInit DEF BaseInv
<1>2. BaseInv /\ [Next]_vars => BaseInv'
  <2> SUFFICES ASSUME BaseInv, [Next]_vars
               PROVE  BaseInv'
    OBVIOUS
  <2>1. CASE Collect
    BY <2>1, StackAssumption
    DEF Collect, BaseInv, TypeOK, HeldOK, RetryOK, RejectedOK
  <2>2. ASSUME NEW r \in Requests, Thread(r)
        PROVE  BaseInv'
    BY <2>2, TypeStep, HeldStep, RetryStep, RejectedStep DEF BaseInv
  <2>3. CASE UNCHANGED vars
    BY <2>3 DEF vars, BaseInv, TypeOK, HeldOK, RetryOK, RejectedOK
  <2> QED
    BY <2>1, <2>2, <2>3 DEF Next, Returned
<1> QED
  BY <1>1, <1>2, PTL DEF Spec

\* Every variable keeps its type, whatever the threads do.
THEOREM TypeCorrect == Spec => []TypeOK
BY BaseCorrect, PTL DEF BaseInv

-----------------------------------------------------------------------------
(***************************************************************************)
(* The call ceiling                                                        *)
(***************************************************************************)

\* What --max-llm-calls rests on: the counter is ahead of the log by exactly
\* the calls under way.
CountOK ==
  /\ callsCount = Len(calls) + Cardinality(InFlight)
  /\ MaxCalls # None => callsCount <= MaxCalls

LEMMA InFlightFinite == IsFiniteSet(InFlight)
<1>1. IsFiniteSet(Requests)
  BY FS_Interval, StackAssumption DEF Requests
<1> QED
  BY <1>1, FS_Subset DEF InFlight

LEMMA CountInit == Init => CountOK
<1> SUFFICES ASSUME Init PROVE CountOK
  OBVIOUS
<1>1. InFlight = {}
  BY DEF Init, InFlight
<1>2. Cardinality(InFlight) = 0
  BY <1>1, FS_EmptySet
<1>3. Len(calls) = 0
  BY DEF Init
<1>4. MaxCalls # None => MaxCalls \in Nat
  BY StackAssumption
<1> QED
  BY <1>2, <1>3, <1>4 DEF Init, CountOK

LEMMA CountStep ==
  ASSUME TypeOK, CountOK, NEW r \in Requests, Thread(r)
  PROVE  CountOK'
<1> DEFINE Same == InFlight' = InFlight
<1>0. Len(calls) \in Nat /\ Cardinality(InFlight) \in Nat /\ callsCount \in Nat
  BY InFlightFinite, FS_CardinalityType DEF TypeOK
<1>1. CASE Reserve(r)
  <2>1. InFlight' = InFlight \cup {r} /\ r \notin InFlight
    BY <1>1 DEF Reserve, Move, InFlight, TypeOK
  <2>2. Cardinality(InFlight') = Cardinality(InFlight) + 1
    BY <2>1, InFlightFinite, FS_AddElement
  <2>3. MaxCalls # None => MaxCalls \in Nat /\ callsCount < MaxCalls
    BY <1>1, StackAssumption DEF Reserve, CallAllowed
  <2>4. callsCount' = callsCount + 1 /\ calls' = calls
    BY <1>1 DEF Reserve
  <2> QED
    BY <1>0, <2>2, <2>3, <2>4 DEF CountOK
<1>2. CASE ReplyArrives(r) \/ TransientError(r) \/ PermanentError(r)
  <2>1. InFlight' = InFlight \ {r} /\ r \in InFlight
    BY <1>2 DEF ReplyArrives, TransientError, PermanentError, Move, Surface,
       InFlight, TypeOK
  <2>2. Cardinality(InFlight') = Cardinality(InFlight) - 1
    BY <2>1, InFlightFinite, FS_RemoveElement
  <2>3. Len(calls') = Len(calls) + 1
    BY <1>2, ReplyLogged, TransientLogged, PermanentLogged DEF Logs
  <2>4. callsCount' = callsCount
    BY <1>2 DEF ReplyArrives, TransientError, PermanentError
  <2> QED
    BY <1>0, <2>2, <2>3, <2>4 DEF CountOK
<1>3. CASE Start(r) \/ LookupHit(r) \/ LookupMiss(r) \/ LookupFails(r)
  <2>1. Same
    BY <1>3 DEF Start, LookupHit, LookupMiss, LookupFails, Move, Surface,
       Escape, InFlight, TypeOK
  <2> QED
    BY <1>3, <2>1 DEF Start, LookupHit, LookupMiss, LookupFails, CountOK
<1>4. CASE Refuse(r) \/ WakeUp(r) \/ Accept(r) \/ Reject(r)
  <2>1. Same
    BY <1>4 DEF Refuse, WakeUp, Accept, Reject, Move, Surface, InFlight, TypeOK
  <2> QED
    BY <1>4, <2>1 DEF Refuse, WakeUp, Accept, Reject, CountOK
<1>5. CASE Store(r) \/ StoreFails(r) \/ Emit(r) \/ EmitFails(r)
  <2>1. Same
    BY <1>5 DEF Store, StoreFails, Emit, EmitFails, Move, Surface, Escape,
       InFlight, TypeOK
  <2> QED
    BY <1>5, <2>1 DEF Store, StoreFails, Emit, EmitFails, CountOK
<1> QED
  BY <1>1, <1>2, <1>3, <1>4, <1>5 DEF Thread

\* No interleaving of the pool's threads sends or has under way more provider
\* calls than --max-llm-calls allows, retries included
\* (CeilingLlmProvider.complete_structured).
THEOREM CeilingHolds == Spec => []CallCeiling
<1>1. Init => CountOK
  BY CountInit
<1>2. BaseInv /\ CountOK /\ [Next]_vars => CountOK'
  <2> SUFFICES ASSUME BaseInv, CountOK, [Next]_vars
               PROVE  CountOK'
    OBVIOUS
  <2>1. CASE Collect
    BY <2>1 DEF Collect, CountOK, InFlight
  <2>2. ASSUME NEW r \in Requests, Thread(r)
        PROVE  CountOK'
    BY <2>2, CountStep DEF BaseInv
  <2>3. CASE UNCHANGED vars
    BY <2>3 DEF vars, CountOK, InFlight
  <2> QED
    BY <2>1, <2>2, <2>3 DEF Next, Returned
<1>3. CountOK => CallCeiling
  BY DEF CountOK, CallCeiling
<1> QED
  BY <1>1, <1>2, <1>3, BaseCorrect, PTL DEF Spec

-----------------------------------------------------------------------------
(***************************************************************************)
(* Provenance                                                              *)
(***************************************************************************)

\* A reply that may be used for key k for good: usable, and its own thread has
\* settled, so that no later accounting can still reject it.
FinalFor(n, k) ==
  \/ n = Earlier /\ k \in WarmKeys
  \/ /\ n \in DOMAIN calls
     /\ calls[n].verdict = "parsed"
     /\ KeyOf[calls[n].req] = k
     /\ n \notin rejected
     /\ pc[calls[n].req] \in {"emit", "done"}

CacheOK == \A k \in Keys : cache[k] # Absent => FinalFor(cache[k], k)

AnswerOK ==
  \A r \in Requests : outcome[r] \in Answered =>
    pc[r] \in {"emit", "done"} /\ FinalFor(held[r], KeyOf[r])

\* A settled reply stays what it is.
LEMMA FinalStays ==
  ASSUME BaseInv, NEW r \in Requests, Thread(r), NEW n, NEW k, FinalFor(n, k)
  PROVE  FinalFor(n, k)'
<1>1. CASE n = Earlier /\ k \in WarmKeys
  BY <1>1 DEF FinalFor
<1>2. CASE ~(n = Earlier /\ k \in WarmKeys)
  <2> DEFINE q == calls[n].req
  <2>1. /\ n \in DOMAIN calls /\ calls[n].verdict = "parsed" /\ KeyOf[q] = k
        /\ n \notin rejected /\ pc[q] \in {"emit", "done"}
    BY <1>2 DEF FinalFor
  <2>2. n \in DOMAIN calls' /\ calls'[n] = calls[n]
    BY <2>1, CallsGrow DEF BaseInv
  <2>3. q \in Requests
    BY <2>1, LoggedCall DEF CallRecords, BaseInv
  <2>4. pc'[q] \in {"emit", "done"}
    <3> HIDE DEF q
    <3>1. CASE q # r
      BY <2>1, <2>3, <3>1, OthersKeep DEF BaseInv
    <3>2. CASE q = r
      BY <2>1, <3>2, Settled DEF BaseInv
    <3> QED
      BY <3>1, <3>2
  <2>5. n \notin rejected'
    <3>1. CASE Reject(r)
      <4>1. pc[r] = "account" /\ rejected' = rejected \cup {held[r]}
        BY <3>1 DEF Reject, Surface, Move
      <4>2. calls[held[r]].req = r
        BY <4>1 DEF BaseInv, HeldOK
      <4>3. n # held[r]
        BY <2>1, <4>1, <4>2
      <4> QED
        BY <2>1, <4>1, <4>3
    <3>2. CASE ~Reject(r)
      <4>1. rejected' = rejected
        BY <3>2 DEF Thread, Start, LookupHit, LookupMiss, LookupFails, Reserve,
           Refuse, WakeUp, ReplyArrives, TransientError, PermanentError,
           Accept, Store, StoreFails, Emit, EmitFails
      <4> QED
        BY <2>1, <4>1
    <3> QED
      BY <3>1, <3>2
  <2> QED
    BY <2>1, <2>2, <2>4, <2>5 DEF FinalFor
<1> QED
  BY <1>1, <1>2

\* What Store writes is final: its thread accounted for it and settles now.
LEMMA StoredIsFinal ==
  ASSUME BaseInv, NEW r \in Requests, Store(r)
  PROVE  FinalFor(held[r], KeyOf[r])'
<1>1. /\ pc[r] = "store" /\ pc'[r] = "emit" /\ calls' = calls
      /\ rejected' = rejected /\ held' = held
      /\ calls[held[r]].verdict = "parsed"
  BY DEF Store, Surface, Move, BaseInv, TypeOK
<1>2. held[r] \in DOMAIN calls /\ calls[held[r]].req = r
  BY <1>1 DEF BaseInv, HeldOK
<1>3. held[r] \notin rejected
  BY <1>1, <1>2 DEF BaseInv, RejectedOK
<1> QED
  BY <1>1, <1>2, <1>3 DEF FinalFor

LEMMA CacheStep ==
  ASSUME BaseInv, CacheOK, NEW r \in Requests, Thread(r)
  PROVE  CacheOK'
<1> SUFFICES ASSUME NEW k \in Keys, cache'[k] # Absent
             PROVE  FinalFor(cache[k], k)'
  BY DEF CacheOK
<1>1. CASE cache'[k] = cache[k]
  <2>1. FinalFor(cache[k], k)
    BY <1>1 DEF CacheOK
  <2> QED
    BY <1>1, <2>1, FinalStays DEF FinalFor
<1>2. CASE cache'[k] # cache[k]
  <2>1. Store(r)
    BY <1>2 DEF Thread, Start, LookupHit, LookupMiss, LookupFails, Reserve,
       Refuse, WakeUp, ReplyArrives, TransientError, PermanentError, Accept,
       Reject, StoreFails, Emit, EmitFails
  <2>2. k = KeyOf[r] /\ cache'[k] = held[r] /\ held' = held
    BY <1>2, <2>1 DEF Store, BaseInv, TypeOK
  <2> QED
    BY <2>1, <2>2, StoredIsFinal DEF FinalFor
<1> QED
  BY <1>1, <1>2

LEMMA AnswerStep ==
  ASSUME BaseInv, CacheOK, AnswerOK, NEW r \in Requests, Thread(r)
  PROVE  AnswerOK'
<1> SUFFICES ASSUME NEW q \in Requests, outcome'[q] \in Answered
             PROVE  /\ pc'[q] \in {"emit", "done"}
                    /\ FinalFor(held[q], KeyOf[q])'
  BY DEF AnswerOK
<1>1. CASE /\ outcome[q] \in Answered /\ held'[q] = held[q]
           /\ pc'[q] \in {"emit", "done"}
  <2>1. FinalFor(held[q], KeyOf[q])
    BY <1>1 DEF AnswerOK
  <2>2. PICK n : n = held[q]
    OBVIOUS
  <2>3. FinalFor(n, KeyOf[q])'
    BY <2>1, <2>2, FinalStays DEF FinalFor
  <2> QED
    BY <1>1, <2>2, <2>3 DEF FinalFor
<1>2. CASE q # r
  BY <1>1, <1>2, OthersKeep DEF AnswerOK, BaseInv
<1>3. CASE q = r /\ outcome[r] \in Answered
  BY <1>1, <1>3, Settled DEF AnswerOK, BaseInv
<1>4. CASE q = r /\ Store(r)
  BY <1>4, StoredIsFinal DEF Store, Surface, Move, BaseInv, TypeOK
<1>5. CASE q = r /\ LookupHit(r)
  <2>1. /\ pc'[r] = "emit" /\ held'[r] = cache[KeyOf[r]]
        /\ cache[KeyOf[r]] # Absent
    BY <1>5 DEF LookupHit, Surface, Move, BaseInv, TypeOK
  <2>2. FinalFor(cache[KeyOf[r]], KeyOf[r])
    BY <2>1, StackAssumption DEF CacheOK
  <2>3. PICK n : n = cache[KeyOf[r]]
    OBVIOUS
  <2>4. FinalFor(n, KeyOf[r])'
    BY <2>2, <2>3, FinalStays DEF FinalFor
  <2> QED
    BY <1>5, <2>1, <2>3, <2>4 DEF FinalFor
<1>6. CASE q = r /\ outcome[r] \notin Answered /\ ~Store(r) /\ ~LookupHit(r)
  <2> USE <1>6 DEF Move, Surface, Escape, Answered, BaseInv, TypeOK
  <2>1. ~Start(r) /\ ~LookupMiss(r) /\ ~LookupFails(r)
    BY DEF Start, LookupMiss, LookupFails
  <2>2. ~Reserve(r) /\ ~Refuse(r) /\ ~WakeUp(r) /\ ~Accept(r) /\ ~Reject(r)
    BY DEF Reserve, Refuse, WakeUp, Accept, Reject
  <2>3. ~ReplyArrives(r) /\ ~TransientError(r) /\ ~PermanentError(r)
    BY DEF ReplyArrives, TransientError, PermanentError
  <2>4. ~StoreFails(r) /\ ~Emit(r) /\ ~EmitFails(r)
    BY DEF StoreFails, Emit, EmitFails
  <2> QED
    BY <2>1, <2>2, <2>3, <2>4 DEF Thread
<1> QED
  BY <1>2, <1>3, <1>4, <1>5, <1>6

LEMMA UsesCorrect == Spec => [](CacheOK /\ AnswerOK)
<1>1. Init => CacheOK /\ AnswerOK
  <2> SUFFICES ASSUME Init PROVE CacheOK /\ AnswerOK
    OBVIOUS
  <2>1. CacheOK
    BY DEF Init, CacheOK, FinalFor
  <2>2. AnswerOK
    BY DEF Init, AnswerOK, Answered
  <2> QED
    BY <2>1, <2>2
<1>2. BaseInv /\ CacheOK /\ AnswerOK /\ [Next]_vars => CacheOK' /\ AnswerOK'
  <2> SUFFICES ASSUME BaseInv, CacheOK, AnswerOK, [Next]_vars
               PROVE  CacheOK' /\ AnswerOK'
    OBVIOUS
  <2>1. CASE Collect
    BY <2>1 DEF Collect, CacheOK, AnswerOK, FinalFor
  <2>2. ASSUME NEW r \in Requests, Thread(r)
        PROVE  CacheOK' /\ AnswerOK'
    BY <2>2, CacheStep, AnswerStep
  <2>3. CASE UNCHANGED vars
    BY <2>3 DEF vars, CacheOK, AnswerOK, FinalFor
  <2> QED
    BY <2>1, <2>2, <2>3 DEF Next, Returned
<1> QED
  BY <1>1, <1>2, BaseCorrect, PTL DEF Spec

\* Neither the cache nor a caller ever gets a reply to another key, one that
\* did not parse, or one the token ceiling turned into an error
\* (CachingLlmProvider over CeilingLlmProvider).
THEOREM ProvenanceHolds == Spec => []Provenance
<1>1. CacheOK /\ AnswerOK => Provenance
  BY DEF CacheOK, AnswerOK, FinalFor, Provenance, UsableFor
<1> QED
  BY <1>1, UsesCorrect, PTL

(***************************************************************************)
(* Retries                                                                 *)
(***************************************************************************)

\* Every call of r so far failed in a way worth another attempt.
OnlyTransient(r) == \A n \in CallsOf(r) : calls[n].verdict = "transient"

\* The attempts of the retry loop and the calls in the provider's log agree,
\* wherever the thread is.
AttemptsOK ==
  \A r \in Requests :
    /\ pc[r] \in {"queued", "lookup"} => CallsOf(r) = {}
    /\ pc[r] \in {"reserve", "calling"} =>
         OnlyTransient(r) /\ Cardinality(CallsOf(r)) + 1 = attempts[r]
    /\ pc[r] = "backoff" =>
         OnlyTransient(r) /\ Cardinality(CallsOf(r)) = attempts[r]
    /\ Cardinality(CallsOf(r)) <= MaxAttempts

InOrder ==
  \A m, n \in DOMAIN calls :
    m < n /\ calls[m].req = calls[n].req => calls[m].verdict = "transient"

LEMMA CallsFinite ==
  ASSUME TypeOK, NEW r \in Requests
  PROVE  /\ IsFiniteSet(CallsOf(r))
         /\ Cardinality(CallsOf(r)) \in Nat
<1>1. Len(calls) \in Nat /\ DOMAIN calls = 1..Len(calls)
  BY DEF TypeOK
<1>2. IsFiniteSet(1..Len(calls))
  BY <1>1, FS_Interval
<1>3. CallsOf(r) \subseteq 1..Len(calls)
  BY <1>1 DEF CallsOf
<1>4. IsFiniteSet(CallsOf(r))
  BY <1>2, <1>3, FS_Subset
<1> QED
  BY <1>4, FS_CardinalityType

\* A step of r changes the calls of no other request, and its own only by the
\* answer to the call it was making.
LEMMA CallsOfStep ==
  ASSUME TypeOK, NEW r \in Requests, Thread(r), NEW q \in Requests,
         q # r \/ pc[r] # "calling"
  PROVE  /\ CallsOf(q)' = CallsOf(q)
         /\ \A n \in CallsOf(q) : calls'[n] = calls[n]
BY CallsGrow DEF CallsOf

\* An answered call is the one more call of its request.
LEMMA CallsOfLogged ==
  ASSUME TypeOK, NEW r \in Requests, NEW v, Logs(r, v)
  PROVE  /\ CallsOf(r)' = CallsOf(r) \cup {Len(calls) + 1}
         /\ Cardinality(CallsOf(r)') = Cardinality(CallsOf(r)) + 1
         /\ \A n \in CallsOf(r) : calls'[n] = calls[n]
<1>1. /\ CallsOf(r)' = CallsOf(r) \cup {Len(calls) + 1}
      /\ Len(calls) + 1 \notin CallsOf(r)
      /\ \A n \in CallsOf(r) : calls'[n] = calls[n]
  BY DEF Logs, CallsOf
<1>2. Cardinality(CallsOf(r) \cup {Len(calls) + 1}) = Cardinality(CallsOf(r)) + 1
  BY <1>1, CallsFinite, FS_AddElement
<1> QED
  BY <1>1, <1>2

\* What is left to do for a thread between calls.
LEMMA AttemptsQuiet ==
  ASSUME BaseInv, AttemptsOK, NEW r \in Requests, Thread(r), pc[r] # "calling"
  PROVE  AttemptsOK'
<1> SUFFICES ASSUME NEW q \in Requests
             PROVE  /\ pc'[q] \in {"queued", "lookup"} => CallsOf(q)' = {}
                    /\ pc'[q] \in {"reserve", "calling"} =>
                         /\ OnlyTransient(q)'
                         /\ Cardinality(CallsOf(q)') + 1 = attempts'[q]
                    /\ pc'[q] = "backoff" =>
                         OnlyTransient(q)' /\ Cardinality(CallsOf(q)') = attempts'[q]
                    /\ Cardinality(CallsOf(q)') <= MaxAttempts
  BY DEF AttemptsOK
<1>1. /\ CallsOf(q)' = CallsOf(q)
      /\ OnlyTransient(q) => OnlyTransient(q)'
  BY CallsOfStep DEF OnlyTransient, BaseInv
<1>2. CASE q # r
  BY <1>1, <1>2, OthersKeep DEF AttemptsOK, BaseInv
<1>3. CASE q = r
  <2>1. CASE Start(r)
    BY <1>1, <1>3, <2>1 DEF Start, Move, AttemptsOK, BaseInv, TypeOK
  <2>2. CASE LookupMiss(r)
    <3>1. CallsOf(r) = {} /\ pc'[r] = "reserve" /\ attempts'[r] = 1
      BY <2>2 DEF LookupMiss, Move, AttemptsOK, BaseInv, TypeOK
    <3>2. Cardinality(CallsOf(r)) = 0
      BY <3>1, FS_EmptySet
    <3> QED
      BY <1>1, <1>3, <3>1, <3>2 DEF AttemptsOK, OnlyTransient
  <2>3. CASE Reserve(r)
    BY <1>1, <1>3, <2>3 DEF Reserve, Move, AttemptsOK, BaseInv, TypeOK
  <2>4. CASE WakeUp(r)
    BY <1>1, <1>3, <2>4 DEF WakeUp, Move, AttemptsOK, BaseInv, TypeOK
  <2>5. CASE pc'[r] \in {"emit", "done", "store"}
    BY <1>1, <1>3, <2>5 DEF AttemptsOK
  <2>6. CASE /\ ~Start(r) /\ ~LookupMiss(r) /\ ~Reserve(r) /\ ~WakeUp(r)
             /\ pc'[r] \notin {"emit", "done", "store"}
    <3> USE <2>6 DEF Move, Surface, Escape, BaseInv, TypeOK
    <3>1. ~LookupHit(r) /\ ~LookupFails(r) /\ ~Refuse(r)
      BY DEF LookupHit, LookupFails, Refuse
    <3>2. ~ReplyArrives(r) /\ ~TransientError(r) /\ ~PermanentError(r)
      BY DEF ReplyArrives, TransientError, PermanentError
    <3>3. ~Accept(r) /\ ~Reject(r) /\ ~Store(r) /\ ~StoreFails(r)
      BY DEF Accept, Reject, Store, StoreFails
    <3>4. ~Emit(r) /\ ~EmitFails(r)
      BY DEF Emit, EmitFails
    <3> QED
      BY <3>1, <3>2, <3>3, <3>4 DEF Thread
  <2> QED
    BY <2>1, <2>2, <2>3, <2>4, <2>5, <2>6
<1> QED
  BY <1>2, <1>3

\* Only the three ways a call ends leave the place of a call under way.
LEMMA CallEnds ==
  ASSUME TypeOK, NEW r \in Requests, Thread(r), pc[r] = "calling"
  PROVE  ReplyArrives(r) \/ TransientError(r) \/ PermanentError(r)
<1> USE DEF Move, Surface, Escape
<1>1. ~Start(r) /\ ~LookupHit(r) /\ ~LookupMiss(r) /\ ~LookupFails(r)
  BY DEF Start, LookupHit, LookupMiss, LookupFails
<1>2. ~Reserve(r) /\ ~Refuse(r) /\ ~WakeUp(r) /\ ~Accept(r) /\ ~Reject(r)
  BY DEF Reserve, Refuse, WakeUp, Accept, Reject
<1>3. ~Store(r) /\ ~StoreFails(r) /\ ~Emit(r) /\ ~EmitFails(r)
  BY DEF Store, StoreFails, Emit, EmitFails
<1> QED
  BY <1>1, <1>2, <1>3 DEF Thread

LEMMA AttemptsCall ==
  ASSUME BaseInv, AttemptsOK, NEW r \in Requests, Thread(r), pc[r] = "calling"
  PROVE  AttemptsOK'
<1> SUFFICES ASSUME NEW q \in Requests
             PROVE  /\ pc'[q] \in {"queued", "lookup"} => CallsOf(q)' = {}
                    /\ pc'[q] \in {"reserve", "calling"} =>
                         /\ OnlyTransient(q)'
                         /\ Cardinality(CallsOf(q)') + 1 = attempts'[q]
                    /\ pc'[q] = "backoff" =>
                         OnlyTransient(q)' /\ Cardinality(CallsOf(q)') = attempts'[q]
                    /\ Cardinality(CallsOf(q)') <= MaxAttempts
  BY DEF AttemptsOK
<1>1. CASE q # r
  <2>1. CallsOf(q)' = CallsOf(q) /\ (OnlyTransient(q) => OnlyTransient(q)')
    BY <1>1, CallsOfStep DEF OnlyTransient, BaseInv
  <2> QED
    BY <1>1, <2>1, OthersKeep DEF AttemptsOK, BaseInv
<1>2. CASE q = r
  <2>0. /\ Cardinality(CallsOf(r)) + 1 = attempts[r]
        /\ Cardinality(CallsOf(r)) \in Nat
        /\ attempts[r] \in 0..MaxAttempts
        /\ MaxAttempts \in Nat
        /\ OnlyTransient(r)
    BY CallsFinite, StackAssumption DEF AttemptsOK, BaseInv, TypeOK
  <2>1. attempts'[r] = attempts[r]
    BY CallEnds DEF ReplyArrives, TransientError, PermanentError, BaseInv
  <2>2. CASE TransientError(r)
    <3>1. Logs(r, "transient")
      BY <2>2, TransientLogged DEF BaseInv
    <3>2. /\ CallsOf(r)' = CallsOf(r) \cup {Len(calls) + 1}
          /\ Cardinality(CallsOf(r)') = attempts'[r]
          /\ \A n \in CallsOf(r) : calls'[n] = calls[n]
      BY <2>0, <2>1, <3>1, CallsOfLogged DEF BaseInv
    <3>3. OnlyTransient(r)'
      BY <2>0, <3>1, <3>2 DEF OnlyTransient, Logs
    <3>4. pc'[r] \in {"backoff", "emit"}
      BY <2>2 DEF TransientError, Move, Surface, BaseInv, TypeOK
    <3> QED
      BY <1>2, <2>0, <2>1, <3>2, <3>3, <3>4
  <2>3. CASE ReplyArrives(r) \/ PermanentError(r)
    <3>1. \E v \in Verdicts : Logs(r, v)
      BY <2>3, ReplyLogged, PermanentLogged DEF BaseInv, Replies, Verdicts
    <3>2. Cardinality(CallsOf(r)') = attempts'[r]
      BY <2>0, <2>1, <3>1, CallsOfLogged DEF BaseInv
    <3>3. pc'[r] \in {"account", "emit"}
      BY <2>3 DEF ReplyArrives, PermanentError, Move, Surface, BaseInv, TypeOK
    <3> QED
      BY <1>2, <2>0, <2>1, <3>2, <3>3
  <2> QED
    BY <2>2, <2>3, CallEnds DEF BaseInv
<1> QED
  BY <1>1, <1>2

LEMMA OrderStep ==
  ASSUME BaseInv, AttemptsOK, InOrder, NEW r \in Requests, Thread(r)
  PROVE  InOrder'
<1> SUFFICES ASSUME NEW m \in DOMAIN calls', NEW n \in DOMAIN calls',
                    m < n, calls'[m].req = calls'[n].req
             PROVE  calls'[m].verdict = "transient"
  BY DEF InOrder
<1>1. CASE pc[r] # "calling"
  <2>1. /\ DOMAIN calls' = DOMAIN calls
        /\ \A i \in DOMAIN calls : calls'[i] = calls[i]
    BY <1>1, CallsGrow DEF BaseInv
  <2> QED
    BY <2>1 DEF InOrder
<1>2. CASE pc[r] = "calling"
  <2>1. PICK v \in Verdicts : Logs(r, v)
    BY <1>2, CallEnds, ReplyLogged, TransientLogged, PermanentLogged
    DEF BaseInv, Replies, Verdicts
  <2>2. CASE n \in DOMAIN calls
    <3>1. m \in DOMAIN calls
      BY <2>1, <2>2 DEF Logs
    <3> QED
      BY <2>1, <2>2, <3>1 DEF Logs, InOrder
  <2>3. CASE n = Len(calls) + 1
    <3>1. m \in DOMAIN calls
      BY <2>1, <2>3 DEF Logs
    <3>2. m \in CallsOf(r)
      BY <2>1, <2>3, <3>1 DEF Logs, CallsOf
    <3>3. calls[m].verdict = "transient"
      BY <1>2, <3>2 DEF AttemptsOK, OnlyTransient
    <3> QED
      BY <2>1, <3>1, <3>3 DEF Logs
  <2> QED
    BY <2>1, <2>2, <2>3 DEF Logs
<1> QED
  BY <1>1, <1>2

RetryInv == BaseInv /\ AttemptsOK /\ InOrder

LEMMA RetryCorrect == Spec => []RetryInv
<1>1. Init => AttemptsOK /\ InOrder
  <2> SUFFICES ASSUME Init PROVE AttemptsOK /\ InOrder
    OBVIOUS
  <2>1. DOMAIN calls = {}
    BY DEF Init
  <2>2. \A r \in Requests : CallsOf(r) = {} /\ pc[r] = "queued"
    BY <2>1 DEF Init, CallsOf
  <2>3. Cardinality({}) = 0 /\ 0 <= MaxAttempts
    BY FS_EmptySet, StackAssumption
  <2> QED
    BY <2>1, <2>2, <2>3 DEF AttemptsOK, InOrder
<1>2. RetryInv /\ BaseInv' /\ [Next]_vars => RetryInv'
  <2> SUFFICES ASSUME RetryInv, [Next]_vars, BaseInv' PROVE AttemptsOK' /\ InOrder'
    BY DEF RetryInv
  <2>1. CASE Collect \/ UNCHANGED vars
    BY <2>1 DEF Collect, vars, RetryInv, AttemptsOK, OnlyTransient, CallsOf, InOrder
  <2>2. ASSUME NEW r \in Requests, Thread(r)
        PROVE  AttemptsOK' /\ InOrder'
    BY <2>2, AttemptsQuiet, AttemptsCall, OrderStep DEF RetryInv
  <2> QED
    BY <2>1, <2>2 DEF Next, Returned
<1> QED
  BY <1>1, <1>2, BaseCorrect, PTL DEF Spec, RetryInv

\* A request is sent again only after a transient error, and at most
\* max_attempts times (RetryingLlmProvider.complete_structured), whatever the
\* ceiling refuses to it and whatever the other threads do.
THEOREM RetriesAreDisciplined == Spec => []RetryDiscipline
<1>1. RetryInv => RetryDiscipline
  BY DEF RetryInv, AttemptsOK, InOrder, RetryDiscipline
<1> QED
  BY <1>1, RetryCorrect, PTL

-----------------------------------------------------------------------------
(***************************************************************************)
(* Telemetry                                                               *)
(***************************************************************************)

\* The calls of r that led to a reply nobody turned into an error.
AcceptedOf(r) == {n \in CallsOf(r) : calls[n].verdict = "parsed" /\ n \notin rejected}

\* What the thread brings to the telemetry layer agrees with the log.
OutcomeOK ==
  \A r \in Requests :
    /\ pc[r] \in {"account", "store"} => AcceptedOf(r) \subseteq {held[r]}
    /\ pc[r] = "emit" => outcome[r] \in Answered \cup LlmErrors
    /\ pc[r] \in {"emit", "done"} =>
         /\ outcome[r] = "hit" => CallsOf(r) = {}
         /\ outcome[r] = "reply" => held[r] \in AcceptedOf(r)
         /\ outcome[r] \in LlmErrors => AcceptedOf(r) = {}

\* A row is its request's, written by a thread that is done.
RowsOK ==
  /\ \A i \in DOMAIN rows :
       /\ rows[i].req \in Requests
       /\ pc[rows[i].req] = "done"
       /\ rows[i] = Row(rows[i].req)
       /\ outcome[rows[i].req] \in Answered \cup LlmErrors
  /\ \A i, j \in DOMAIN rows : rows[i].req = rows[j].req => i = j

\* What a row says.
LEMMA RowSays ==
  ASSUME NEW r
  PROVE  /\ Row(r).hit <=> outcome[r] = "hit"
         /\ Row(r).status = IF outcome[r] \in Answered THEN "success" ELSE "error"
<1>1. Row(r).hit = (outcome[r] = "hit")
  BY DEF Row
<1>2. Row(r).status = IF outcome[r] \in Answered THEN "success" ELSE "error"
  BY DEF Row
<1> QED
  BY <1>1, <1>2, Zenon

LEMMA RejectedGrows ==
  ASSUME NEW r \in Requests, Thread(r), ~Reject(r)
  PROVE  rejected' = rejected
BY DEF Thread, Start, LookupHit, LookupMiss, LookupFails, Reserve, Refuse, WakeUp,
   ReplyArrives, TransientError, PermanentError, Accept, Store, StoreFails, Emit,
   EmitFails

\* What another thread does changes neither the calls of q nor which of them
\* were accepted.
LEMMA AcceptedOthers ==
  ASSUME BaseInv, NEW r \in Requests, Thread(r), NEW q \in Requests, q # r
  PROVE  CallsOf(q)' = CallsOf(q) /\ AcceptedOf(q)' = AcceptedOf(q)
<1>1. /\ CallsOf(q)' = CallsOf(q)
      /\ \A n \in CallsOf(q) : calls'[n] = calls[n]
  BY CallsOfStep DEF BaseInv
<1>2. \A n \in CallsOf(q) : n \in rejected' <=> n \in rejected
  <2>1. CASE Reject(r)
    <3>1. rejected' = rejected \cup {held[r]} /\ pc[r] = "account"
      BY <2>1 DEF Reject, Surface, Move
    <3>2. calls[held[r]].req = r
      BY <3>1 DEF BaseInv, HeldOK
    <3>3. held[r] \notin CallsOf(q)
      BY <3>2 DEF CallsOf
    <3> QED
      BY <3>1, <3>3
  <2> QED
    BY <2>1, RejectedGrows
<1> QED
  BY <1>1, <1>2 DEF AcceptedOf

\* Nor does a thread's own step that is neither an answered call nor a refusal
\* of its tokens.
LEMMA AcceptedOwn ==
  ASSUME BaseInv, NEW r \in Requests, Thread(r), pc[r] # "calling", ~Reject(r)
  PROVE  CallsOf(r)' = CallsOf(r) /\ AcceptedOf(r)' = AcceptedOf(r)
<1>1. /\ CallsOf(r)' = CallsOf(r)
      /\ \A n \in CallsOf(r) : calls'[n] = calls[n]
  BY CallsOfStep DEF BaseInv
<1> QED
  BY <1>1, RejectedGrows DEF AcceptedOf

\* The answer to a call is the only one of the request that may be accepted.
LEMMA AcceptedAfterCall ==
  ASSUME BaseInv, AttemptsOK, NEW r \in Requests, Thread(r), pc[r] = "calling",
         NEW v, Logs(r, v)
  PROVE  /\ AcceptedOf(r)' \subseteq {Len(calls) + 1}
         /\ v # "parsed" => AcceptedOf(r)' = {}
<1>1. OnlyTransient(r)
  BY DEF AttemptsOK
<1>2. /\ CallsOf(r)' = CallsOf(r) \cup {Len(calls) + 1}
      /\ \A n \in CallsOf(r) : calls'[n] = calls[n]
      /\ calls'[Len(calls) + 1].verdict = v
  BY CallsOfLogged DEF BaseInv, Logs
<1>3. \A n \in CallsOf(r) : n \notin AcceptedOf(r)'
  BY <1>1, <1>2 DEF OnlyTransient, AcceptedOf
<1>4. AcceptedOf(r)' \subseteq CallsOf(r)'
  BY DEF AcceptedOf
<1>5. AcceptedOf(r)' \subseteq {Len(calls) + 1}
  BY <1>2, <1>3, <1>4
<1>6. ASSUME v # "parsed" PROVE Len(calls) + 1 \notin AcceptedOf(r)'
  BY <1>2, <1>6 DEF AcceptedOf
<1> QED
  BY <1>5, <1>6

LEMMA OutcomeOwn ==
  ASSUME RetryInv, OutcomeOK, NEW r \in Requests, Thread(r)
  PROVE  /\ pc'[r] \in {"account", "store"} => AcceptedOf(r)' \subseteq {held'[r]}
         /\ pc'[r] = "emit" => outcome'[r] \in Answered \cup LlmErrors
         /\ pc'[r] \in {"emit", "done"} =>
              /\ outcome'[r] = "hit" => CallsOf(r)' = {}
              /\ outcome'[r] = "reply" => held'[r] \in AcceptedOf(r)'
              /\ outcome'[r] \in LlmErrors => AcceptedOf(r)' = {}
<1> USE DEF RetryInv
<1>1. CASE Start(r) \/ LookupMiss(r) \/ Reserve(r) \/ WakeUp(r)
  BY <1>1 DEF Start, LookupMiss, Reserve, WakeUp, Move, BaseInv, TypeOK
<1>2. CASE LookupHit(r)
  <2>1. /\ pc[r] = "lookup" /\ pc'[r] = "emit" /\ outcome'[r] = "hit"
        /\ ~Reject(r)
    BY <1>2 DEF LookupHit, Reject, Move, Surface, BaseInv, TypeOK
  <2>2. CallsOf(r)' = {}
    BY <2>1, AcceptedOwn DEF AttemptsOK
  <2> QED
    BY <2>1, <2>2 DEF Answered, LlmErrors
<1>3. CASE LookupFails(r) \/ StoreFails(r)
  <2>1. pc'[r] = "done" /\ outcome'[r] = "unexpected"
    BY <1>3 DEF LookupFails, StoreFails, Escape, Move, BaseInv, TypeOK
  <2> QED
    BY <2>1 DEF LlmErrors
<1>4. CASE Refuse(r)
  <2>1. /\ pc[r] = "reserve" /\ pc'[r] = "emit"
        /\ outcome'[r] = "LlmCeilingExceeded" /\ ~Reject(r)
    BY <1>4 DEF Refuse, Reject, Move, Surface, BaseInv, TypeOK
  <2>2. AcceptedOf(r) = {}
    BY <2>1 DEF AttemptsOK, OnlyTransient, AcceptedOf
  <2>3. AcceptedOf(r)' = {}
    BY <2>1, <2>2, AcceptedOwn
  <2> QED
    BY <2>1, <2>3 DEF LlmErrors
<1>5. CASE ReplyArrives(r)
  <2>1. pc[r] = "calling" /\ pc'[r] = "account" /\ held'[r] = Len(calls) + 1
    BY <1>5 DEF ReplyArrives, Move, BaseInv, TypeOK
  <2>2. AcceptedOf(r)' \subseteq {Len(calls) + 1}
    BY <1>5, <2>1, ReplyLogged, AcceptedAfterCall DEF BaseInv
  <2> QED
    BY <2>1, <2>2
<1>6. CASE TransientError(r) \/ PermanentError(r)
  <2>1. /\ pc[r] = "calling" /\ pc'[r] \in {"backoff", "emit"}
        /\ pc'[r] = "emit" => outcome'[r] \in LlmErrors
    BY <1>6 DEF TransientError, PermanentError, Move, Surface, BaseInv, TypeOK,
       LlmErrors
  <2>2. AcceptedOf(r)' = {}
    BY <1>6, <2>1, TransientLogged, PermanentLogged, AcceptedAfterCall DEF BaseInv
  <2> QED
    BY <2>1, <2>2 DEF LlmErrors
<1>7. CASE Accept(r)
  <2>1. pc[r] = "account" /\ pc'[r] = "store" /\ held' = held /\ ~Reject(r)
    BY <1>7 DEF Accept, Reject, Move, Surface, BaseInv, TypeOK
  <2> QED
    BY <2>1, AcceptedOwn DEF OutcomeOK
<1>8. CASE Reject(r)
  <2>1. /\ pc[r] = "account" /\ pc'[r] = "emit"
        /\ outcome'[r] = "LlmCeilingExceeded"
        /\ rejected' = rejected \cup {held[r]}
        /\ calls' = calls
    BY <1>8 DEF Reject, Move, Surface, BaseInv, TypeOK
  <2>2. AcceptedOf(r) \subseteq {held[r]}
    BY <2>1 DEF OutcomeOK
  <2>3. AcceptedOf(r)' = {}
    BY <2>1, <2>2 DEF AcceptedOf, CallsOf
  <2> QED
    BY <2>1, <2>3 DEF LlmErrors
<1>9. CASE Store(r)
  <2>1. /\ pc[r] = "store" /\ pc'[r] = "emit" /\ outcome'[r] = "reply"
        /\ held' = held /\ calls[held[r]].verdict = "parsed" /\ ~Reject(r)
    BY <1>9 DEF Store, Reject, Move, Surface, BaseInv, TypeOK
  <2>2. held[r] \in CallsOf(r) /\ held[r] \notin rejected
    BY <2>1 DEF BaseInv, HeldOK, RejectedOK, CallsOf
  <2>3. held[r] \in AcceptedOf(r)
    BY <2>1, <2>2 DEF AcceptedOf
  <2>4. held'[r] \in AcceptedOf(r)'
    BY <2>1, <2>3, AcceptedOwn
  <2> QED
    BY <2>1, <2>4 DEF Answered, LlmErrors
<1>10. CASE Emit(r) \/ EmitFails(r)
  <2>1. pc[r] = "emit" /\ pc'[r] = "done" /\ ~Reject(r) /\ UNCHANGED <<held, outcome>>
    BY <1>10 DEF Emit, EmitFails, Reject, Move, Surface, BaseInv, TypeOK
  <2> QED
    BY <2>1, AcceptedOwn DEF OutcomeOK
<1> QED
  BY <1>1, <1>2, <1>3, <1>4, <1>5, <1>6, <1>7, <1>8, <1>9, <1>10 DEF Thread

LEMMA OutcomeStep ==
  ASSUME RetryInv, OutcomeOK, NEW r \in Requests, Thread(r)
  PROVE  OutcomeOK'
<1>1. ASSUME NEW q \in Requests, q # r
      PROVE  /\ AcceptedOf(q)' = AcceptedOf(q) /\ CallsOf(q)' = CallsOf(q)
             /\ pc'[q] = pc[q] /\ outcome'[q] = outcome[q] /\ held'[q] = held[q]
  BY <1>1, AcceptedOthers, OthersKeep DEF RetryInv, BaseInv
<1> QED
  BY <1>1, OutcomeOwn DEF OutcomeOK

LEMMA RowsStep ==
  ASSUME RetryInv, OutcomeOK, RowsOK, NEW r \in Requests, Thread(r)
  PROVE  RowsOK'
<1> USE DEF RetryInv
<1>1. \A i \in DOMAIN rows :
        LET q == rows[i].req
        IN q \in Requests /\ pc'[q] = "done" /\ outcome'[q] = outcome[q]
  <2> SUFFICES ASSUME NEW i \in DOMAIN rows, NEW q, q = rows[i].req
               PROVE  q \in Requests /\ pc'[q] = "done" /\ outcome'[q] = outcome[q]
    OBVIOUS
  <2>1. q \in Requests /\ pc[q] = "done"
    BY DEF RowsOK
  <2>2. CASE q = r
    BY <2>1, <2>2, Settled DEF BaseInv
  <2>3. CASE q # r
    BY <2>1, <2>3, OthersKeep DEF BaseInv
  <2> QED
    BY <2>1, <2>2, <2>3
<1>2. CASE ~Emit(r)
  <2>1. rows' = rows
    BY <1>2 DEF Thread, Start, LookupHit, LookupMiss, LookupFails, Reserve, Refuse,
       WakeUp, ReplyArrives, TransientError, PermanentError, Accept, Reject, Store,
       StoreFails, EmitFails
  <2>2. \A i \in DOMAIN rows : Row(rows[i].req)' = Row(rows[i].req)
    BY <1>1, <2>1 DEF Row
  <2> QED
    BY <1>1, <2>1, <2>2 DEF RowsOK
<1>3. CASE Emit(r)
  <2>1. /\ pc[r] = "emit" /\ pc'[r] = "done" /\ outcome' = outcome
        /\ rows' = Append(rows, Row(r))
    BY <1>3 DEF Emit, Move, BaseInv, TypeOK
  <2>2. /\ Row(r) \in RowRecords /\ Row(r).req = r /\ rows \in Seq(RowRecords)
    BY DEF Row, RowRecords, BaseInv, TypeOK
  <2> DEFINE new == Row(r)
  <2> HIDE DEF new
  <2>3. /\ DOMAIN rows' = DOMAIN rows \cup {Len(rows) + 1}
        /\ Len(rows) + 1 \notin DOMAIN rows
        /\ rows'[Len(rows) + 1] = new
        /\ \A i \in DOMAIN rows : rows'[i] = rows[i]
    <3>1. new \in RowRecords /\ rows' = Append(rows, new)
      BY <2>1, <2>2 DEF new
    <3>2. /\ Len(rows) \in Nat /\ DOMAIN rows = 1..Len(rows)
          /\ DOMAIN rows' = 1..(Len(rows) + 1)
          /\ rows'[Len(rows) + 1] = new
          /\ \A i \in DOMAIN rows : rows'[i] = rows[i]
      BY <2>2, <3>1
    <3> QED
      BY <3>2
  <2>4. \A i \in DOMAIN rows : rows[i].req # r
    BY <2>1 DEF RowsOK
  <2>5. new.req = r /\ new = Row(r)' /\ outcome'[r] \in Answered \cup LlmErrors
    BY <2>1, <2>2 DEF new, Row, OutcomeOK
  <2>6. \A i \in DOMAIN rows : Row(rows[i].req)' = Row(rows[i].req)
    BY <1>1, <2>1 DEF Row
  <2>7. ASSUME NEW i \in DOMAIN rows'
        PROVE  /\ rows'[i].req \in Requests
               /\ pc'[rows'[i].req] = "done"
               /\ rows'[i] = Row(rows[i].req)'
               /\ outcome'[rows'[i].req] \in Answered \cup LlmErrors
    <3>1. CASE i \in DOMAIN rows
      <4>1. rows'[i] = rows[i]
        BY <2>3, <3>1
      <4>2. /\ rows[i].req \in Requests /\ rows[i] = Row(rows[i].req)
            /\ outcome[rows[i].req] \in Answered \cup LlmErrors
        BY <3>1 DEF RowsOK
      <4>3. Row(rows[i].req)' = Row(rows[i].req)
        BY <2>1, <4>1 DEF Row
      <4> QED
        BY <1>1, <2>1, <3>1, <4>1, <4>2, <4>3
    <3>2. CASE i = Len(rows) + 1
      <4>1. rows'[i].req = r
        BY <2>3, <2>5, <3>2
      <4>2. Row(rows[i].req)' = new
        BY <2>5, <4>1 DEF Row
      <4> QED
        BY <2>1, <2>3, <2>5, <3>2, <4>1, <4>2
    <3> QED
      BY <2>3, <3>1, <3>2
  <2>8. ASSUME NEW i \in DOMAIN rows', NEW j \in DOMAIN rows', rows'[i].req = rows'[j].req
        PROVE  i = j
    BY <2>3, <2>4, <2>5, <2>8 DEF RowsOK
  <2> QED
    BY <2>7, <2>8 DEF RowsOK
<1> QED
  BY <1>2, <1>3

\* The telemetry file agrees with the provider's log: one row at most for a
\* request, a hit only where nothing was called, a success only for an accepted
\* reply, an error only where there is none (TelemetryLlmProvider).
THEOREM TelemetryIsHonest == Spec => []HonestTelemetry
<1>1. Init => OutcomeOK /\ RowsOK
  BY DEF Init, OutcomeOK, RowsOK
<1>2. RetryInv /\ OutcomeOK /\ RowsOK /\ [Next]_vars => OutcomeOK' /\ RowsOK'
  <2> SUFFICES ASSUME RetryInv, OutcomeOK, RowsOK, [Next]_vars
               PROVE  OutcomeOK' /\ RowsOK'
    OBVIOUS
  <2>1. CASE Collect \/ UNCHANGED vars
    BY <2>1 DEF Collect, vars, OutcomeOK, RowsOK, AcceptedOf, CallsOf, Row
  <2>2. ASSUME NEW r \in Requests, Thread(r)
        PROVE  OutcomeOK' /\ RowsOK'
    BY <2>2, OutcomeStep, RowsStep
  <2> QED
    BY <2>1, <2>2 DEF Next, Returned
<1>3. OutcomeOK /\ RowsOK => HonestTelemetry
  <2> SUFFICES ASSUME OutcomeOK, RowsOK PROVE HonestTelemetry
    OBVIOUS
  <2>1. ASSUME NEW i \in DOMAIN rows, NEW r, r = rows[i].req
        PROVE  /\ rows[i].hit => rows[i].status = "success" /\ CallsOf(r) = {}
               /\ rows[i].status = "success" /\ ~rows[i].hit => AcceptedOf(r) # {}
               /\ rows[i].status = "error" => AcceptedOf(r) = {}
    <3>1. /\ r \in Requests /\ pc[r] = "done" /\ rows[i] = Row(r)
          /\ outcome[r] \in Answered \cup LlmErrors
      BY <2>1 DEF RowsOK
    <3>2. /\ rows[i].status = "success" => outcome[r] \in Answered
          /\ rows[i].status = "error" => outcome[r] \notin Answered
          /\ outcome[r] \in Answered => rows[i].status = "success"
      BY <3>1, RowSays
    <3>3. rows[i].hit <=> outcome[r] = "hit"
      BY <3>1, RowSays, Zenon
    <3>4. outcome[r] \in Answered <=> outcome[r] = "hit" \/ outcome[r] = "reply"
      BY DEF Answered
    <3>5. /\ outcome[r] = "hit" => CallsOf(r) = {}
          /\ outcome[r] = "reply" => AcceptedOf(r) # {}
          /\ outcome[r] \in LlmErrors => AcceptedOf(r) = {}
      BY <3>1 DEF OutcomeOK
    <3>6. rows[i].hit => rows[i].status = "success" /\ CallsOf(r) = {}
      BY <3>2, <3>3, <3>4, <3>5, Zenon
    <3>7. rows[i].status = "success" /\ ~rows[i].hit => AcceptedOf(r) # {}
      BY <3>2, <3>3, <3>4, <3>5, Zenon
    <3>8. rows[i].status = "error" => AcceptedOf(r) = {}
      BY <3>1, <3>2, <3>5
    <3> QED
      BY <3>6, <3>7, <3>8
  <2> QED
    BY <2>1 DEF RowsOK, HonestTelemetry, AcceptedOf
<1> QED
  BY <1>1, <1>2, <1>3, RetryCorrect, PTL DEF Spec

-----------------------------------------------------------------------------
(***************************************************************************)
(* The token count                                                         *)
(***************************************************************************)

Accounted == DOMAIN calls \ Unaccounted

LEMMA CostsType ==
  ASSUME TypeOK
  PROVE  /\ Costs \in Seq(Nat) /\ Len(Costs) = Len(calls) /\ Len(calls) \in Nat
         /\ DOMAIN calls = 1..Len(calls)
<1>1. Len(calls) \in Nat /\ DOMAIN calls = 1..Len(calls)
  BY DEF TypeOK
<1>2. \A n \in DOMAIN calls : calls[n].tokens \in Nat
  BY LoggedCall DEF CallRecords
<1>3. Costs \in [1..Len(calls) -> Nat]
  BY <1>1, <1>2 DEF Costs
<1> QED
  BY <1>1, <1>3

LEMMA CostsLogged ==
  ASSUME TypeOK, NEW r \in Requests, NEW v \in Verdicts, NEW t \in Nat, Record(r, v, t)
  PROVE  Costs' = Append(Costs, t)
<1>1. /\ Logs(r, v) /\ calls' \in Seq(CallRecords)
  BY AppendCall DEF TypeOK
<1>2. /\ Len(calls') = Len(calls) + 1 /\ DOMAIN calls' = 1..(Len(calls) + 1)
      /\ \A n \in 1..Len(calls) : calls'[n] = calls[n]
      /\ calls'[Len(calls) + 1].tokens = t
  BY <1>1 DEF Logs, Record, TypeOK
<1>3. /\ DOMAIN Costs' = 1..(Len(calls) + 1)
      /\ \A n \in 1..Len(calls) : Costs'[n] = Costs[n]
      /\ Costs'[Len(calls) + 1] = t
  BY <1>2, CostsType DEF Costs
<1>4. Costs' = [n \in 1..(Len(calls) + 1) |-> Costs'[n]]
  BY <1>2 DEF Costs
<1> QED
  BY <1>3, <1>4, CostsType

LEMMA TallyInit == Init => TokenTally
<1> SUFFICES ASSUME Init
             PROVE  TokenTally
  OBVIOUS
<1>1. Costs \in Seq(Nat) /\ Len(Costs) = 0
  BY TypeInit, CostsType DEF Init
<1> DEFINE S == DOMAIN calls \ Unaccounted
<1>2. SumAt(Costs, S) = 0
  <2> HIDE DEF S
  <2> QED
    BY ONLY <1>1, SumSpec
<1> QED
  BY <1>2 DEF Init, TokenTally

\* A thread that accounts for its reply is the only one that holds it.
LEMMA TallyAccounts ==
  ASSUME BaseInv, TokenTally, NEW r \in Requests, Accept(r) \/ Reject(r)
  PROVE  TokenTally'
<1>1. /\ pc[r] = "account" /\ tokensCount' = Total(r)
      /\ UNCHANGED <<calls, held>>
  BY DEF Accept, Reject, Surface, Move
<1>2. /\ pc'[r] # "account"
      /\ \A q \in Requests : q # r => pc'[q] = pc[q]
  BY DEF Accept, Reject, Surface, Move, BaseInv, TypeOK
<1>3. held[r] \in 1..Len(calls) /\ held[r] \in DOMAIN calls
  BY <1>1, CostsType DEF BaseInv, HeldOK
<1>4. \A q \in Requests : pc[q] = "account" /\ q # r => held[q] # held[r]
  BY <1>1 DEF BaseInv, HeldOK
<1>5. Unaccounted' = Unaccounted \ {held[r]} /\ held[r] \in Unaccounted
  BY <1>1, <1>2, <1>4 DEF Unaccounted
<1>6. Accounted' = Accounted \cup {held[r]} /\ held[r] \notin Accounted
  BY <1>1, <1>3, <1>5 DEF Accounted
<1>7. SumAt(Costs, Accounted \cup {held[r]}) = SumAt(Costs, Accounted) + Costs[held[r]]
  BY <1>3, <1>6, CostsType, SumGrows DEF BaseInv
<1>8. Costs' = Costs /\ Costs[held[r]] = calls[held[r]].tokens
  BY <1>1, <1>3 DEF Costs
<1> QED
  BY <1>1, <1>6, <1>7, <1>8 DEF TokenTally, Accounted, Total

\* An answer is not counted before its thread accounts for it, and an error
\* costs nothing.
LEMMA TallyCalls ==
  ASSUME BaseInv, TokenTally, NEW r \in Requests, Thread(r), pc[r] = "calling"
  PROVE  TokenTally'
<1> DEFINE n == Len(calls) + 1
<1>0. /\ Costs \in Seq(Nat) /\ Len(Costs) = Len(calls) /\ Len(calls) \in Nat
      /\ DOMAIN calls = 1..Len(calls)
  BY CostsType DEF BaseInv
<1>1. Unaccounted \subseteq DOMAIN calls
  BY DEF Unaccounted, BaseInv, HeldOK
<1>2. n \notin DOMAIN calls /\ n \notin Accounted
  BY <1>0 DEF Accounted
<1>3. \A q \in Requests : q # r => pc'[q] = pc[q] /\ held'[q] = held[q]
  BY OthersKeep DEF BaseInv
<1>4. CASE ReplyArrives(r)
  <2>1. PICK v \in Replies, t \in Usages : Record(r, v, t)
    BY <1>4 DEF ReplyArrives
  <2>2. v \in Verdicts /\ t \in Nat
    BY StackAssumption DEF Verdicts, Replies
  <2>3. Costs' = Append(Costs, t) /\ DOMAIN calls' = DOMAIN calls \cup {n}
    BY <2>1, <2>2, CostsLogged, AppendCall DEF Logs, BaseInv, TypeOK
  <2>4. pc'[r] = "account" /\ held'[r] = n /\ tokensCount' = tokensCount
    BY <1>4 DEF ReplyArrives, Move, BaseInv, TypeOK
  <2>5. Unaccounted' = Unaccounted \cup {n}
    <3> HIDE DEF n
    <3> QED
      BY <1>3, <2>4 DEF Unaccounted
  <2>6. Accounted' = Accounted
    BY <1>1, <1>2, <2>3, <2>5 DEF Accounted
  <2>7. SumAt(Append(Costs, t), Accounted) = SumAt(Costs, Accounted)
    BY <1>0, <1>2, <2>2, SumKeeps
  <2> QED
    BY <2>3, <2>4, <2>6, <2>7 DEF TokenTally, Accounted
<1>5. CASE TransientError(r) \/ PermanentError(r)
  <2>1. PICK v \in Verdicts : Record(r, v, 0)
    BY <1>5 DEF TransientError, PermanentError, Verdicts
  <2>2. Costs' = Append(Costs, 0) /\ DOMAIN calls' = DOMAIN calls \cup {n}
    BY <2>1, CostsLogged, AppendCall DEF Logs, BaseInv, TypeOK
  <2>3. pc'[r] # "account" /\ UNCHANGED <<held, tokensCount>>
    BY <1>5 DEF TransientError, PermanentError, Surface, Move, BaseInv, TypeOK
  <2>4. Unaccounted' = Unaccounted
    BY <1>3, <2>3 DEF Unaccounted
  <2>5. Accounted' = Accounted \cup {n}
    BY <1>1, <1>2, <2>2, <2>4 DEF Accounted
  <2> DEFINE more == Append(Costs, 0)
  <2>6. more \in Seq(Nat) /\ n \in 1..Len(more) /\ more[n] = 0
    BY <1>0
  <2>7. SumAt(more, Accounted) = SumAt(Costs, Accounted)
    BY <1>0, <1>2, SumKeeps
  <2> HIDE DEF more
  <2>8. SumAt(more, Accounted \cup {n}) = SumAt(more, Accounted) + more[n]
    BY <1>2, <2>6, SumGrows
  <2>9. SumAt(Costs, Accounted) \in Nat
    BY <1>0 DEF TokenTally, Accounted, BaseInv, TypeOK
  <2>10. SumAt(more, Accounted \cup {n}) = SumAt(Costs, Accounted)
    BY <2>6, <2>7, <2>8, <2>9
  <2> QED
    BY <2>2, <2>3, <2>5, <2>10 DEF TokenTally, Accounted, more
<1> QED
  BY <1>4, <1>5, CallEnds DEF BaseInv

LEMMA TallyStep ==
  ASSUME BaseInv, TokenTally, NEW r \in Requests, Thread(r)
  PROVE  TokenTally'
<1>1. CASE /\ pc[r] # "account" /\ pc'[r] # "account"
           /\ UNCHANGED <<calls, tokensCount>>
  <2>1. Unaccounted' = Unaccounted
    BY <1>1, OthersKeep DEF Unaccounted, BaseInv
  <2> QED
    BY <1>1, <2>1 DEF TokenTally, Costs
<1> USE DEF Move, Surface, Escape, BaseInv, TypeOK
<1>2. CASE Start(r) \/ LookupHit(r) \/ LookupMiss(r) \/ LookupFails(r)
  BY <1>1, <1>2 DEF Start, LookupHit, LookupMiss, LookupFails
<1>3. CASE Reserve(r) \/ Refuse(r) \/ WakeUp(r)
  BY <1>1, <1>3 DEF Reserve, Refuse, WakeUp
<1>4. CASE ReplyArrives(r) \/ TransientError(r) \/ PermanentError(r)
  <2>1. pc[r] = "calling"
    BY <1>4 DEF ReplyArrives, TransientError, PermanentError
  <2> QED
    BY <2>1, TallyCalls
<1>5. CASE Accept(r) \/ Reject(r)
  BY <1>5, TallyAccounts
<1>6. CASE Store(r) \/ StoreFails(r) \/ Emit(r) \/ EmitFails(r)
  BY <1>1, <1>6 DEF Store, StoreFails, Emit, EmitFails
<1> QED
  BY <1>2, <1>3, <1>4, <1>5, <1>6 DEF Thread

\* The total that the token ceiling compares is what the accounted replies
\* cost, however many threads account for theirs at a time
\* (CeilingLlmProvider.complete_structured).
THEOREM TokensAreTallied == Spec => []TokenTally
<1>1. BaseInv /\ TokenTally /\ [Next]_vars => TokenTally'
  <2> SUFFICES ASSUME BaseInv, TokenTally, [Next]_vars
               PROVE  TokenTally'
    OBVIOUS
  <2>1. CASE Collect \/ UNCHANGED vars
    BY <2>1 DEF Collect, vars, TokenTally, Costs, Unaccounted
  <2> QED
    BY <2>1, TallyStep DEF Next, Returned
<1> QED
  BY TallyInit, <1>1, BaseCorrect, PTL DEF Spec

-----------------------------------------------------------------------------
(***************************************************************************)
(* The promise of PaidAnswers                                              *)
(***************************************************************************)

\* What the stack gives back for r, as PaidAnswers sees it.
StatusOf == [r \in Requests |->
               IF pc[r] # "done" THEN "pending"
               ELSE IF outcome[r] \in Answered THEN "answered" ELSE "failed"]

\* The keys that have a reply.
Cached == {k \in Keys : cache[k] # Absent}

\* An answer is in the cache under its request's key.
AnswersAreCached == \A r \in Requests : outcome[r] \in Answered => KeyOf[r] \in Cached

\* A thread writes only what it holds, and only when it stores.
LEMMA CacheWrites ==
  ASSUME BaseInv, NEW r \in Requests, Thread(r)
  PROVE  /\ cache' # cache => Store(r)
         /\ Cached \subseteq Cached'
<1>1. ASSUME ~Store(r) PROVE cache' = cache
  BY <1>1 DEF Thread, Start, LookupHit, LookupMiss, LookupFails, Reserve, Refuse,
     WakeUp, ReplyArrives, TransientError, PermanentError, Accept, Reject,
     StoreFails, Emit, EmitFails
<1>2. ASSUME Store(r) PROVE Cached \subseteq Cached'
  <2>1. pc[r] = "store" /\ cache' = [cache EXCEPT ![KeyOf[r]] = held[r]]
    BY <1>2 DEF Store, Surface, Move
  <2>2. held[r] \in 1..Len(calls) /\ Len(calls) \in Nat
    BY <2>1 DEF BaseInv, HeldOK, TypeOK
  <2>3. held[r] # Absent
    BY <2>2 DEF Absent
  <2> QED
    BY <2>1, <2>3 DEF Cached, BaseInv, TypeOK
<1> QED
  BY <1>1, <1>2 DEF Cached

LEMMA CachedStep ==
  ASSUME BaseInv, AnswersAreCached, NEW r \in Requests, Thread(r)
  PROVE  AnswersAreCached'
<1> SUFFICES ASSUME NEW q \in Requests, outcome'[q] \in Answered
             PROVE  KeyOf[q] \in Cached'
  BY DEF AnswersAreCached
<1>1. CASE outcome[q] \in Answered
  BY <1>1, CacheWrites DEF AnswersAreCached
<1>2. CASE outcome[q] \notin Answered
  <2>1. q = r
    BY <1>2, OthersKeep DEF BaseInv
  <2>2. KeyOf[r] \in Keys
    BY StackAssumption
  <2>3. CASE LookupHit(r)
    BY <2>1, <2>2, <2>3 DEF LookupHit, Cached
  <2>4. CASE Store(r)
    <3>1. pc[r] = "store" /\ cache'[KeyOf[r]] = held[r]
      BY <2>2, <2>4 DEF Store, Surface, Move, BaseInv, TypeOK
    <3>2. held[r] \in 1..Len(calls) /\ Len(calls) \in Nat
      BY <3>1 DEF BaseInv, HeldOK, TypeOK
    <3> QED
      BY <2>1, <2>2, <3>1, <3>2 DEF Cached, Absent
  <2>5. CASE ~LookupHit(r) /\ ~Store(r)
    <3> USE <1>2, <2>1, <2>5 DEF Move, Surface, Escape, Answered, BaseInv, TypeOK
    <3>1. ~Start(r) /\ ~LookupMiss(r) /\ ~LookupFails(r)
      BY DEF Start, LookupMiss, LookupFails
    <3>2. ~Reserve(r) /\ ~Refuse(r) /\ ~WakeUp(r) /\ ~Accept(r) /\ ~Reject(r)
      BY DEF Reserve, Refuse, WakeUp, Accept, Reject
    <3>3. ~ReplyArrives(r) /\ ~TransientError(r) /\ ~PermanentError(r)
      BY DEF ReplyArrives, TransientError, PermanentError
    <3>4. ~StoreFails(r) /\ ~Emit(r) /\ ~EmitFails(r)
      BY DEF StoreFails, Emit, EmitFails
    <3> QED
      BY <3>1, <3>2, <3>3, <3>4 DEF Thread
  <2> QED
    BY <2>3, <2>4, <2>5
<1> QED
  BY <1>1, <1>2

LEMMA AnswersCached == Spec => [](BaseInv /\ AnswersAreCached)
<1>1. Init => AnswersAreCached
  BY DEF Init, AnswersAreCached, Answered
<1>2. BaseInv /\ AnswersAreCached /\ [Next]_vars => AnswersAreCached'
  <2> SUFFICES ASSUME BaseInv, AnswersAreCached, [Next]_vars PROVE AnswersAreCached'
    OBVIOUS
  <2>1. CASE Collect \/ UNCHANGED vars
    BY <2>1 DEF Collect, vars, AnswersAreCached, Cached
  <2> QED
    BY <2>1, CachedStep DEF Next, Returned
<1> QED
  BY <1>1, <1>2, BaseCorrect, PTL DEF Spec

\* However many threads ask for one prompt: when one of them has been answered,
\* none that comes later pays (CachingLlmProvider.complete_structured).
THEOREM AnsweredKeysStayFree == Spec => AnsweredKeysAreFree
<1>1. ASSUME BaseInv, AnswersAreCached, Next, NEW r \in Requests, NEW q \in Requests,
             KeyOf[q] = KeyOf[r], outcome[r] \in Answered, pc[q] \in {"queued", "lookup"}
      PROVE  pc'[q] # "reserve"
  <2>1. cache[KeyOf[q]] # Absent
    BY <1>1 DEF AnswersAreCached, Cached
  <2>2. CASE Collect \/ UNCHANGED vars
    BY <1>1, <2>2 DEF Collect, vars
  <2>3. ASSUME NEW t \in Requests, Thread(t), t # q PROVE pc'[q] # "reserve"
    BY <1>1, <2>3, OthersKeep DEF BaseInv
  <2>4. CASE Thread(q)
    <3> USE <1>1, <2>1 DEF Move, Surface, Escape, BaseInv, TypeOK
    <3>1. CASE Start(q) \/ LookupHit(q) \/ LookupFails(q)
      BY <3>1 DEF Start, LookupHit, LookupFails
    <3>2. ~LookupMiss(q) /\ ~WakeUp(q) /\ ~Reserve(q) /\ ~Refuse(q)
      BY DEF LookupMiss, WakeUp, Reserve, Refuse
    <3>3. ~ReplyArrives(q) /\ ~TransientError(q) /\ ~PermanentError(q)
      BY DEF ReplyArrives, TransientError, PermanentError
    <3>4. ~Accept(q) /\ ~Reject(q) /\ ~Store(q) /\ ~StoreFails(q)
      BY DEF Accept, Reject, Store, StoreFails
    <3>5. ~Emit(q) /\ ~EmitFails(q)
      BY DEF Emit, EmitFails
    <3> QED
      BY <2>4, <3>1, <3>2, <3>3, <3>4, <3>5 DEF Thread
  <2> QED
    BY <1>1, <2>2, <2>3, <2>4 DEF Next, Returned
<1>2. BaseInv /\ AnswersAreCached /\ [Next]_vars =>
        [\A r, q \in Requests :
           /\ KeyOf[q] = KeyOf[r] /\ outcome[r] \in Answered
           /\ pc[q] \in {"queued", "lookup"}
           => pc'[q] # "reserve"]_vars
  BY <1>1
<1> QED
  BY <1>2, AnswersCached, PTL DEF Spec, AnsweredKeysAreFree

\* A cold key in the cache has a call of its own, so that a reply about to be
\* stored under another key is one the cache does not hold yet.
LEMMA StoreHasRoom ==
  ASSUME BaseInv, CacheOK, NEW r \in Requests, Store(r), KeyOf[r] \notin Cached
  PROVE  Cardinality(Cached) < Cardinality(WarmKeys) + Len(calls)
<1> DEFINE cold == Cached \ WarmKeys
           free == (1..Len(calls)) \ {held[r]}
           f    == [k \in cold |-> cache[k]]
<1>1. Len(calls) \in Nat /\ DOMAIN calls = 1..Len(calls)
  BY DEF BaseInv, TypeOK
<1>2. held[r] \in 1..Len(calls) /\ calls[held[r]].req = r
  BY <1>1 DEF Store, Surface, Move, BaseInv, HeldOK
<1>3. ASSUME NEW k \in cold
      PROVE  cache[k] \in 1..Len(calls) /\ KeyOf[calls[cache[k]].req] = k
  BY <1>1, <1>3 DEF CacheOK, FinalFor, Cached
<1>4. \A k \in cold : cache[k] # held[r]
  BY <1>2, <1>3
<1>5. f \in Injection(cold, free)
  <2>1. f \in [cold -> free]
    BY <1>3, <1>4
  <2>2. \A j, k \in cold : f[j] = f[k] => j = k
    BY <1>3
  <2> QED
    BY <2>1, <2>2 DEF Injection, IsInjective
<1>6. IsFiniteSet(free) /\ Cardinality(free) = Len(calls) - 1
  <2>1. IsFiniteSet(1..Len(calls)) /\ Cardinality(1..Len(calls)) = Len(calls)
    <3>1. 1 \in Int /\ Len(calls) \in Int
      BY <1>1
    <3>2. /\ IsFiniteSet(1..Len(calls))
          /\ Cardinality(1..Len(calls)) =
               IF 1 > Len(calls) THEN 0 ELSE Len(calls) - 1 + 1
      BY <3>1, FS_Interval
    <3> QED
      BY <1>1, <3>2
  <2> QED
    BY <1>2, <2>1, FS_RemoveElement
<1>7. IsFiniteSet(cold) /\ Cardinality(cold) <= Len(calls) - 1
  BY <1>5, <1>6, FS_Injection
<1>8. IsFiniteSet(WarmKeys)
  BY FS_Subset, StackAssumption
<1>9. /\ Cardinality(cold) \in Nat
      /\ Cardinality(WarmKeys) \in Nat
  BY <1>7, <1>8, FS_CardinalityType
<1>10. /\ IsFiniteSet(WarmKeys \cup cold)
       /\ Cardinality(WarmKeys \cup cold) = Cardinality(WarmKeys) + Cardinality(cold)
  <2>1. WarmKeys \cap cold = {}
    OBVIOUS
  <2>2. Cardinality(WarmKeys \cap cold) = 0
    BY <2>1, FS_EmptySet
  <2>3. /\ IsFiniteSet(WarmKeys \cup cold)
        /\ Cardinality(WarmKeys \cup cold) =
             Cardinality(WarmKeys) + Cardinality(cold) - Cardinality(WarmKeys \cap cold)
    BY <1>7, <1>8, FS_Union
  <2> QED
    BY <1>9, <2>2, <2>3
<1>11. Cached \subseteq WarmKeys \cup cold
  OBVIOUS
<1>12. IsFiniteSet(Cached) /\ Cardinality(Cached) <= Cardinality(WarmKeys \cup cold)
  BY <1>10, <1>11, FS_Subset
<1>13. Cardinality(Cached) \in Nat
  BY <1>12, FS_CardinalityType
<1> QED
  BY <1>1, <1>7, <1>9, <1>10, <1>12, <1>13

\* A thread that is not at its end, before and after, is pending to the caller.
LEMMA PendingKeeps ==
  ASSUME BaseInv, NEW r \in Requests, Thread(r), pc'[r] # "done"
  PROVE  StatusOf' = StatusOf
<1>1. pc[r] # "done"
  BY Settled DEF BaseInv
<1>2. \A q \in Requests : q # r => pc'[q] = pc[q] /\ outcome'[q] = outcome[q]
  BY OthersKeep DEF BaseInv
<1>3. \A q \in Requests : StatusOf'[q] = StatusOf[q]
  BY <1>1, <1>2 DEF StatusOf
<1> QED
  BY <1>3 DEF StatusOf

\* A thread that comes to its end settles its own request only.
LEMMA DoneSettles ==
  ASSUME BaseInv, NEW r \in Requests, Thread(r), pc'[r] = "done", pc[r] # "done",
         UNCHANGED <<calls, cache>>, outcome'[r] \in Answered => KeyOf[r] \in Cached
  PROVE  Answers!Answer(r) \/ Answers!Fail(r)
<1> DEFINE end == IF outcome'[r] \in Answered THEN "answered" ELSE "failed"
<1>1. \A q \in Requests : q # r => pc'[q] = pc[q] /\ outcome'[q] = outcome[q]
  BY OthersKeep DEF BaseInv
<1>2. StatusOf[r] = "pending"
  BY DEF StatusOf
<1>3. StatusOf' = [StatusOf EXCEPT ![r] = end]
  BY <1>1 DEF StatusOf
<1>4. Cached' = Cached /\ Len(calls') = Len(calls)
  BY DEF Cached
<1>5. CASE outcome'[r] \in Answered
  BY <1>2, <1>3, <1>4, <1>5 DEF Answers!Answer, StatusOf, Cached
<1>6. CASE outcome'[r] \notin Answered
  BY <1>2, <1>3, <1>4, <1>6 DEF Answers!Fail, StatusOf, Cached
<1> QED
  BY <1>5, <1>6

\* An answered call is paid for, and the ceiling had room for it.
LEMMA CallPays ==
  ASSUME BaseInv, CallCeiling, NEW r \in Requests, Thread(r), pc[r] = "calling"
  PROVE  Answers!Pay
<1>1. ReplyArrives(r) \/ TransientError(r) \/ PermanentError(r)
  BY CallEnds DEF BaseInv
<1>2. pc'[r] # "done" /\ cache' = cache
  BY <1>1 DEF ReplyArrives, TransientError, PermanentError, Move, Surface, BaseInv, TypeOK
<1>3. StatusOf' = StatusOf /\ Cached' = Cached
  BY <1>2, PendingKeeps DEF Cached
<1>4. Len(calls) \in Nat /\ Len(calls') = Len(calls) + 1
  BY <1>1, ReplyLogged, TransientLogged, PermanentLogged DEF Logs, BaseInv
<1>5. MaxCalls # None => Len(calls) < MaxCalls
  <2>1. /\ Cardinality(InFlight) \in Nat
        /\ Cardinality(InFlight) # 0
    <3>1. r \in InFlight
      BY DEF InFlight
    <3> QED
      BY <3>1, InFlightFinite, FS_CardinalityType, FS_EmptySet
  <2>2. MaxCalls # None => MaxCalls \in Nat
    BY StackAssumption
  <2> QED
    BY <1>4, <2>1, <2>2 DEF CallCeiling
<1> QED
  BY <1>3, <1>4, <1>5 DEF Answers!Pay, StatusOf, Cached

\* The promise counts as the stack does.
LEMMA SameCount == \A S : Answers!Cardinality(S) = Cardinality(S)
BY DEF Answers!Cardinality, Cardinality

\* What a thread stores is news to the promise once: the first time.
LEMMA StoreRemembers ==
  ASSUME BaseInv, CacheOK, NEW r \in Requests, Store(r)
  PROVE  Answers!Remember(KeyOf[r]) \/ UNCHANGED Answers!vars
<1>0. Thread(r)
  BY DEF Thread
<1>1. /\ pc[r] = "store" /\ pc'[r] # "done" /\ calls' = calls
      /\ cache' = [cache EXCEPT ![KeyOf[r]] = held[r]]
  BY DEF Store, Surface, Move, BaseInv, TypeOK
<1>2. StatusOf' = StatusOf
  BY <1>0, <1>1, PendingKeeps
<1>3. KeyOf[r] \in Keys
  BY StackAssumption
<1>4. held[r] # Absent
  <2>1. held[r] \in 1..Len(calls) /\ Len(calls) \in Nat
    BY <1>1 DEF BaseInv, HeldOK, TypeOK
  <2> QED
    BY <2>1 DEF Absent
<1>5. Cached' = Cached \cup {KeyOf[r]}
  BY <1>1, <1>3, <1>4 DEF Cached, BaseInv, TypeOK
<1>6. CASE KeyOf[r] \in Cached
  BY <1>1, <1>2, <1>5, <1>6 DEF Answers!vars, StatusOf, Cached
<1>7. CASE KeyOf[r] \notin Cached
  <2>1. Cardinality(Cached) < Cardinality(WarmKeys) + Len(calls)
    BY <1>7, StoreHasRoom
  <2> QED
    BY <1>1, <1>2, <1>5, <1>7, <2>1, SameCount DEF Answers!Remember, StatusOf, Cached
<1> QED
  BY <1>6, <1>7

LEMMA ThreadKeepsPromise ==
  ASSUME BaseInv, CallCeiling, CacheOK, AnswersAreCached,
         NEW r \in Requests, Thread(r)
  PROVE  [Answers!Next]_(Answers!vars)
<1>1. CASE pc[r] = "calling"
  BY <1>1, CallPays DEF Answers!Next
<1>2. CASE Store(r)
  <2>1. KeyOf[r] \in Keys
    BY StackAssumption
  <2> QED
    BY <1>2, <2>1, StoreRemembers DEF Answers!Next
<1>3. CASE pc[r] # "calling" /\ ~Store(r)
  <2>1. cache' = cache
    BY <1>3, CacheWrites
  <2>2. calls' = calls
    BY <1>3 DEF Thread, Start, LookupHit, LookupMiss, LookupFails, Reserve, Refuse,
       WakeUp, ReplyArrives, TransientError, PermanentError, Accept, Reject, Store,
       StoreFails, Emit, EmitFails, Move, Surface
  <2>3. CASE pc'[r] # "done"
    BY <2>1, <2>2, <2>3, PendingKeeps DEF Answers!vars, StatusOf, Cached
  <2>4. CASE pc'[r] = "done"
    <3>1. pc[r] # "done"
      <4>1. (Emit(r) \/ EmitFails(r)) => pc[r] = "emit"
        BY DEF Emit, EmitFails, Move
      <4> QED
        BY <4>1, Settled DEF BaseInv
    <3>2. outcome'[r] \in Answered => KeyOf[r] \in Cached
      <4>1. AnswersAreCached'
        BY CachedStep
      <4> QED
        BY <2>1, <4>1 DEF AnswersAreCached, Cached
    <3>3. Answers!Answer(r) \/ Answers!Fail(r)
      BY <2>1, <2>2, <2>4, <3>1, <3>2, DoneSettles
    <3> QED
      BY <3>3 DEF Answers!Next
  <2> QED
    BY <2>3, <2>4
<1> QED
  BY <1>1, <1>2, <1>3

\* However its threads interleave, the stack is what PaidAnswers says of it:
\* within the ceiling, a call for every key it adds to the cache, and answers
\* from the cache only. Enrichment builds on nothing else.
THEOREM StackKeepsPromise == Spec => AnswersSpec
<1>1. Init => Answers!Init /\ AnswersAreCached
  <2> SUFFICES ASSUME Init PROVE Answers!Init /\ AnswersAreCached
    OBVIOUS
  <2>1. StatusOf = [r \in Requests |-> "pending"]
    BY DEF Init, StatusOf
  <2>2. Len(calls) = 0
    BY DEF Init
  <2>3. Cached = WarmKeys
    BY StackAssumption DEF Init, Cached, Absent, Earlier
  <2>4. AnswersAreCached
    BY DEF Init, AnswersAreCached, Answered
  <2> QED
    BY <2>1, <2>2, <2>3, <2>4 DEF Answers!Init, StatusOf, Cached
<1>2. BaseInv /\ AnswersAreCached /\ [Next]_vars => AnswersAreCached'
  <2>1. CASE Collect \/ UNCHANGED vars
    BY <2>1 DEF Collect, vars, AnswersAreCached, Cached
  <2> QED
    BY <2>1, CachedStep DEF Next, Returned
<1>3. BaseInv /\ CallCeiling /\ CacheOK /\ AnswersAreCached /\ [Next]_vars
        => [Answers!Next]_(Answers!vars)
  <2>1. CASE Collect \/ UNCHANGED vars
    BY <2>1 DEF Collect, vars, Answers!vars
  <2> QED
    BY <2>1, ThreadKeepsPromise DEF Next, Returned
<1> QED
  BY <1>1, <1>2, <1>3, BaseCorrect, CeilingHolds, UsesCorrect, PTL
  DEF Spec, AnswersSpec, Answers!Spec

=============================================================================
