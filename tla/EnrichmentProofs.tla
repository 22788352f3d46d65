-------------------------- MODULE EnrichmentProofs --------------------------
(***************************************************************************)
(* Proofs about Enrichment, for graphs of any size and shape, any          *)
(* threshold and any ceiling: what the two passes spend was consented to,  *)
(* each record has its own node's reply, and the budget of failures alone  *)
(* decides whether Pass 1 is given up.                                     *)
(***************************************************************************)
EXTENDS Enrichment, ListProofs

\* Where a run is that the cost gate has not let through.
AtGate == {"gate", "stopped"}

\* The gate comes before every request, and nothing passes it unasked.
GateInv ==
  /\ flags \in Flags
  /\ step \in AtGate => \A r \in Requests : status[r] = "pending"
  /\ step \notin AtGate => consent \/ Waived

-----------------------------------------------------------------------------
\* The estimate is the number of the requests there are: none can be missing
\* from it.
LEMMA EstimateCoversAll ==
  ASSUME NEW R \in SUBSET Requests
  PROVE  /\ Cardinality(R) \in Nat
         /\ Cardinality(R) <= Estimate
  <1>1. IsFiniteSet(Requests) /\ Cardinality(Requests) = NumNodes + 1
    <2>1. NumNodes \in Nat
      BY EnrichmentAssumption DEF EnrichmentAssumption
    <2>2. 0 \in Int /\ NumNodes \in Int /\ ~ (0 > NumNodes)
      BY <2>1
    <2>3. IsFiniteSet(0..NumNodes) /\ Cardinality(0..NumNodes) = NumNodes - 0 + 1
      BY <2>2, FS_Interval
    <2> QED BY <2>1, <2>3 DEF Requests
  <1>2. IsFiniteSet(R) /\ Cardinality(R) <= Cardinality(Requests)
    BY <1>1, FS_Subset
  <1>3. Cardinality(R) \in Nat
    BY <1>2, FS_CardinalityType
  <1> QED BY <1>1, <1>2, <1>3 DEF Estimate

LEMMA InitGate == Init => GateInv
  BY DEF Init, GateInv, AtGate, Provider!Init

\* What happens behind the gate keeps it: no such step goes back, and none
\* changes the flags or takes the consent away.
LEMMA BehindTheGate ==
  ASSUME GateInv, UNCHANGED <<flags, consent>>,
         step \notin AtGate, step' \notin AtGate
  PROVE  GateInv'
  BY DEF GateInv, Waived, Estimate

LEMMA NextGate == GateInv /\ [Next]_vars => GateInv'
  <1> SUFFICES ASSUME GateInv, [Next]_vars PROVE GateInv'
    OBVIOUS
  <1>1. CASE UNCHANGED vars
    BY <1>1 DEF vars, provider, GateInv, Waived, Estimate
  <1>2. CASE GateOpens
    BY <1>2 DEF GateOpens, Goto, provider, GateInv, AtGate, Waived, Estimate
  <1>3. CASE Confirm
    BY <1>3 DEF Confirm, Goto, provider, GateInv, AtGate, Waived, Estimate
  <1>4. CASE Decline \/ GateStops
    BY <1>4 DEF Decline, GateStops, Goto, provider, GateInv, AtGate
  <1>5. CASE Load \/ LoadCrashes
    BY <1>5, BehindTheGate DEF Load, LoadCrashes, Goto, AtGate
  <1>6. CASE Pass1Works \/ Pass2Works
    BY <1>6, BehindTheGate DEF Pass1Works, Pass2Works, Progress, AtGate
  <1>7. CASE Annotate \/ GiveUp
    BY <1>7, BehindTheGate DEF Annotate, GiveUp, Pass1Returns, AtGate
  <1>8. CASE Synthesize \/ SynthesisFails
    BY <1>8, BehindTheGate DEF Synthesize, SynthesisFails, Goto, AtGate
  <1> QED
    BY <1>1, <1>2, <1>3, <1>4, <1>5, <1>6, <1>7, <1>8
    DEF Next, Prompted, Unattended, Ended

LEMMA GateMeansConsent == GateInv => ConsentedSpend
  <1> SUFFICES ASSUME GateInv PROVE ConsentedSpend
    OBVIOUS
  <1> DEFINE made == {r \in Requests : status[r] # "pending"}
  <1>1. Cardinality(made) \in Nat /\ Cardinality(made) <= Estimate
    BY EstimateCoversAll
  <1>2. flags.threshold \in Nat /\ Estimate \in Nat
    <2>1. Thresholds \subseteq Nat /\ NumNodes \in Nat
      BY EnrichmentAssumption DEF EnrichmentAssumption
    <2>2. flags.threshold \in Thresholds
      BY DEF GateInv, Flags
    <2>3. flags.threshold \in Nat
      BY <2>1, <2>2, Zenon
    <2>4. Estimate \in Nat
      BY <2>1 DEF Estimate
    <2> QED BY <2>3, <2>4
  <1> SUFFICES ASSUME Cardinality(made) > flags.threshold
               PROVE  consent \/ flags.yes \/ flags.nonInteractive
    BY DEF ConsentedSpend
  <1>3. ~ (Estimate <= flags.threshold)
    BY <1>1, <1>2
  <1>4. made # {}
    <2> SUFFICES ASSUME made = {} PROVE FALSE
      OBVIOUS
    <2>1. Cardinality(made) = 0
      BY FS_EmptySet
    <2> QED BY <2>1, <1>2
  <1>5. consent \/ Waived
    BY <1>4 DEF GateInv
  <1> QED BY <1>3, <1>5 DEF Waived

\* However the batch goes, what a run puts to the LLM stack beyond the threshold
\* somebody consented to (ConfirmationGate.check before either pass).
THEOREM SpendIsConsented == Spec => []ConsentedSpend
  <1>1. Init => GateInv
    BY InitGate
  <1>2. GateInv /\ [Next]_vars => GateInv'
    BY NextGate
  <1> QED BY <1>1, <1>2, GateMeansConsent, PTL DEF Spec

(***************************************************************************)
(* Types                                                                   *)
(***************************************************************************)
Statuses == {"pending", "answered", "failed"}

TypeInv ==
  /\ shape \in [Nodes -> Shapes]
  /\ flags \in Flags
  /\ step \in Steps
  /\ consent \in BOOLEAN
  /\ status \in [Requests -> Statuses]
  /\ paid \in 0..MaxPaid
  /\ stored \subseteq Requests
  /\ overview \in BOOLEAN
  /\ step = "enriched" <=> overview

\* The nodes of one shape, each once.
LEMMA NodesOfShape ==
  ASSUME NEW sh, NEW S, S = {n \in Nodes : shape[n] = sh}
  PROVE  /\ NodesOf(sh) \in Seq(S) /\ Len(NodesOf(sh)) = Cardinality(S) /\ IsFiniteSet(S)
         /\ \A i, j \in DOMAIN NodesOf(sh) : NodesOf(sh)[i] = NodesOf(sh)[j] => i = j
         /\ {NodesOf(sh)[i] : i \in DOMAIN NodesOf(sh)} = S
  <1>1. NumNodes \in Nat /\ S \in SUBSET (1..NumNodes)
    BY EnrichmentAssumption DEF EnrichmentAssumption, Nodes
  <1>2. NodesOf(sh) = Keep([n \in 1..NumNodes |-> n], S)
    BY DEF NodesOf
  <1> DEFINE k == Keep([n \in 1..NumNodes |-> n], S)
  <1>3. /\ k \in Seq(S) /\ Len(k) = Cardinality(S) /\ IsFiniteSet(S)
        /\ \A i, j \in DOMAIN k : k[i] = k[j] => i = j
        /\ {k[i] : i \in DOMAIN k} = S
    BY ONLY <1>1, KeepNumbers
  <1> HIDE DEF k
  <1>4. NodesOf(sh) = k
    BY <1>2 DEF k
  <1> QED BY <1>3, <1>4

\* The batch: what stands where in it.
LEMMA BatchPlaces ==
  /\ Normal \in Seq(Nodes) /\ Oversized \in Seq(Nodes) /\ Batch \in Seq(Nodes)
  /\ Len(Normal) \in Nat /\ Len(Oversized) \in Nat
  /\ DOMAIN Batch = 1..(Len(Normal) + Len(Oversized))
  /\ \A i \in DOMAIN Normal : i \in DOMAIN Batch /\ Batch[i] = Normal[i]
  /\ \A i \in DOMAIN Oversized : /\ Len(Normal) + i \in DOMAIN Batch
                                 /\ Batch[Len(Normal) + i] = Oversized[i]
  <1>1. \A sh : NodesOf(sh) \in Seq(Nodes)
    <2> TAKE sh
    <2> DEFINE S == {n \in Nodes : shape[n] = sh}
    <2>1. NodesOf(sh) \in Seq(S) /\ S \subseteq Nodes
      BY NodesOfShape
    <2> HIDE DEF S
    <2> QED BY <2>1
  <1>2. Normal \in Seq(Nodes) /\ Oversized \in Seq(Nodes)
    BY <1>1 DEF Normal, Oversized
  <1>3. Batch \in Seq(Nodes) /\ Len(Batch) = Len(Normal) + Len(Oversized)
    BY <1>2 DEF Batch
  <1>4. \A i \in DOMAIN Normal : i \in DOMAIN Batch /\ Batch[i] = Normal[i]
    BY <1>2 DEF Batch
  <1>5. \A i \in DOMAIN Oversized : /\ Len(Normal) + i \in DOMAIN Batch
                                   /\ Batch[Len(Normal) + i] = Oversized[i]
    BY <1>2 DEF Batch
  <1> QED BY <1>2, <1>3, <1>4, <1>5

\* The batch has each class-like node once, so Submitted is what it submits.
LEMMA BatchIsComplete ==
  ASSUME shape \in [Nodes -> Shapes]
  PROVE  /\ \A i, j \in DOMAIN Batch : Batch[i] = Batch[j] => i = j
         /\ {Batch[i] : i \in DOMAIN Batch} = Submitted
  <1> DEFINE N == {n \in Nodes : shape[n] = "normal"}
             O == {n \in Nodes : shape[n] = "oversized"}
  <1>1. /\ Normal \in Seq(N) /\ {Normal[i] : i \in DOMAIN Normal} = N
        /\ \A i, j \in DOMAIN Normal : Normal[i] = Normal[j] => i = j
    BY NodesOfShape DEF Normal
  <1>2. /\ Oversized \in Seq(O) /\ {Oversized[i] : i \in DOMAIN Oversized} = O
        /\ \A i, j \in DOMAIN Oversized : Oversized[i] = Oversized[j] => i = j
    BY NodesOfShape DEF Oversized
  <1>3. N \cup O = Submitted /\ N \cap O = {}
    BY EnrichmentAssumption DEF EnrichmentAssumption, Submitted, ClassLike
  <1> HIDE DEF N, O
  <1>4. ASSUME NEW i \in DOMAIN Batch
        PROVE  \/ i \in DOMAIN Normal /\ Batch[i] = Normal[i] /\ Batch[i] \in N
               \/ \E p \in DOMAIN Oversized : /\ i = Len(Normal) + p
                                             /\ Batch[i] = Oversized[p] /\ Batch[i] \in O
    <2>1. CASE i <= Len(Normal)
      BY <1>1, <2>1, BatchPlaces
    <2>2. CASE ~ (i <= Len(Normal))
      <3>1. i - Len(Normal) \in DOMAIN Oversized /\ i = Len(Normal) + (i - Len(Normal))
        BY <2>2, BatchPlaces
      <3> QED BY <1>2, <3>1, BatchPlaces
    <2> QED BY <2>1, <2>2
  <1>5. ASSUME NEW i \in DOMAIN Batch, NEW j \in DOMAIN Batch, Batch[i] = Batch[j]
        PROVE  i = j
    BY <1>1, <1>2, <1>3, <1>4, <1>5
  <1>6. {Batch[i] : i \in DOMAIN Batch} \subseteq N \cup O
    BY <1>4
  <1>7. N \cup O \subseteq {Batch[i] : i \in DOMAIN Batch}
    BY <1>1, <1>2, BatchPlaces
  <1> QED BY <1>3, <1>5, <1>6, <1>7

\* What a step of the stack does to the requests R: those settled stay so.
LEMMA ProgressKeeps ==
  ASSUME TypeInv, NEW R \in SUBSET Requests, Progress(R)
  PROVE  /\ TypeInv'
         /\ \A r \in Requests : status[r] # "pending" => status'[r] = status[r]
         /\ UNCHANGED <<shape, step, records>>
  <1>1. UNCHANGED <<shape, flags, step, consent, records, overview>>
    BY DEF Progress
  <1>2. CASE paid < MaxPaid /\ Provider!Pay
    <2>1. paid' \in 0..MaxPaid /\ UNCHANGED <<status, stored>>
      <3>1. MaxPaid \in Nat
        BY EnrichmentAssumption DEF EnrichmentAssumption
      <3> QED BY <1>2, <3>1 DEF Provider!Pay, TypeInv
    <2> QED BY <1>1, <2>1 DEF TypeInv
  <1>3. ASSUME NEW r \in R, Provider!Remember(r)
        PROVE  stored' \subseteq Requests /\ UNCHANGED <<status, paid>>
    BY <1>3 DEF Provider!Remember, TypeInv
  <1>4. ASSUME NEW r \in R, Provider!Answer(r) \/ Provider!Fail(r)
        PROVE  /\ status' \in [Requests -> Statuses] /\ UNCHANGED <<paid, stored>>
               /\ \A q \in Requests : status[q] # "pending" => status'[q] = status[q]
    BY <1>4 DEF Provider!Answer, Provider!Fail, TypeInv, Statuses
  <1>5. CASE \E r \in R : Provider!Remember(r)
    BY <1>1, <1>3, <1>5 DEF TypeInv
  <1>6. CASE \E r \in R : Provider!Answer(r) \/ Provider!Fail(r)
    BY <1>1, <1>4, <1>6 DEF TypeInv
  <1> QED BY <1>1, <1>2, <1>5, <1>6 DEF Progress

\* A step changes the shape of no node, and no request once it is settled.
LEMMA NextKeeps ==
  ASSUME TypeInv, [Next]_vars
  PROVE  /\ TypeInv'
         /\ shape' = shape
         /\ \A r \in Requests : status[r] # "pending" => status'[r] = status[r]
  <1>1. CASE UNCHANGED vars
    BY <1>1 DEF vars, provider, TypeInv
  <1>2. CASE GateOpens \/ Confirm \/ Decline \/ GateStops
    <2>1. /\ UNCHANGED <<shape, flags, status, paid, stored, overview>>
          /\ step \notin {"enriched"} /\ step' \in {"load", "stopped"}
          /\ consent' \in BOOLEAN
      BY <1>2 DEF GateOpens, Confirm, Decline, GateStops, Goto, provider, TypeInv
    <2> QED BY <2>1 DEF TypeInv, Steps, Terminal
  <1>3. CASE Load \/ LoadCrashes
    BY <1>3 DEF Load, LoadCrashes, Goto, provider, TypeInv, Steps, Terminal
  <1>4. CASE Pass1Works
    <2>1. Submitted \in SUBSET Requests
      BY EnrichmentAssumption DEF EnrichmentAssumption, Nodes, Requests, Submitted, ClassLike
    <2> QED BY <1>4, <2>1, ProgressKeeps DEF Pass1Works
  <1>5. CASE Pass2Works
    <2>1. {Synthesis} \in SUBSET Requests
      BY EnrichmentAssumption DEF EnrichmentAssumption, Synthesis, Requests
    <2> QED BY <1>5, <2>1, ProgressKeeps DEF Pass2Works
  <1>6. CASE Annotate \/ GiveUp
    BY <1>6 DEF Annotate, GiveUp, Pass1Returns, provider, TypeInv, Steps, Terminal
  <1>7. CASE Synthesize
    BY <1>7 DEF Synthesize, Goto, provider, TypeInv, Steps, Terminal
  <1>8. CASE SynthesisFails
    BY <1>8 DEF SynthesisFails, Goto, provider, TypeInv, Steps, Terminal
  <1> QED
    BY <1>1, <1>2, <1>3, <1>4, <1>5, <1>6, <1>7, <1>8 DEF Next, Prompted, Unattended, Ended

(***************************************************************************)
(* Records                                                                 *)
(***************************************************************************)
Pass1Done == \A r \in Submitted : status[r] # "pending"

\* The records as Annotate makes them.
Recorded == [i \in DOMAIN Normal |-> NormalRecord(i)]
              \o [i \in DOMAIN Oversized |-> OversizedRecord(i)]

\* The records, once there are any, are those of a settled batch that failed
\* little enough; and a run without them has been given up because of too much.
RecordsInv ==
  /\ step \in {"gate", "load", "pass1", "stopped", "crashed"} => records = None
  /\ step \in {"pass2", "enriched"} => records # None
  /\ records # None => Pass1Done /\ ~TooManyFailures /\ records = Recorded
  /\ step = "aborted" /\ records = None => Pass1Done /\ TooManyFailures

IInv == TypeInv /\ RecordsInv

\* What the batch came to is the same for ever, since its requests are settled.
LEMMA SettledBatch ==
  ASSUME TypeInv, Pass1Done, shape' = shape,
         \A r \in Requests : status[r] # "pending" => status'[r] = status[r]
  PROVE  Pass1Done' /\ (TooManyFailures' <=> TooManyFailures) /\ Recorded' = Recorded
  <1>1. Normal' = Normal /\ Oversized' = Oversized /\ Batch' = Batch /\ Submitted' = Submitted
    BY DEF Normal, Oversized, Batch, NodesOf, Nodes, Submitted, ClassLike
  <1>2. Submitted \subseteq Requests
    BY EnrichmentAssumption DEF EnrichmentAssumption, Nodes, Requests, Submitted, ClassLike
  <1>3. Pass1Done'
    BY <1>1, <1>2 DEF Pass1Done
  <1>4. ASSUME NEW i \in DOMAIN Batch PROVE Result(i)' = Result(i)
    <2>1. Batch[i] \in Submitted
      BY BatchIsComplete DEF TypeInv
    <2>2. status'[Batch[i]] = status[Batch[i]]
      BY <1>2, <2>1 DEF Pass1Done
    <2> QED BY <1>1, <2>2 DEF Result, Answered
  <1>5. \A i \in DOMAIN Normal : i \in DOMAIN Batch /\ Result(i)' = Result(i)
    BY <1>4, BatchPlaces
  <1>6. Failures' = Failures
    BY <1>1, <1>5 DEF Failures
  <1>7. TooManyFailures' <=> TooManyFailures
    BY <1>1, <1>6 DEF TooManyFailures
  <1>8. \A i \in DOMAIN Normal : NormalRecord(i)' = NormalRecord(i)
    BY <1>1, <1>5 DEF NormalRecord
  <1>9. \A i \in DOMAIN Oversized : OversizedRecord(i)' = OversizedRecord(i)
    <2> TAKE i \in DOMAIN Oversized
    <2>1. Result(Len(Normal) + i)' = Result(Len(Normal) + i)
      BY <1>1, <1>4, BatchPlaces DEF Result, Answered
    <2> QED BY <1>1, <2>1 DEF OversizedRecord
  <1>10. Recorded' = Recorded
    BY <1>1, <1>8, <1>9 DEF Recorded
  <1> QED BY <1>3, <1>7, <1>10

\* The records are a list, which None is not.
LEMMA RecordedType == Recorded \in Seq(AnnotationRecords)
  <1>1. \A i \in DOMAIN Batch : Result(i) \in Nodes \cup {None}
    BY BatchPlaces DEF Result
  <1>2. ASSUME NEW i \in DOMAIN Normal PROVE NormalRecord(i) \in AnnotationRecords
    <2>1. Normal[i] \in Nodes /\ Result(i) \in Nodes \cup {None}
      BY <1>1, BatchPlaces
    <2> QED BY <2>1 DEF NormalRecord, AnnotationRecords
  <1>3. ASSUME NEW i \in DOMAIN Oversized PROVE OversizedRecord(i) \in AnnotationRecords
    <2>1. Oversized[i] \in Nodes /\ Result(Len(Normal) + i) \in Nodes \cup {None}
      BY <1>1, BatchPlaces
    <2> QED BY <2>1 DEF OversizedRecord, AnnotationRecords
  <1> DEFINE n == Len(Normal)
             o == Len(Oversized)
  <1>0. n \in Nat /\ DOMAIN Normal = 1..n /\ o \in Nat /\ DOMAIN Oversized = 1..o
    BY BatchPlaces
  <1> HIDE DEF n, o
  <1>4. [i \in DOMAIN Normal |-> NormalRecord(i)] \in Seq(AnnotationRecords)
    BY <1>0, <1>2
  <1>5. [i \in DOMAIN Oversized |-> OversizedRecord(i)] \in Seq(AnnotationRecords)
    BY <1>0, <1>3
  <1> QED BY <1>4, <1>5 DEF Recorded

LEMMA InitRecords == Init => IInv
  <1> SUFFICES ASSUME Init PROVE IInv
    OBVIOUS
  <1>1. MaxPaid \in Nat /\ WarmKeys \subseteq Requests
    BY EnrichmentAssumption DEF EnrichmentAssumption
  <1>2. TypeInv
    <2>1. status \in [Requests -> Statuses]
      BY DEF Init, Provider!Init, Statuses
    <2>2. paid \in 0..MaxPaid /\ stored \subseteq Requests
      BY <1>1 DEF Init, Provider!Init
    <2>3. step \in Steps /\ step # "enriched" /\ overview = FALSE /\ consent = FALSE
      BY DEF Init, Steps
    <2> QED BY <2>1, <2>2, <2>3 DEF Init, TypeInv
  <1>3. RecordsInv
    BY DEF Init, RecordsInv
  <1> QED BY <1>2, <1>3 DEF IInv

LEMMA NextRecords == IInv /\ [Next]_vars => IInv'
  <1> SUFFICES ASSUME IInv, [Next]_vars PROVE IInv'
    OBVIOUS
  <1>1. /\ TypeInv' /\ shape' = shape
        /\ \A r \in Requests : status[r] # "pending" => status'[r] = status[r]
    BY NextKeeps DEF IInv
  <1>2. Pass1Done => Pass1Done' /\ (TooManyFailures' <=> TooManyFailures) /\ Recorded' = Recorded
    BY <1>1, SettledBatch DEF IInv
  <1>3. CASE Annotate
    <2>1. /\ Pass1Done /\ ~TooManyFailures /\ records' = Recorded
          /\ step' = "pass2"
      BY <1>3 DEF Annotate, Pass1Returns, Pass1Done, Recorded
    <2>2. records' # None
      BY <2>1, RecordedType, EnrichmentAssumption DEF EnrichmentAssumption
    <2> QED BY <1>1, <1>2, <2>1, <2>2 DEF IInv, RecordsInv
  <1>4. CASE GiveUp
    <2>1. /\ Pass1Done /\ TooManyFailures /\ records' = records /\ records = None
          /\ step' = "aborted"
      BY <1>4 DEF GiveUp, Pass1Returns, Pass1Done, IInv, RecordsInv
    <2> QED BY <1>1, <1>2, <2>1 DEF IInv, RecordsInv
  <1>5. CASE \/ UNCHANGED vars \/ Prompted \/ GateOpens \/ GateStops \/ Load \/ LoadCrashes
             \/ Pass1Works \/ Pass2Works \/ Synthesize \/ SynthesisFails
    <2>1. /\ records' = records
          /\ \/ step' = step
             \/ step' \in {"load", "pass1", "stopped", "crashed"} /\ step \in {"gate", "load"}
             \/ step = "pass2" /\ step' \in {"enriched", "aborted"}
      BY <1>5 DEF vars, provider, Prompted, Confirm, Decline, GateOpens, GateStops, Load,
                  LoadCrashes, Pass1Works, Pass2Works, Progress, Synthesize, SynthesisFails, Goto
    <2>2. RecordsInv'
      <3>1. /\ step' \in {"gate", "load", "pass1", "stopped", "crashed"} => records' = None
            /\ step' \in {"pass2", "enriched"} => records' # None
        BY <2>1 DEF IInv, RecordsInv
      <3>2. step' = "aborted" /\ records' = None => step = "aborted" /\ records = None
        BY <2>1 DEF IInv, RecordsInv
      <3> QED BY <1>2, <2>1, <3>1, <3>2 DEF IInv, RecordsInv
    <2> QED BY <1>1, <2>2 DEF IInv
  <1> QED BY <1>3, <1>4, <1>5 DEF Next, Unattended, Ended

LEMMA EnrichmentInvariant == Spec => []IInv
  BY InitRecords, NextRecords, PTL DEF Spec

\* Every variable of the two passes keeps its type, and a run counts as
\* enriched when the overview is in the graph, and not before.
THEOREM EnrichmentTypes == Spec => []TypeOK
  <1>1. IInv => TypeOK
    BY RecordedType DEF IInv, TypeInv, RecordsInv, TypeOK, Statuses
  <1> QED BY <1>1, EnrichmentInvariant, PTL

LEMMA RecordedPlaces ==
  /\ Len(Recorded) = Len(Normal) + Len(Oversized)
  /\ DOMAIN Recorded = 1..(Len(Normal) + Len(Oversized))
  /\ \A i \in DOMAIN Normal : i \in DOMAIN Recorded /\ Recorded[i] = NormalRecord(i)
  /\ \A i \in DOMAIN Oversized : /\ Len(Normal) + i \in DOMAIN Recorded
                                 /\ Recorded[Len(Normal) + i] = OversizedRecord(i)
  /\ \A i \in DOMAIN Recorded : \/ i \in DOMAIN Normal
                                \/ \E p \in DOMAIN Oversized : i = Len(Normal) + p
  <1> DEFINE n == Len(Normal)
             o == Len(Oversized)
             first == [i \in DOMAIN Normal |-> NormalRecord(i)]
             last  == [i \in DOMAIN Oversized |-> OversizedRecord(i)]
  <1>1. n \in Nat /\ DOMAIN Normal = 1..n /\ o \in Nat /\ DOMAIN Oversized = 1..o
    BY BatchPlaces
  <1>2. /\ first \in Seq({NormalRecord(i) : i \in 1..n}) /\ Len(first) = n
        /\ last \in Seq({OversizedRecord(i) : i \in 1..o}) /\ Len(last) = o
        /\ \A i \in 1..n : first[i] = NormalRecord(i)
        /\ \A i \in 1..o : last[i] = OversizedRecord(i)
    <2> HIDE DEF n, o
    <2> QED BY <1>1
  <1>3. Recorded = first \o last
    BY DEF Recorded
  <1> HIDE DEF n, o, first, last
  <1>4. Len(Recorded) = n + o /\ DOMAIN Recorded = 1..(n + o)
    BY <1>1, <1>2, <1>3
  <1>5. \A i \in 1..n : Recorded[i] = NormalRecord(i) /\ i \in 1..(n + o)
    BY <1>1, <1>2, <1>3
  <1>6. ASSUME NEW i \in 1..o
        PROVE  Recorded[n + i] = OversizedRecord(i) /\ n + i \in 1..(n + o)
    <2>1. n + i \in 1..(n + o) /\ ~ (n + i <= n) /\ (n + i) - n = i
      BY <1>1
    <2>2. (first \o last)[n + i] = last[i]
      BY <1>1, <1>2, <2>1
    <2> QED BY <1>2, <1>3, <2>1, <2>2
  <1>7. ASSUME NEW i \in 1..(n + o) PROVE i \in 1..n \/ \E p \in 1..o : i = n + p
    <2>1. CASE i <= n
      BY <1>1, <2>1
    <2>2. CASE ~ (i <= n)
      <3>1. i - n \in 1..o /\ i = n + (i - n)
        BY <1>1, <2>2
      <3> QED BY <3>1
    <2> QED BY <2>1, <2>2
  <1> QED BY <1>1, <1>4, <1>5, <1>6, <1>7 DEF n, o

\* The record of each node is right, however the batch went.
LEMMA RecordOfNode ==
  ASSUME TypeInv, NEW i \in DOMAIN Recorded
  PROVE  /\ Recorded[i].node \in ClassLike
         /\ Recorded[i].annotation
              = IF Answered(Recorded[i].node) THEN Recorded[i].node ELSE None
         /\ Recorded[i].mode = "signatures_only" <=> shape[Recorded[i].node] = "oversized"
         /\ ~Recorded[i].degraded
              <=> Answered(Recorded[i].node) /\ shape[Recorded[i].node] = "normal"
  <1>0. None \notin Nodes /\ None # "signatures_only"
    BY EnrichmentAssumption DEF EnrichmentAssumption, Nodes
  <1>1. CASE i \in DOMAIN Normal
    <2> DEFINE S == {n \in Nodes : shape[n] = "normal"}
               n == Normal[i]
    <2>1. n \in S
      <3>1. Normal \in Seq(S)
        BY NodesOfShape DEF Normal
      <3> HIDE DEF S
      <3> QED BY <1>1, <3>1
    <2>2. Recorded[i] = NormalRecord(i) /\ Batch[i] = n
      BY <1>1, RecordedPlaces, BatchPlaces
    <2>3. Result(i) = IF Answered(n) THEN n ELSE None
      BY <2>2 DEF Result
    <2>4. n \in ClassLike /\ n \in Nodes /\ shape[n] = "normal"
      BY <2>1 DEF ClassLike
    <2>5. /\ Recorded[i].node = n /\ Recorded[i].annotation = Result(i)
          /\ Recorded[i].mode = None /\ Recorded[i].degraded = (Result(i) = None)
      BY <2>2 DEF NormalRecord
    <2> HIDE DEF n
    <2>6. Result(i) = None <=> ~Answered(n)
      BY <1>0, <2>3, <2>4
    <2> QED BY <1>0, <2>3, <2>4, <2>5, <2>6
  <1>2. CASE \E p \in DOMAIN Oversized : i = Len(Normal) + p
    <2>0. PICK p \in DOMAIN Oversized : i = Len(Normal) + p
      BY <1>2
    <2> DEFINE S == {n \in Nodes : shape[n] = "oversized"}
               n == Oversized[p]
    <2>1. n \in S
      <3>1. Oversized \in Seq(S)
        BY NodesOfShape DEF Oversized
      <3> HIDE DEF S
      <3> QED BY <3>1
    <2>2. Recorded[i] = OversizedRecord(p) /\ Batch[i] = n
      BY <2>0, RecordedPlaces, BatchPlaces
    <2>3. Result(i) = IF Answered(n) THEN n ELSE None
      BY <2>2 DEF Result
    <2>4. n \in ClassLike /\ shape[n] = "oversized"
      BY <2>1 DEF ClassLike
    <2>5. /\ Recorded[i].node = n /\ Recorded[i].annotation = Result(i)
          /\ Recorded[i].mode = "signatures_only" /\ Recorded[i].degraded = TRUE
      BY <2>0, <2>2 DEF OversizedRecord
    <2> HIDE DEF n
    <2> QED BY <2>3, <2>4, <2>5
  <1> QED BY <1>1, <1>2, RecordedPlaces

\* How many nodes there are of the two shapes, and of both.
LEMMA ShapesCounted ==
  ASSUME TypeInv
  PROVE  /\ Len(Normal) = Cardinality({n \in Nodes : shape[n] = "normal"})
         /\ Len(Normal) + Len(Oversized) = Cardinality(ClassLike)
  <1> DEFINE N == {n \in Nodes : shape[n] = "normal"}
             O == {n \in Nodes : shape[n] = "oversized"}
  <1>1. Len(Normal) = Cardinality(N) /\ IsFiniteSet(N)
    BY NodesOfShape DEF Normal
  <1>2. Len(Oversized) = Cardinality(O) /\ IsFiniteSet(O)
    BY NodesOfShape DEF Oversized
  <1>3. N \cup O = ClassLike /\ N \cap O = {}
    BY EnrichmentAssumption DEF EnrichmentAssumption, ClassLike, TypeInv
  <1> HIDE DEF N, O
  <1>4. Cardinality(N \cup O) = Cardinality(N) + Cardinality(O) - Cardinality(N \cap O)
    BY <1>1, <1>2, FS_Union
  <1>5. Cardinality(N) \in Nat /\ Cardinality(O) \in Nat /\ Cardinality(N \cap O) = 0
    BY <1>1, <1>2, <1>3, FS_CardinalityType, FS_EmptySet
  <1>6. Len(Normal) + Len(Oversized) = Cardinality(ClassLike)
    <2>1. Cardinality(ClassLike) = Cardinality(N) + Cardinality(O) - 0
      BY <1>3, <1>4, <1>5
    <2>2. Cardinality(ClassLike) = Cardinality(N) + Cardinality(O)
      BY <1>5, <2>1
    <2> QED BY <1>1, <1>2, <2>2
  <1> QED BY <1>1, <1>6 DEF N

LEMMA RecordsAlign == IInv => AlignedRecords
  <1> SUFFICES ASSUME IInv, records # None PROVE AlignedRecords
    BY DEF AlignedRecords
  <1>1. TypeInv /\ records = Recorded
    BY DEF IInv, RecordsInv
  <1>2. Len(records) = Cardinality(ClassLike)
    BY <1>1, RecordedPlaces, ShapesCounted
  <1>3. {records[i].node : i \in DOMAIN records} \subseteq ClassLike
    BY <1>1, RecordOfNode
  <1>4. ASSUME NEW n \in ClassLike PROVE \E i \in DOMAIN records : records[i].node = n
    <2>1. shape[n] = "normal" \/ shape[n] = "oversized"
      BY <1>1, EnrichmentAssumption DEF EnrichmentAssumption, ClassLike, TypeInv
    <2>2. CASE shape[n] = "normal"
      <3> DEFINE S == {m \in Nodes : shape[m] = "normal"}
      <3>1. {Normal[i] : i \in DOMAIN Normal} = S /\ n \in S
        BY <2>2, NodesOfShape DEF Normal, ClassLike
      <3>2. PICK i \in DOMAIN Normal : Normal[i] = n
        BY <3>1
      <3>3. i \in DOMAIN records /\ records[i] = NormalRecord(i)
        BY <1>1, <3>2, RecordedPlaces
      <3>4. records[i].node = n
        BY <3>2, <3>3 DEF NormalRecord
      <3> QED BY <3>3, <3>4
    <2>3. CASE shape[n] = "oversized"
      <3> DEFINE S == {m \in Nodes : shape[m] = "oversized"}
      <3>1. {Oversized[i] : i \in DOMAIN Oversized} = S /\ n \in S
        BY <2>3, NodesOfShape DEF Oversized, ClassLike
      <3>2. PICK i \in DOMAIN Oversized : Oversized[i] = n
        BY <3>1
      <3> DEFINE p == Len(Normal) + i
      <3>3. p \in DOMAIN records /\ records[p] = OversizedRecord(i)
        BY <1>1, <3>2, RecordedPlaces
      <3>4. records[p].node = n
        BY <3>2, <3>3 DEF OversizedRecord
      <3> QED BY <3>3, <3>4
    <2> QED BY <2>1, <2>2, <2>3
  <1> QED BY <1>1, <1>2, <1>3, <1>4, RecordOfNode DEF AlignedRecords

\* For any graph, any order of results and any failures: one record for each
\* class-like node, with the reply to its own request, and marked as degraded
\* unless the answer is there and was given from the full source
\* (NodeAnnotator.annotate partitions, submits and zips the two lists).
THEOREM RecordsAreAligned == Spec => []AlignedRecords
  BY RecordsAlign, EnrichmentInvariant, PTL

\* The failures counted are those of the normal nodes.
LEMMA FailuresCounted ==
  ASSUME TypeInv, Pass1Done
  PROVE  /\ Failures = Cardinality({n \in Nodes : shape[n] = "normal" /\ status[n] = "failed"})
         /\ Failures \in Nat
  <1> DEFINE S == {n \in Nodes : shape[n] = "normal"}
             F == {n \in Nodes : shape[n] = "normal" /\ status[n] = "failed"}
             P == {i \in DOMAIN Normal : Result(i) = None}
             f == [i \in P |-> Normal[i]]
  <1>1. /\ Normal \in Seq(S) /\ {Normal[i] : i \in DOMAIN Normal} = S
        /\ \A i, j \in DOMAIN Normal : Normal[i] = Normal[j] => i = j
    BY NodesOfShape DEF Normal
  <1>2. ASSUME NEW i \in DOMAIN Normal PROVE Result(i) = None <=> status[Normal[i]] = "failed"
    <2>1. Normal[i] \in S /\ Batch[i] = Normal[i]
      <3> HIDE DEF S
      <3> QED BY <1>1, BatchPlaces
    <2>2. Normal[i] # None /\ Normal[i] \in Submitted /\ Normal[i] \in Requests
      BY <2>1, EnrichmentAssumption
      DEF EnrichmentAssumption, Nodes, Requests, Submitted, ClassLike
    <2>3. status[Normal[i]] \in {"answered", "failed"}
      BY <2>2 DEF Pass1Done, TypeInv, Statuses
    <2> QED BY <2>1, <2>2, <2>3 DEF Result, Answered
  <1>3. f \in [P -> F]
    <2> SUFFICES ASSUME NEW i \in P PROVE Normal[i] \in F
      OBVIOUS
    <2>1. Normal[i] \in S
      BY <1>1
    <2> QED BY <1>2, <2>1
  <1>4. \A i, j \in P : f[i] = f[j] => i = j
    BY <1>1
  <1>5. ASSUME NEW n \in F PROVE \E i \in P : f[i] = n
    <2>1. n \in S
      OBVIOUS
    <2>2. PICK i \in DOMAIN Normal : Normal[i] = n
      BY <1>1, <2>1
    <2>3. i \in P
      BY <1>2, <2>2
    <2> QED BY <2>2, <2>3
  <1>6. IsFiniteSet(P)
    <2>1. DOMAIN Normal = 1..Len(Normal) /\ Len(Normal) \in Int
      BY BatchPlaces
    <2>2. IsFiniteSet(1..Len(Normal))
      BY <2>1, FS_Interval
    <2>3. P \subseteq 1..Len(Normal)
      BY <2>1
    <2> QED BY <2>2, <2>3, FS_Subset
  <1> HIDE DEF P, F, f
  <1>7. Cardinality(F) = Cardinality(P)
    BY <1>3, <1>4, <1>5, <1>6, SameSize
  <1>8. Cardinality(P) \in Nat
    BY <1>6, FS_CardinalityType
  <1> QED BY <1>7, <1>8 DEF Failures, P, F

\* For any graph and thresholds: Pass 1 is given up exactly when the nodes sent
\* with their full source failed too often (D-005-6), whatever the others did.
THEOREM BudgetDecides == Spec => []FailureBudget
  <1>1. IInv => FailureBudget
    <2> SUFFICES ASSUME IInv PROVE FailureBudget
      OBVIOUS
    <2> DEFINE full   == {n \in Nodes : shape[n] = "normal"}
               failed == {n \in full : status[n] = "failed"}
               within == Tolerable(Cardinality(failed), Cardinality(full))
    <2>1. ASSUME Pass1Done PROVE within <=> ~TooManyFailures
      <3>1. failed = {n \in Nodes : shape[n] = "normal" /\ status[n] = "failed"}
        OBVIOUS
      <3>2. Cardinality(failed) = Failures /\ Failures \in Nat
        BY <2>1, <3>1, FailuresCounted DEF IInv
      <3>3. Cardinality(full) = Len(Normal) /\ Len(Normal) \in Nat
        BY ShapesCounted, BatchPlaces DEF IInv
      <3>4. {MaxRatio, NFloor, MinFailures} \subseteq Nat
        BY EnrichmentAssumption DEF EnrichmentAssumption
      <3>5. MaxRatio * Len(Normal) \in Nat /\ Failures * 100 \in Nat
        BY <3>2, <3>3, <3>4
      <3> HIDE DEF failed, full
      <3>6. within <=> IF Len(Normal) >= NFloor THEN Failures * 100 <= MaxRatio * Len(Normal)
                                              ELSE Failures <= MinFailures
        BY <3>2, <3>3 DEF Tolerable
      <3>7. (Failures * 100 <= MaxRatio * Len(Normal)) <=> ~(Failures * 100 > MaxRatio * Len(Normal))
        BY <3>5
      <3>8. (Failures <= MinFailures) <=> ~(Failures > MinFailures)
        BY <3>2, <3>4
      <3> QED BY <3>6, <3>7, <3>8 DEF TooManyFailures
    <2> HIDE DEF within
    <2>2. records # None => within
      BY <2>1 DEF IInv, RecordsInv
    <2>3. step = "aborted" /\ records = None => ~within
      BY <2>1 DEF IInv, RecordsInv
    <2> QED BY <2>2, <2>3 DEF within, FailureBudget
  <1> QED BY <1>1, EnrichmentInvariant, PTL

=============================================================================
