----------------------------- MODULE Enrichment -----------------------------
(***************************************************************************)
(* The two LLM passes of a run, from the cost gate to the enriched graph:  *)
(*                                                                         *)
(*   PreFlightCostGate   estimates the calls and asks for consent;         *)
(*   NodeSourceLoader    attaches the Java source to the class-like nodes; *)
(*   NodeAnnotator       Pass 1: one request per class-like node, in one   *)
(*                       batch, and a record per node;                     *)
(*   CorpusSynthesizer   Pass 2: one request over the records.             *)
(*                                                                         *)
(* Both passes use stacks over one base provider and one cache, so what    *)
(* they promise together is PaidAnswers (LlmStack implements it). The      *)
(* request for a node carries the node's number, the synthesis number 0;   *)
(* prompts differ, so a request is its own cache key and a reply is named  *)
(* by the request it answers.                                              *)
(***************************************************************************)
EXTENDS Integers, Sequences, FiniteSets, Lists

CONSTANTS
  NumNodes,     \* nodes of graph.json after Pass 0
  Shapes,       \* of "member", "normal" and "oversized", those a node may have
  Thresholds,   \* the values --llm-call-confirm-threshold may have
  MaxCalls,     \* the ceiling on provider calls, or None
  None,
  MaxPaid,      \* bound on provider calls, where the retry policy has its own
  WarmKeys,     \* the requests earlier runs left answered in the cache
  NFloor,       \* _N_FLOOR
  MinFailures,  \* _MIN_FAILURES_FOR_ABORT
  MaxRatio      \* max_pass1_failure_ratio, in percent

Nodes     == 1..NumNodes
Synthesis == 0
Requests  == 0..NumNodes

AnnotationRecords == [node : Nodes, degraded : BOOLEAN, annotation : Nodes \cup {None},
                      mode : {None, "signatures_only"}]

ASSUME EnrichmentAssumption ==
  /\ NumNodes \in Nat
  /\ Shapes \subseteq {"member", "normal", "oversized"}
  /\ Thresholds \subseteq Nat
  /\ {MaxPaid, NFloor, MinFailures, MaxRatio} \subseteq Nat
  /\ NFloor > 0
  /\ None \notin Nat \cup {"signatures_only"} /\ None \notin Seq(AnnotationRecords)
  /\ MaxCalls \in Nat \cup {None}
  /\ WarmKeys \subseteq Requests

VARIABLES
  shape,      \* shape[n]: "member" if n is not class-like, else whether its
              \* source is "oversized" (over _MAX_SOURCE_CHARS) or "normal"
  flags,      \* --yes, --non-interactive, --llm-call-confirm-threshold, and
              \* whether stdin is a terminal
  step,       \* where the run is
  consent,    \* whether somebody answered the prompt with yes
  status,     \* status[r]: of request r, as in PaidAnswers
  paid,       \* provider calls so far
  stored,     \* keys in the response cache
  records,    \* llm-annotations.json: None or the sequence of its records
  overview    \* whether graph.json holds the overview of Pass 2

provider == <<status, paid, stored>>
vars     == <<shape, flags, step, consent, provider, records, overview>>

Provider == INSTANCE PaidAnswers WITH
  Keys <- Requests, KeyOf <- [r \in Requests |-> r]

Flags    == [yes : BOOLEAN, nonInteractive : BOOLEAN, tty : BOOLEAN,
             threshold : Thresholds]
Terminal == {"stopped", "crashed", "aborted", "enriched"}
Steps    == Terminal \cup {"gate", "load", "pass1", "pass2"}

TypeOK ==
  /\ shape \in [Nodes -> Shapes]
  /\ flags \in Flags
  /\ step \in Steps
  /\ consent \in BOOLEAN
  /\ status \in [Requests -> {"pending", "answered", "failed"}]
  /\ paid \in 0..MaxPaid
  /\ stored \subseteq Requests
  /\ records # None => records \in Seq(AnnotationRecords)
  /\ overview \in BOOLEAN
  /\ step = "enriched" <=> overview
  /\ step \in {"pass2", "enriched"} => records # None

Init ==
  /\ shape \in [Nodes -> Shapes]
  /\ flags \in Flags
  /\ step = "gate"
  /\ consent = FALSE
  /\ Provider!Init
  /\ records = None
  /\ overview = FALSE

-----------------------------------------------------------------------------
Goto(from, to) == step = from /\ step' = to

(***************************************************************************)
(* The cost gate                                                           *)
(***************************************************************************)
\* Variant: Pass 2 is left out of the estimate.
EstimateWithoutSynthesis == NumNodes

\* The estimator is given the number of all nodes, class-like or not.
Estimate == NumNodes + 1

\* Variant: only --yes waives the prompt.
WaivedByYes == Estimate <= flags.threshold \/ flags.yes

Waived == Estimate <= flags.threshold \/ flags.yes \/ flags.nonInteractive

GateOpens ==
  /\ Waived
  /\ Goto("gate", "load")
  /\ UNCHANGED <<shape, flags, consent, provider, records, overview>>

Confirm ==
  /\ ~Waived /\ flags.tty
  /\ Goto("gate", "load")
  /\ consent' = TRUE
  /\ UNCHANGED <<shape, flags, provider, records, overview>>

Decline ==
  /\ ~Waived /\ flags.tty
  /\ Goto("gate", "stopped")
  /\ UNCHANGED <<shape, flags, consent, provider, records, overview>>

GateStops ==
  /\ ~Waived /\ ~flags.tty
  /\ Goto("gate", "stopped")
  /\ UNCHANGED <<shape, flags, consent, provider, records, overview>>

(***************************************************************************)
(* The source of the nodes. A file that is gone leaves its node without    *)
(* source (a "normal" one); one that is not UTF-8 ends the run.            *)
(***************************************************************************)
ClassLike == {n \in Nodes : shape[n] # "member"}

Load ==
  /\ Goto("load", "pass1")
  /\ UNCHANGED <<shape, flags, consent, provider, records, overview>>

LoadCrashes ==
  /\ ClassLike # {}
  /\ Goto("load", "crashed")
  /\ UNCHANGED <<shape, flags, consent, provider, records, overview>>

(***************************************************************************)
(* Pass 1. The batch is the normal nodes followed by the oversized ones;   *)
(* results come back as a list in the order of the batch.                  *)
(***************************************************************************)
NodesOf(sh) == Keep([n \in 1..NumNodes |-> n], {n \in Nodes : shape[n] = sh})

Normal    == NodesOf("normal")
Oversized == NodesOf("oversized")

\* Variant: the oversized nodes are submitted first.
BatchReversed == Oversized \o Normal

Batch == Normal \o Oversized

Answered(r) == status[r] = "answered"

\* The i-th result of the batch: the request whose reply it is, or None.
Result(i) == LET r == Batch[i] IN IF Answered(r) THEN r ELSE None

\* The batch has a request for each of them (BatchIsComplete of EnrichmentProofs).
Submitted == ClassLike

\* Something happens in the LLM stack to one of the requests R.
Progress(R) ==
  /\ \/ paid < MaxPaid /\ Provider!Pay
     \/ \E r \in R : Provider!Remember(r) \/ Provider!Answer(r) \/ Provider!Fail(r)
  /\ UNCHANGED <<shape, flags, step, consent, records, overview>>

Pass1Works ==
  /\ step = "pass1"
  /\ \E r \in Submitted : status[r] = "pending"
  /\ Progress(Submitted)

Pass1Returns == step = "pass1" /\ \A r \in Submitted : status[r] # "pending"

\* Variant: the oversized nodes' failures count as well.
FailuresOfAll == Cardinality({i \in DOMAIN Batch : Result(i) = None})

Failures == Cardinality({i \in DOMAIN Normal : Result(i) = None})

TooManyFailures ==
  IF Len(Normal) >= NFloor THEN Failures * 100 > MaxRatio * Len(Normal)
                           ELSE Failures > MinFailures

NormalRecord(i) ==
  [node |-> Normal[i], degraded |-> Result(i) = None, annotation |-> Result(i), mode |-> None]

\* Variant: a signatures-only answer is as good as any.
OversizedRecordUnmarked(i) ==
  LET answer == Result(Len(Normal) + i)
  IN [node |-> Oversized[i], degraded |-> answer = None, annotation |-> answer,
      mode |-> "signatures_only"]

OversizedRecord(i) ==
  [node |-> Oversized[i], degraded |-> TRUE, annotation |-> Result(Len(Normal) + i),
   mode |-> "signatures_only"]

Annotate ==
  /\ Pass1Returns
  /\ ~TooManyFailures
  /\ step' = "pass2"
  /\ records' = [i \in DOMAIN Normal |-> NormalRecord(i)]
                  \o [i \in DOMAIN Oversized |-> OversizedRecord(i)]
  /\ UNCHANGED <<shape, flags, consent, provider, overview>>

GiveUp ==
  /\ Pass1Returns
  /\ TooManyFailures
  /\ step' = "aborted"
  /\ UNCHANGED <<shape, flags, consent, provider, records, overview>>

(***************************************************************************)
(* Pass 2. Its request goes out alone; any error ends the run.             *)
(***************************************************************************)
Pass2Works ==
  /\ step = "pass2"
  /\ status[Synthesis] = "pending"
  /\ Progress({Synthesis})

Synthesize ==
  /\ Answered(Synthesis)
  /\ Goto("pass2", "enriched")
  /\ overview' = TRUE
  /\ UNCHANGED <<shape, flags, consent, provider, records>>

\* Variant: the run goes on without an overview.
SynthesisFailsQuietly ==
  /\ status[Synthesis] = "failed"
  /\ Goto("pass2", "enriched")
  /\ UNCHANGED <<shape, flags, consent, provider, records, overview>>

SynthesisFails ==
  /\ status[Synthesis] = "failed"
  /\ Goto("pass2", "aborted")
  /\ UNCHANGED <<shape, flags, consent, provider, records, overview>>

-----------------------------------------------------------------------------
Prompted == Confirm \/ Decline

Unattended ==
  \/ GateOpens \/ GateStops
  \/ Load \/ LoadCrashes
  \/ Pass1Works \/ Annotate \/ GiveUp
  \/ Pass2Works \/ Synthesize \/ SynthesisFails

Ended == step \in Terminal /\ UNCHANGED vars

Next == Prompted \/ Unattended \/ Ended

Spec == Init /\ [][Next]_vars

\* The process runs and the stack settles what it is given (BatchReturns of
\* LlmStack). Nobody is obliged to answer the prompt.
FairSpec == Spec /\ WF_vars(Unattended)

-----------------------------------------------------------------------------
(***************************************************************************)
(* Properties                                                              *)
(***************************************************************************)
\* No run puts more requests to the LLM stack than the threshold allows unless
\* somebody consented, by a flag or at the prompt: the gate's estimate is never
\* below the number of requests the two passes then make.
ConsentedSpend ==
  Cardinality({r \in Requests : status[r] # "pending"}) > flags.threshold =>
    consent \/ flags.yes \/ flags.nonInteractive

\* llm-annotations.json has one record for each class-like node and none for
\* others; a record carries the reply to its own node's request, although the
\* nodes are regrouped for the batch and its results regrouped again; a record
\* without the mark "degraded" has an answer given from the full source.
AlignedRecords ==
  records # None =>
    /\ Len(records) = Cardinality(ClassLike)
    /\ {records[i].node : i \in DOMAIN records} = ClassLike
    /\ \A i \in DOMAIN records :
         LET rec == records[i]
         IN /\ rec.annotation = IF Answered(rec.node) THEN rec.node ELSE None
            /\ rec.mode = "signatures_only" <=> shape[rec.node] = "oversized"
            /\ ~rec.degraded <=> Answered(rec.node) /\ shape[rec.node] = "normal"

Tolerable(failed, total) ==
  IF total >= NFloor THEN failed * 100 <= MaxRatio * total ELSE failed <= MinFailures

\* ADR-005 D-005-6: Pass 1 gives up exactly when too many of the nodes sent
\* with their full source got no answer; failures of the oversized ones, which
\* are degraded anyway, never end a run.
FailureBudget ==
  LET full   == {n \in Nodes : shape[n] = "normal"}
      failed == {n \in full : status[n] = "failed"}
      within == Tolerable(Cardinality(failed), Cardinality(full))
  IN /\ records # None => within
     /\ step = "aborted" /\ records = None => ~within

\* FR-39 AC-3: a run with nobody at the terminal, or told not to ask, never
\* waits for an answer to the prompt. It ends, one way or another.
NeverHangs ==
  ~flags.tty \/ flags.yes \/ flags.nonInteractive => <>(step \in Terminal)

(***************************************************************************)
(* Claims of the repository that the code does not keep                    *)
(***************************************************************************)
\* docs/running-codeograph.md, section 7: "--non-interactive auto-aborts the
\* confirmation gate"; alone it means "never spend without a human present".
\* ConfirmationGate.check lets it past the threshold, as --yes does.
NeverSpendUnattended ==
  flags.nonInteractive /\ ~flags.yes /\ Estimate > flags.threshold => paid = 0

=============================================================================
