------------------------------- MODULE Evals -------------------------------
(***************************************************************************)
(* `codeograph eval run` and `eval report` over a few output directories   *)
(* (cli/eval.py, evals/runner.py, evals/report.py). An eval scores the     *)
(* graph, one check after the other, then the rendered targets in a pool,  *)
(* writes a scorecard for each, and last the pointers into the manifest.   *)
(*                                                                         *)
(* Commands follow one another here; RunDirectory has them overlap.        *)
(***************************************************************************)
EXTENDS SequencesExt, FiniteSetsExt

CONSTANTS
  None,
  Disks,        \* what runs, renders and kills leave in the directories, each with
                \* `manifest` ("missing", "torn", "whole"), `graph` ("missing", "invalid", "valid"),
                \* `children`, `source` (still there), `golden` (committed), `id`, the
                \* pointers in the manifest's `artefacts` and `compile_checks`, and
                \* `sidecars`, those an eval finds with the hash of their pointer
  Corpora,      \* output directories
  Requests,     \* what --scorecard may name, {} when it is not given
  Filters,      \* what --check and --skip-check may select, as sets of active checks
  Faults,       \* sets of graph checks that a graph may fail
  MaxCommands   \* bound on the evals

GraphCheckIds == {"golden_graph_agreement", "internal_consistency", "relationship_correctness",
                  "reproducibility", "schema_validity", "semantic_accuracy",
                  "structural_completeness"}

CodeCheckIds == {"compile", "coverage", "llm_judge"}

\* The kinds that a scorecard's model admits.
CardKinds == {"graph", "ts", "go"}

VARIABLES
  disk,      \* one of Disks
  cards,     \* [Corpora -> kind -> check -> result]: the files of scorecards
  pointers,  \* [Corpora -> kind -> overall]: the manifest's scorecards
  eval,      \* the eval that runs, or has ended last
  report,    \* the last report since an eval
  commands   \* evals started

vars == <<disk, cards, pointers, eval, report, commands>>

Idle == [stage |-> "ended", corpus |-> None, kinds |-> {}, active |-> {}, runs |-> <<>>,
         done |-> <<>>, raised |-> {}, open |-> {}, written |-> {}, exit |-> None]

Init ==
  /\ disk \in Disks
  /\ cards = [d \in Corpora |-> <<>>]
  /\ pointers = [d \in Corpora |-> <<>>]
  /\ eval = Idle
  /\ report = None
  /\ commands = 0

-----------------------------------------------------------------------------
\* The start of an eval.

Here == disk[eval.corpus]

\* Every child directory counts as a target when none is asked for.
KindsOf(d, request) ==
  IF request = {} THEN {"graph"} \cup disk[d].children ELSE request

Start(d, request, active) ==
  /\ eval.stage = "ended" /\ commands < MaxCommands
  /\ commands' = commands + 1
  /\ eval' = [Idle EXCEPT !.corpus = d, !.kinds = KindsOf(d, request), !.active = active,
                          !.stage = "preflight"]
  /\ report' = None
  /\ UNCHANGED <<disk, cards, pointers>>

Exit(code) == eval' = [eval EXCEPT !.stage = "ended", !.exit = code]

\* The manifest is missing or cannot be read, or there is no graph to score.
Refuse ==
  /\ eval.stage = "preflight"
  /\ \/ Here.manifest \in {"missing", "torn"}
     \/ "graph" \in eval.kinds /\ Here.graph = "missing"
  /\ Exit(2)
  /\ UNCHANGED <<disk, cards, pointers, report, commands>>

\* A graph that is no JSON or does not fit the schema raises.
GraphRaises ==
  /\ eval.stage = "preflight"
  /\ Here.manifest \notin {"missing", "torn"}
  /\ "graph" \in eval.kinds /\ Here.graph = "invalid"
  /\ Exit(1)
  /\ UNCHANGED <<disk, cards, pointers, report, commands>>

Preflight ==
  /\ eval.stage = "preflight"
  /\ Here.manifest \notin {"missing", "torn"}
  /\ "graph" \in eval.kinds => Here.graph = "valid"
  /\ eval' = [eval EXCEPT !.stage = IF "graph" \in eval.kinds THEN "graph" ELSE "targets"]
  /\ UNCHANGED <<disk, cards, pointers, report, commands>>

-----------------------------------------------------------------------------
\* The graph scorecard.

Runs == 3

Reproduces == "reproducibility" \in eval.active /\ Here.source

\* One --ast-only run over the recorded sources: the hash of its graph, or
\* "failed" for one that exits with an error or leaves no manifest.
RunAgain(outcome) ==
  /\ eval.stage = "graph" /\ Reproduces /\ Len(eval.runs) < Runs
  /\ eval' = [eval EXCEPT !.runs = Append(@, outcome)]
  /\ UNCHANGED <<disk, cards, pointers, report, commands>>

\* Variant: runs that failed are left out of the comparison.
ReproducibilityLenient ==
  IF ~Here.source THEN "skip"
  ELSE IF Cardinality(ToSet(eval.runs) \ {"failed"}) = 1 THEN "pass"
  ELSE "fail"

Reproducibility ==
  IF ~Here.source THEN "skip"
  ELSE IF "failed" \notin ToSet(eval.runs) /\ Cardinality(ToSet(eval.runs)) = 1 THEN "pass"
  ELSE "fail"

\* A check that was deselected is skipped, and so is one that is deferred or
\* has nothing to compare with.
GraphResult(check, faults) ==
  IF \/ check \notin eval.active
     \/ check = "semantic_accuracy"
     \/ check = "golden_graph_agreement" /\ ~Here.golden
  THEN "skip"
  ELSE IF check = "reproducibility" THEN Reproducibility
  ELSE IF check \in faults THEN "fail" ELSE "pass"

WithEntry(f, key, value) == [k \in DOMAIN f \cup {key} |-> IF k = key THEN value ELSE f[k]]

\* The scorecard of a kind is ready.
Scored(kind, results) == WithEntry(eval.done, kind, results)

CheckGraph(faults) ==
  /\ eval.stage = "graph"
  /\ Reproduces => Len(eval.runs) = Runs
  /\ eval' = [eval EXCEPT !.stage = "targets",
                !.done = Scored("graph", [c \in GraphCheckIds |-> GraphResult(c, faults)])]
  /\ UNCHANGED <<disk, cards, pointers, report, commands>>

-----------------------------------------------------------------------------
\* The scorecards of the targets, in a pool.

CodeTargets == eval.kinds \ {"graph"}

\* The commands of a sidecar each pass, fail (or take more than 120 seconds)
\* or lack a tool; only those that ran count.
CompileValue(outcomes) ==
  LET ran == {c \in DOMAIN outcomes : outcomes[c] # "no_tool"}
  IN IF ran = {} /\ DOMAIN outcomes # {} THEN "skip"
     ELSE IF \A c \in ran : outcomes[c] = "pass" THEN "pass"
     ELSE "fail"

\* The pointer to the sidecar is looked for among the artefacts, where no manifest
\* that the command accepts has one. A sidecar that is not where the pointer says,
\* or not what it was, is not run either.
Compile(target, outcomes) ==
  IF "compile_checks" \notin Here.artefacts \/ target \notin Here.sidecars
  THEN "skip"
  ELSE CompileValue(outcomes)

\* The data for the coverage check is written by nobody yet, and the judge is
\* deferred.
CodeResult(check, target, outcomes) ==
  IF target \in Here.children /\ check \in eval.active /\ check = "compile"
  THEN Compile(target, outcomes)
  ELSE "skip"

Pending == CodeTargets \ (DOMAIN eval.done \cup eval.raised)

\* The model of the scorecard refuses a kind it does not know; the others go on
\* and the exception is seen when all are through.
EvalTarget(target, outcomes) ==
  /\ eval.stage = "targets" /\ target \in Pending
  /\ eval' = IF target \in CardKinds
              THEN [eval EXCEPT !.done = Scored(target, [c \in CodeCheckIds |->
                                                           CodeResult(c, target, outcomes)])]
              ELSE [eval EXCEPT !.raised = @ \cup {target}]
  /\ UNCHANGED <<disk, cards, pointers, report, commands>>

PoolRaises ==
  /\ eval.stage = "targets" /\ Pending = {} /\ eval.raised # {}
  /\ Exit(1)
  /\ UNCHANGED <<disk, cards, pointers, report, commands>>

\* Variant: who raised is left out, the others are written.
PoolReturnsOthers ==
  /\ eval.stage = "targets" /\ Pending = {}
  /\ eval' = [eval EXCEPT !.stage = "write"]
  /\ UNCHANGED <<disk, cards, pointers, report, commands>>

PoolReturns ==
  /\ eval.stage = "targets" /\ Pending = {} /\ eval.raised = {}
  /\ eval' = [eval EXCEPT !.stage = "write"]
  /\ UNCHANGED <<disk, cards, pointers, report, commands>>

-----------------------------------------------------------------------------
\* The files, the manifest, and the exit code.

Failing(results) == \E c \in DOMAIN results : results[c] = "fail"

Overall(results) ==
  IF \A c \in DOMAIN results : results[c] \in {"pass", "skip"} THEN "pass" ELSE "fail"

\* A file that was opened for writing, or cut off by a kill, holds no scorecard.
Torn == <<>>

Readable(card) == DOMAIN card # {}

File(kind, card) == cards' = [cards EXCEPT ![eval.corpus] = WithEntry(@, kind, card)]

\* The file of a scorecard is truncated and then written. The graph's comes first;
\* the targets come in the order of the directory, which is none in particular.
TruncateCard(kind) ==
  /\ eval.stage = "write" /\ eval.open = {} /\ kind \in DOMAIN eval.done \ eval.written
  /\ "graph" \in DOMAIN eval.done \ eval.written => kind = "graph"
  /\ File(kind, Torn)
  /\ eval' = [eval EXCEPT !.open = {kind}]
  /\ UNCHANGED <<disk, pointers, report, commands>>

WriteCard(kind) ==
  /\ eval.stage = "write" /\ eval.open = {kind}
  /\ File(kind, eval.done[kind])
  /\ eval' = [eval EXCEPT !.open = {}, !.written = @ \cup {kind}]
  /\ UNCHANGED <<disk, pointers, report, commands>>

\* Variant: an eval fails when every scorecard does.
ExitCodeOfAll(done) == IF \A k \in DOMAIN done : Failing(done[k]) THEN 1 ELSE 0

ExitCode(done) == IF \E k \in DOMAIN done : Failing(done[k]) THEN 1 ELSE 0

\* The pointers of this eval replace those of earlier ones.
PatchManifest ==
  /\ eval.stage = "write" /\ eval.written = DOMAIN eval.done
  /\ pointers' = [pointers EXCEPT ![eval.corpus] =
                    [k \in DOMAIN eval.done |-> Overall(eval.done[k])]]
  /\ Exit(ExitCode(eval.done))
  /\ UNCHANGED <<disk, cards, report, commands>>

\* The eval is killed, or dies of an exception of its machine's (a full disk):
\* nothing is left of its memory.
Kill ==
  /\ eval.stage # "ended"
  /\ eval' = Idle
  /\ UNCHANGED <<disk, cards, pointers, report, commands>>

-----------------------------------------------------------------------------
\* The report over some directories.

\* The scorecards that a directory has; a file that cannot be read is passed over.
ReadFrom(d) == {kind \in DOMAIN cards[d] : Readable(cards[d][kind])}

\* The scorecards of a kind by the id of their corpus: of two with one id the
\* later directory's counts.
Loaded(ds, kind) ==
  LET with == {i \in DOMAIN ds : kind \in ReadFrom(ds[i])}
      Bearing(id) == {i \in with : disk[ds[i]].id = id}
  IN [id \in {disk[ds[i]].id : i \in with} |-> cards[ds[Max(Bearing(id))]][kind]]

\* Variant: one pass is enough.
CombineOptimistic(outcomes) ==
  IF "pass" \in outcomes THEN "pass" ELSE IF "fail" \in outcomes THEN "fail" ELSE "skip"

Combine(outcomes) ==
  IF "fail" \in outcomes THEN "fail" ELSE IF "pass" \in outcomes THEN "pass" ELSE "skip"

\* One result for each check of each kind.
AllResults(ds) ==
  UNION {LET corpora == Loaded(ds, kind)
             Of(check) == {corpora[id][check] : id \in {i \in DOMAIN corpora : check \in DOMAIN corpora[i]}}
         IN {Combine(Of(check)) : check \in UNION {DOMAIN corpora[id] : id \in DOMAIN corpora}} :
           kind \in CardKinds}

ReportOverall(results) ==
  IF "fail" \notin results THEN "pass"
  ELSE IF "pass" \in results THEN "mixed"
  ELSE "fail"

Report(ds) ==
  /\ eval.stage = "ended"
  /\ LET overall == ReportOverall(AllResults(ds))
     IN report' = [dirs |-> ds, overall |-> overall, exit |-> IF overall = "pass" THEN 0 ELSE 1]
  /\ UNCHANGED <<disk, cards, pointers, eval, commands>>

Directories == {ds \in UNION {[1..n -> Corpora] : n \in 1..Cardinality(Corpora)} : IsInjective(ds)}

\* Two hashes are enough to differ.
RunOutcomes == {"h1", "h2", "failed"}

\* A sidecar has two commands.
CommandOutcomes == [1..2 -> {"pass", "fail", "no_tool"}]

Next ==
  \/ \E d \in Corpora, request \in Requests, active \in Filters : Start(d, request, active)
  \/ Refuse \/ GraphRaises \/ Preflight
  \/ \E outcome \in RunOutcomes : RunAgain(outcome)
  \/ \E faults \in Faults : CheckGraph(faults)
  \/ \E target \in CodeTargets, outcomes \in CommandOutcomes : EvalTarget(target, outcomes)
  \/ PoolRaises \/ PoolReturns
  \/ \E kind \in CardKinds : TruncateCard(kind) \/ WriteCard(kind)
  \/ PatchManifest \/ Kill
  \/ \E ds \in Directories : Report(ds)

Spec == Init /\ [][Next]_vars

-----------------------------------------------------------------------------
CheckIds == GraphCheckIds \cup CodeCheckIds

\* The variables stay in their sets (runner.py, models.py).
TypeOK ==
  /\ disk \in Disks
  /\ eval.stage \in {"preflight", "graph", "targets", "write", "ended"}
  /\ eval.exit \in {None, 0, 1, 2}
  /\ eval.runs \in Seq(RunOutcomes)
  /\ DOMAIN eval.done \subseteq CardKinds
  /\ commands \in 0..MaxCommands

\* A graph counts as reproducible only by three runs that all got to their end
\* and agree, whatever the other runs of the eval came to; and it is never
\* failed because of sources that are gone (reproducibility.py).
ReproducedThrice ==
  "graph" \in DOMAIN eval.done =>
    LET result == eval.done["graph"]["reproducibility"]
    IN /\ result = "pass" =>
            \E hash \in RunOutcomes \ {"failed"} : eval.runs = [r \in 1..Runs |-> hash]
       /\ result = "fail" => Here.source /\ Len(eval.runs) = Runs

\* An eval that ends by itself has written all the scorecards it was asked for
\* or none at all: a target that raises in the pool does not leave the
\* scorecards of the others behind (runner.py).
AllOrNothing ==
  eval.stage = "ended" /\ eval.exit \in {0, 1, 2} => eval.written \in {{}, eval.kinds}

\* The three verdicts of an eval agree. Its exit code is computed from the
\* checks by cli/eval.py, the pointers in the manifest by runner.py, and
\* anybody else reads the files: exit 0 means that none of them says fail,
\* and exit 1 of an eval that has written its scorecards that the file of one
\* says fail and so does its pointer.
ExitTellsVerdict ==
  eval.stage = "ended" /\ eval.exit # None /\ eval.written # {} =>
    LET failing == {k \in eval.written : Failing(cards[eval.corpus][k])}
        told    == pointers[eval.corpus]
    IN /\ eval.exit = 0 => failing = {} /\ DOMAIN told = eval.written /\ \A k \in eval.written : told[k] = "pass"
       /\ eval.exit = 1 => failing # {} /\ failing = {k \in DOMAIN told : told[k] = "fail"}

\* A report over directories whose corpora have different ids succeeds exactly
\* if none of the scorecards that it can read has a check that fails: neither the
\* verdict over checks nor that over corpora averages a failure away (report.py,
\* cli/eval_report.py). And it fails if it covers the corpus of the eval before,
\* and that has ended with 1 after writing: whatever kills left behind, the
\* scorecards are there and readable. What a torn file would have said is not
\* told: report.py:43 passes over it.
ReportHidesNoFailure ==
  report # None =>
    LET ds == report.dirs
        DistinctIds == \A i, j \in DOMAIN ds : i # j => disk[ds[i]].id # disk[ds[j]].id
        Fails(d) == \E k \in ReadFrom(d) : Failing(cards[d][k])
        EvalFailed(d) == eval.corpus = d /\ eval.exit = 1 /\ eval.written # {}
    IN DistinctIds =>
         /\ report.exit = 0 <=> \A d \in ToSet(ds) : ~Fails(d)
         /\ report.exit = 0 => \A d \in ToSet(ds) : ~EvalFailed(d)

\* The commands of a sidecar are run when the render left a pointer to it and the
\* tools are installed (compile.py:22-25). They never are. The render's pointer
\* bears the name of the renderer, its scorecard that of the language.
RenderedCodeIsCompiled ==
  [][\A target \in CodeTargets, outcomes \in [1..2 -> {"pass", "fail"}] :
       /\ EvalTarget(target, outcomes)
       /\ "compile" \in eval.active
       /\ target = "ts" /\ target \in Here.children /\ "typescript" \in Here.compile_checks
       => eval'.done[target]["compile"] # "skip"]_vars

=============================================================================
