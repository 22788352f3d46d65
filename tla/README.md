# A TLA+ model of codeograph

codeograph reads a Java/Spring corpus, builds a knowledge graph of it
(`graph.json`), lets an LLM annotate the classes and write an overview, evaluates
the result, and renders a NestJS project from it. This directory specifies what
keeps state in it or is hard to test: how the graph comes about (Pass 0), the LLM
stack under its thread pool, the cache file that several processes share, the cost
gate and the two LLM passes, the output directory that several commands write, the
evals, and the renderer's choice of classes and its concurrent groups. Paths below
are relative to `src/codeograph/`.

## 1. Inventory

| Component | State | Operations | Modelled in |
|---|---|---|---|
| **LLM stack** (`llm/provider.py`, `llm/middleware/`, `llm/factory.py`) | two counters, the response cache, the telemetry file | `complete_structured`, `complete_structured_many` | `LlmStack`, `PaidAnswers` |
| **Cache backend** (`llm/cache/`, `cli/cache.py`) | `cache.db` | constructor and migration, `get`, `put`, `purge`, `stats` | `CacheBackend`, `CacheMap` |
| **Enrichment** (`analyzer/llm_corpus_enricher.py`, `llm/*gate*.py`, `llm/pre_flight_estimator.py`, `passes/`) | the graph's nodes, the consent, `llm-annotations.json`, the overview | `PreFlightCostGate.check`, `NodeSourceLoader.load`, `NodeAnnotator.annotate`, `CorpusSynthesizer.synthesize` | `Enrichment` |
| **Run directory** (`cli/`, `manifest/`, `graph/graph_writer.py`) | `graph.json`, `llm-annotations.json`, scorecards, sidecars, `manifest.json` | `run`, `eval run`, `render` | `RunDirectory` |
| **Acquisition, discovery** (`input/`) | a temporary directory | `acquire`, `discover`, `cleanup` | `SourceDiscovery`, `Pass0` |
| **Parser dispatch and fallback** (`parser/*.py`) | how each file was parsed | `parse` | `ParsedFiles`, `Pass0` |
| **Java AST parser** (`parser/java/`) | none: a process per file | the envelope of a file | `ParsedFiles` (its envelope) |
| **Graph assembly** (`graph/graph_builder.py`, `graph/graph_assembler.py`) | lists of nodes and edges | `build`, `assemble` | `GraphBuilder`, `GraphAssembler` |
| **Evals** (`evals/`, `cli/eval*.py`) | scorecards, pointers to them | `eval run`, the checks, `eval report` | `Evals`, `GraphChecks` |
| **Class selection and grouping** (`rendering/`) | none: pure | `ClassSelector.select`, `DomainGrouping.group` | `ClassSelector`, `DomainGrouping` |
| **TypeScript renderer** (`renderers/`) | a semaphore, a file map per group, the project | `render`, `compile_checks` | `Rendering` |
| **Provider adapters** (`llm/providers/`, `llm/resolver.py`) | none | `complete_structured`, error classification | the verdicts of `LlmStack` |
| **Telemetry statistics**, **configuration and logging**, **prompts, schemas, scripts** | none that outlives a call | aggregation, declaration, generation | no |

### How they interact

`codeograph run` acquires a corpus, discovers its modules, parses each file (Java
process, regex fallback), assembles the graph and writes `graph.json` (Pass 0).
Unless `--ast-only`, `LlmCorpusEnricher` then passes the cost gate and runs Pass 1
(one request per class-like node, all of them one batch on a thread pool) and
Pass 2 (one request), both through the LLM stack; then `--eval`, then the manifest.
`eval run` and `render` are separate processes that come later, read what the run
left, add files, and patch the manifest. The renderer uses an LLM stack of its
own, from an asyncio loop. All of them share one `cache.db`, with each other and
with `cache stats` and `cache purge`.

### What is hard, and what correct means

*LLM stack.* A thread per request passes cache, retry and ceiling layers whose
locks cover single operations, never the call. Correct: no interleaving exceeds
the call ceiling; the token total loses nothing; retries follow transient errors
only and are bounded; no answer belongs to another prompt, did not parse or was
over the ceiling; the telemetry file does not contradict the money spent; who asks
after an answer to the same prompt pays nothing; every batch returns.

*Cache backend.* A lock inside a process, none between processes; the migration is
six statements, each committed on its own; a lookup is two. Correct: one process
migrates; a file that calls itself migrated is complete; a purge hits what it aims
at, although ages are compared as text; the file is one dictionary.

*Enrichment.* Consent is asked on an estimate made before anything is known; the
batch reorders the nodes, and results are mapped back by position; failures are
budgeted by two rules with a switch between them; nobody may be at the terminal.
Correct: no spending beyond the threshold without consent; each record has its
own node's answer; Pass 1 gives up exactly when the budget is exceeded; an
unattended run never hangs.

*Run directory.* Five writers of six files, no lock, no transaction, a process
that may die anywhere, `--force` that clears child by child. Correct: a manifest
never stands beside another run's files; it points only to what was written
before; a patch changes only the part the command owns.

*Pass 0.* Who owns the temporary directory when a step fails; directories come in any order;
two ignore filters of different scope; a Java process that may time out for any file;
promotion of call edges by index, de-duplication, lookup by imports. Correct: the graph
holds every file once and under its module; no call on a name disappears; the graph does not
depend on the order of listing; a file that fell back, and was given its own name, costs the
others nothing; a run that knows of its directory removes it.

*Evals.* One verdict computed in three places, a pool in which a target may raise,
three re-runs of the program, a check that looks for its input under another key.
Correct: all scorecards or none; exit code, pointers, files and report agree; a
graph is reproducible by three equal runs only.

*Selection and grouping.* Boundaries of the three-tier ladder, round-robin over
uneven buckets; a single class, classes at the common prefix. *Renderer.*
Concurrent groups under one semaphore; one bad class must not cost the others;
output paths collide.

## 2. Plan

Done: `PaidAnswers`, `LlmStack`; `RunDirectory`; `Enrichment`, composed with
`PaidAnswers`; `ClassSelector`, `DomainGrouping`, `Rendering`; `CacheBackend`
against `CacheMap`; `ParsedFiles`, `GraphBuilder`, `GraphAssembler`,
`GraphChecks`, `SourceDiscovery`, composed by `Pass0`; `Evals`. There are proofs about each of the machines.

What a next step would take: the table from exception types to verdicts in the
provider adapters; the renderer's policies, which refuse a class by its
annotations; the edges of the assembled graph against a definition on sets of
files, without the lists that the code goes through.

Abstract specifications: `PaidAnswers` for whatever uses the LLM stack, `CacheMap`
for whatever uses the cache file.

## 3. The modules

| Module | Is | Uses |
|---|---|---|
| `PaidAnswers` | promise of the LLM stack | |
| `Lists` | what a list is, filters and sums | |
| `LlmStack` | the stack under a batch | `PaidAnswers` (refinement), `Lists` |
| `CacheMap` | promise of the cache file | |
| `CacheBackend` | the file and its processes | `CacheMap` (refinement) |
| `Enrichment` | gate, Pass 1, Pass 2 | `PaidAnswers` (composition), `Lists` |
| `RunDirectory` | files and commands | |
| `ParsedFiles` | envelopes of both parsers | extends `Lists` |
| `GraphBuilder` | the fragment of a file | extends `ParsedFiles` |
| `GraphAssembler` | the graph of all fragments | extends `GraphBuilder` |
| `GraphChecks` | the checks on a graph | extends `GraphAssembler` |
| `SourceDiscovery` | modules and files of a tree | extends `GraphAssembler` |
| `Pass0` | acquisition to `graph.json` | extends `SourceDiscovery`, `GraphChecks` |
| `Evals` | `eval run`, `eval report` | |
| `DomainGrouping`, `ClassSelector` | pure choices | `ClassSelector` extends `Lists` |
| `Rendering` | the renderer | extends both |

`*Proofs` modules hold theorems about the module they are named for (`ListProofs`
lemmas about `Lists`, and about numbers and orders, that the others cite), `MC*`
modules the instances for TLC.

### LlmStack: the stack under a concurrent batch

Each request of `complete_structured_many` is carried by a thread whose place is
`pc[r]`. An action is what happens inside one critical section or one call:

| Action | Code |
|---|---|
| `Start`, `Collect` | the pool takes requests in order; `for f in futures: f.result()` |
| `LookupHit`, `LookupMiss`, `LookupFails` | `CachingLlmProvider`, `SQLiteCacheBackend.get` |
| `Reserve`, `Refuse` | first critical section of `CeilingLlmProvider` |
| `ReplyArrives`, `TransientError`, `PermanentError` | the provider's answer, classified, and the reaction of `RetryingLlmProvider` |
| `WakeUp` | the end of a back-off sleep |
| `Accept`, `Reject` | second critical section of `CeilingLlmProvider` |
| `Store`, `StoreFails` | write-through of `CachingLlmProvider` |
| `Emit`, `EmitFails` | the row of `TelemetryLlmProvider` |

`callsCount` and `tokensCount` are the ceiling's counters, `cache` is `cache.db`,
`rows` the telemetry file. `calls` is the provider's own log, external to the
program, which the counters are held against; `rejected` and `lostRows` are
history. A reply is named by the number of its call, a cached reply of an earlier
run by 0. Exceptions that are not `LlmError` (a failing cache operation, a reply
parsed to `None`) pass the telemetry layer and become the outcome `unexpected`.

`PaidAnswers` is the promise: calls within the ceiling, a key stored only against
a call of its own, an answer only from what is stored. `AnswersSpec` maps `LlmStack`
to it: a request is pending until its thread is done, `paid` is the length of the
log, `stored` the keys in the cache.

### CacheBackend: one file, several processes

Within a process one lock covers each operation, so a process has one in flight;
between processes only SQLite statements are atomic. `pc[p]` is the statement that
process `p` executes next: `ReadVersion`, then `CreateTable` (or `TableExists`,
which raises), three times `CreateIndex`, `SetVersion`; a lookup is `Select`,
`Touch` (which commits the count) and `Answer`, with room for a kill between any two;
`Put`, `Purge` and `Stats` are one statement each, and a `DryRun` is none. `End` is the
end of a process at any statement, by itself or by a kill. `served`, `lost` and
`cutShort` are history. Time is counted in ticks,
several to a day, because `created_at` and the limit of `--older-than` are texts
that compare correctly between days only (`TextBefore`). A value is the number of
the `put` that wrote it. `MapSpec` maps the file to `CacheMap`: a lookup sees the
value of its moment, opening, counting and dying change nothing, and a value that
was replaced or purged never comes back.

### Enrichment: cost gate, Pass 1, Pass 2

`shape` gives each node of the graph its kind: a member (method, field, module),
a class-like node, or one whose source exceeds `_MAX_SOURCE_CHARS`. `flags` are the
options and the terminal. The stack is used through its promise only: `status`,
`paid` and `stored` move by the actions of `PaidAnswers`, which is what makes the
composition small. Gate: `GateOpens`, `Confirm`, `Decline`, `GateStops`. Loading:
`Load`, `LoadCrashes`. Pass 1: `Pass1Works` until the batch has settled, then
`Annotate` or `GiveUp`. Pass 2: `Pass2Works`, then `Synthesize` or
`SynthesisFails`. Each request is its own cache key, because prompts differ.

### RunDirectory: the files and the commands

A file is the number of the command that wrote it, in place of its bytes; a
pointer of the manifest is the number of the bytes it hashed. `session[s]` is the
process working in terminal `s` with what it has in memory, notably the manifest
it has read or built. Each write of the code is one action, except `manifest.json`,
which is truncated by one action (`Assemble`, `Patch`, `Point`) and completed by
another (`WriteManifest`), as `Path.write_text` does it. `Die` ends a process
anywhere: a kill, or an exception nobody catches. `lastWhole`, `evalCrash` and
`overlapped` are history.

### Pass0 and the modules below it: from a tree to a graph

Ids, types and call expressions are sequences of identifiers (`ParsedFiles` says
how). A *source* is what a `.java` file says; `Ast` and `Regex` are the two
envelopes the dispatcher may return for it, `EmptyEnvelope` the third. The regular
expressions search the whole text, comments included, for the declaration of a type
and take the first match, so a source also has a `first`: the kind and name they find,
if they find any (`matched`). With "A class for owners" above it, `p.Owner` comes out
of them as `p.for`.
`GraphBuilder` makes the fragment of one envelope: nodes, and the edges that one
file shows. `GraphAssembler` adds those that take two: imports resolve types,
fields and parameters resolve the receiver of a call, and an unresolved call edge
that could be resolved is promoted. The code does that by recording indexes into a
list and deleting them afterwards in descending order, and so does the model,
whose list is a sequence; only the result is a set, as `GraphWriter`'s sorting and
de-duplication leave no order to compare. `SourceDiscovery` walks a tree whose
directories list their children in a given order. `GraphChecks` has the three
checks of the graph scorecard that look at the graph alone; `Pass0` applies them
to every graph it builds.

`Pass0` has one action per step of the run: the acquirer (`AcquireLocal`, or
`MakeTemp` and `Clone` or `Extract`), `DiscoverSources`, `Construct` (looks for
Java), `ParseFile` once per file, `AllParsed`, `AssembleGraph`, `WriteGraph`,
`Later` (all the other passes), `Cleanup`; and one per way out: `Refuse`,
`CloneFails`, `ExtractFails` (handled errors), `AcquireRaises`, `BodyRaises`
(others), `Interrupt` (control-C, which runs the `finally` clause), `Kill`.
`acquired` says whether `main.py` has the corpus in hand, which decides whether the
`finally` clause knows what to remove.

### Evals: `eval run` and `eval report`

`disk` is what earlier commands left in each output directory. An eval passes its preflight
(`Refuse`, `GraphRaises`, `Preflight`), runs itself again three times if reproducibility is
asked for (`RunAgain`), scores the graph (`CheckGraph`), scores each rendered target in the
pool (`EvalTarget`, then `PoolReturns` or `PoolRaises`), opens and writes the scorecards one
by one (`TruncateCard`, `WriteCard`), and patches the manifest and exits (`PatchManifest`).
`Kill` may come anywhere and also stands for an error of the operating system; between the
first two of these it leaves a torn card, perhaps in place of an older one. `Report` reads
the scorecards of some directories and passes over torn ones (`ReadFrom`), as `report.py`
does. Which of the graph's own checks fail is chosen (`Faults`): what makes them fail is the
matter of `GraphChecks`. The exit code (`ExitCode`), the pointers (`Overall`) and the report
(`Combine`, `ReportOverall`) are computed separately, as in the code.

### DomainGrouping, ClassSelector and Rendering: what is rendered, and what comes of it

`DomainGrouping` has both strategies: the segment after the longest common prefix
of all packages, or the longest matching prefix of the user's mapping.
`ClassSelector` holds the operators of the selection ladder: the three buckets,
the stable sort by weight, one cycle of the round-robin as three steps (`Take`), one
per bucket, and the whole of it as a recursive function. `Rendering` picks a corpus and
a cap, groups, selects, and then runs one coroutine per group. Coroutines yield only where
they await: before `Call` or `Refuse` (the semaphore) and before `CallFails`,
`CallReturns` or `CallCollides` (the request), so each action runs from one wait
to the next. `calling` is the semaphore: a refusal takes and gives back its place
within one action. `Assemble` is what follows the `gather`: exceptions of whole groups are
results there, logged and left out, while the scaffold imports the modules of all
groups. The order in which waiting coroutines are admitted is left open.

## 4. What TLC checks

| Run | Question | Result |
|---|---|---|
| `stack` | ceilings, retries, provenance, telemetry, refinement of `PaidAnswers`, return of the batch | holds |
| `cache` | one migration, complete schema, aimed purges, honest counts, refinement of `CacheMap`, a race for the migration ends | holds |
| `enrichment` | consent, alignment, failure budget, no hanging | holds |
| `enrichment_unattended` | does `--non-interactive` alone never spend? | violated |
| `run_directory` | does the manifest agree with the files, crashes included? | holds |
| `directory_eval` | does `run --eval` do without a manifest on disk? | violated |
| `pass0` | files and modules, calls, order, degradation, checks of the graph, temporary directory, end of the run | holds |
| `pass0_calls` | has every call an edge, resolved or not? | violated |
| `evals` | all scorecards or none, one verdict, three equal runs, honest report | holds |
| `evals_compile` | is rendered code compiled by the compile check? | violated |
| `rendering` | is the sample full and spread, do failures stay with their class, does a render end? | holds |
| `rendering_collisions` | does a collision of output paths fail the render? | violated |

Each violated run checks one sentence of the documents or of a docstring; the
comment at the property quotes it, and `PROJECT.json` lists it as a finding.

### Bounds

*stack*: three requests on two threads, two of which share a cold key: the third
has to wait for a slot, a miss can race with a write of its own key, and a late
request can hit what an early one stored. `MaxCalls = 3` with two attempts per
request lets six calls be wanted and three be made, so refusals occur in first
attempts and in retries. `MaxTokens = 3` with replies of 0 or 2 tokens lets the
total pass the ceiling with another call in flight.

*cache*: two processes, which is what a race for the migration takes, and two keys
of two models, so that a purge by model has something to spare. Two ticks make a day;
the clock runs from the last tick of a day to the first of the next day but one, so
that an entry and a limit may fall on one day or on two, at either time of day, for ages
of 0 days and of 1. `MaxPuts = 2` lets a row be replaced between a `Select` and its
`Touch`; `MaxHits = 1` stops lookups of a key that has been answered or lost once, which
two may be in the middle of. `Ages` has a negative number, 0 (taken for no criterion
when alone), 1 and none.

*enrichment*: every graph of four nodes. The code's thresholds (10 nodes, 3
failures, 10 %) are scaled to 3, 1 and 34 %, so that with up to four normal nodes
both rules apply and both are met on either side. Thresholds 4 and 5 are just
below and at the estimate of 5. Three of the keys are warm and the provider
answers at most twice, so batches may succeed entirely, partly or not at all.
`MaxPaid` bounds the provider's calls for configurations without a ceiling (the
retry policy bounds them in the code).

*run_directory*: three commands, the smallest number for run, eval, and a command
that disturbs both (a forced run, a render, another eval); two terminals, so
commands may also overlap; two scorecard kinds, so that one may be scored without
the other. Commands are the only counter, bounded by `MaxCommands`. When all are
given the model stops, hence no deadlock check.

*pass0*: three trees (`MCPass0`). Clinic has three modules, one with a `.gitignore` that
names an area the other one has too, an ignored file, a build directory with a build file of
its own, and classes that call each other through fields, parameters, `this`, class names,
chains and overloads. Oddities has the other kinds of types, files without package or type,
static imports and supertypes. Bare has no module. Of the types, one has a comment that
names no type, one a comment that names the type of another file (without `NamesApart`,
`DegradationIsLocal` fails there), one is not recognised at all, and a file without a type
has a comment that looks like one. Every order of the root's children, every mode of every
file, a failure, an interrupt or a kill at any step. The graph is a function of what was
parsed, so more files of the same sort add states and no new case.

*evals*: two directories, the least for a report that must combine. The first is a
rendered run; the second is one of eight: a golden and no target, the same corpus
id, sources gone, a directory of somebody else's, a graph invalid or missing, a
manifest torn or missing. Two evals (`MaxCommands`), so that a second one
meets the cards of a first; requests for the default, the graph alone and two
targets, one of which has no rendering; two hashes, two commands per sidecar, no
faults or one of two.

*rendering*: one group of three or four classes with any of five profiles on either
side of the thresholds, and of six classes from the three buckets, under caps of 2
and 3: all three tiers, both boundaries, and fills that end inside the second cycle.
For schedules, three groups of two, two and one classes on two places, so that a group has to
wait, with every choice of two paths and every set of refusals; the groups come
from packages of one vendor, by prefix or by a mapping.

### Fairness

`FairSpec` of `LlmStack` asks weak fairness of each thread and of the caller: the
operating system runs runnable threads, a sleep ends, and a provider's client
returns or times out. No fairness chooses *which* outcome a call has; repeated
transient errors end by the attempt bound. `BatchReturns` needs no more. `FairSpec`
of `Enrichment` asks weak fairness of everything but the prompt: `Confirm` and
`Decline` are a person's, and `NeverHangs` speaks of runs that must not need one. That the
stack settles each request is `BatchReturns`. `FairSpec` of `Rendering` asks that the
event loop runs each coroutine that can go on; a coroutine waiting for a place needs
no strong fairness, because the others run out of classes. `CacheBackend` asks that a
process inside the constructor goes on (`RaceEndsMigrated`); nobody is obliged to look
anything up. `Pass0` asks that the single thread of a run goes on with what
succeeds (`Pass0Ends`): the Java process has a timeout, but `git clone` has none, so
that it ends is not assumed and the property starts after it.

`RunDirectory` and `Evals` have no liveness property: nothing obliges anybody to
give a command, and the re-runs of the reproducibility check have no timeout
(`reproducibility.py:63`), so that an eval ends is not a promise of the code.

### The scope of the claims

The properties of `RunDirectory` assume that no two commands overlapped. The code
has no lock, and with overlap they fail (the later write of a whole manifest drops
the earlier patch); no document promises otherwise, so this is a hazard and not a
finding. `Evals` has commands one after another for the same reason. The hash of
`graph.json` goes stale in Pass 2, which the repository lists
as a known gap; the model keeps the two versions of the file apart and
`NoMixedRuns` compares the run that produced it. A render into a run's own
directory is not modelled: sidecars have a place of their own.

`Pass0` assumes what the repository says of its input or the code relies on. As
`WorldsAssumption`: directories form a finite tree (no link leads back up, or the walk
would not end), files have paths of their own, a listing has each child once, no Java
identifier is one of the marks `#` and `file:` that ids use, and a call expression
begins with an identifier. And
`rmtree(ignore_errors=True)` removes the directory, which is no assumption of a theorem
but how `Cleanup` is modelled.
`OrderIndependent`, `DegradationIsLocal` and `GraphPassesItsChecks` speak of the runs in which
no two files came out under one name (`NamesApart`). Two do if two modules declare the same
type (ADR-006, line 512, leaves such corpora out of scope) or if a file that fell back
is given the name of another's type by a comment (section 6): then they share
nodes, and which of them is kept depends on the order of the walk.
`DegradationIsLocal` and `CallsTraced` say in their definitions what they claim
nothing about: types that no parser read under their own names, and chained calls (which
`pass0_calls` shows to be lost). `ReportHidesNoFailure` speaks of directories with
different corpus ids, because a report keeps one of two with the same.

## 5. What TLAPS proves

Every theorem holds for all values of the constants that satisfy the module's
`ASSUME`: natural numbers for bounds and ceilings, at least one thread, attempt or
place where the code has one, values that mark absence (`None`, `Torn`) which
are not values of the other kind, and trees on disk that are trees (section 4).

| Module | Theorem | States |
|---|---|---|
| `LlmStackProofs` | `TypeCorrect`, `CeilingHolds`, `ProvenanceHolds` | `TypeOK`, `CallCeiling`, `Provenance` |
| | `RetriesAreDisciplined`, `TelemetryIsHonest`, `TokensAreTallied`, `AnsweredKeysStayFree` | `RetryDiscipline`, `HonestTelemetry`, `TokenTally`, `AnsweredKeysAreFree` |
| | `StackKeepsPromise` | `LlmStack` implements `PaidAnswers` (`AnswersSpec`) |
| `CacheBackendProofs` | `CacheTypes`, `SchemaIsComplete`, `OnlyOneMigrates`, `HalfSchemaNeedsStop` | `TypeOK`, `SchemaComplete`, `OneMigrates`, `HalfSchemaNeedsCrash` |
| | `HitsAreReal`, `PurgesAreAimed` | `HitsNeverInvented`, `PurgeIsAimed` |
| | `CacheIsOneMap` | `CacheBackend` implements `CacheMap` (`MapSpec`) |
| `EnrichmentProofs` | `EnrichmentTypes`, `SpendIsConsented`, `RecordsAreAligned`, `BudgetDecides` | `TypeOK`, `ConsentedSpend`, `AlignedRecords`, `FailureBudget` |
| `RunDirectoryProofs` | `DirectoryTypes`, `RunsNeverMix`, `PointersFollowFiles`, `PatchesAddOnly` | `TypeOK`, `NoMixedRuns`, `PointersNeverAhead`, `PatchesOnlyAdd` |
| `Pass0Proofs` | `Pass0TypeCorrect`, `RunReclaimsTemp`, `FilesAreInTheGraph`, `CallsAreTraced` | `TypeOK`, `OwnedTempReclaimed`, `ModulesKeepTheirFiles`, `CallsTraced` |
| | `GraphIsOrderFree`, `DegradationStaysLocal`, `ChecksPass` | `OrderIndependent`, `DegradationIsLocal`, `GraphPassesItsChecks` |
| `EvalsProofs` | `EvalIsAllOrNothing`, `EvalTellsOneVerdict`, `ReproducibleMeansThrice`, `ReportsTellFailures` | `AllOrNothing`, `ExitTellsVerdict`, `ReproducedThrice`, `ReportHidesNoFailure` |
| `RenderingProofs` | `RenderingTypes`, `SamplesSpread`, `FailuresStayPut`, `FilesAreKept` | `TypeOK`, `DifficultySpread`, `FailuresIsolated`, `NoOverwrite` |
| | `PrefixGroupsPart` | grouping by prefix never merges all classes under one name |

**LlmStack.** `TypeOK` needs to know that a sleeping thread has an
attempt left (`RetryOK`) and that a thread about to account holds the number of a
call in the log (`HeldOK`), or its token count would have no type; together with
`RejectedOK` (a rejected reply belongs to a thread that has given it up) they are
`BaseInv`. `CallCeiling` follows from `CountOK`: the counter is ahead of the log by
exactly the calls in flight, and `Reserve` compares before it increments.
`Provenance` is not inductive because a usable reply might still be rejected
later; `FinalFor` adds that its own thread has settled, after which only its row is
written (lemma `Settled`), so what is final stays final (`FinalStays`). Then only
`Store` can put something into the cache (`StoredIsFinal`), and an answer is either
that or a copy from the cache. Lemmas `CallsGrow` and `OthersKeep` say once what
every step leaves alone. `RetryDiscipline` follows from `AttemptsOK` (at each place
of the loop the calls in the log are the attempts made, and those before the
current one were transient) and `InOrder`. `HonestTelemetry` follows from
`OutcomeOK`, which ties the outcome to the accepted replies of the thread
before the row is written, and `RowsOK`. The refinement uses both, and that an
answer's key is in the cache (`AnswersAreCached`), on which `AnsweredKeysAreFree` rests
too; a store has room under the
abstract module's bound because each is paid for by a call of its own.
`TokenTally` is the sum of what the replies in `Accounted` cost, the log's calls but
those a thread holds and has yet to account for. It is inductive beside `BaseInv`: a new
call enters the log without entering that set, unless it failed and costs nothing,
and a thread that accounts for its reply takes it out of the held ones, since no
other thread can hold it (`SumGrows`); every other step keeps the sum (`SumKeeps`).

**CacheBackend.** `ScriptInStep` says for each statement of the script what the file holds
before it; since the table must not exist when it is created, two processes cannot be past
that statement. `RowsHaveValues` keeps a row apart from its absence, which the refinement
needs. `HitsInv` counts the lookups between commit and answer: `Touch` adds one to them and
to the row (`TouchInv`), and an answer or a stop moves one of them to `served` or `lost`
(`AnswererLeaves`). `PurgesAreAimed` rests on `DaysAreOrdered`: of two moments the one on
the earlier day is the earlier one, whatever a day's length.

**Enrichment.** `GateInv`: before the gate no request has been settled, behind it
there is consent or an option that waives it. `EstimateCoversAll`: the estimate
bounds the requests there can be. The records need `RecordsInv`: before they are made
none are there, afterwards they are `Recorded`, the list that the code makes of the
batch in its own order, and the statuses they were made from do not move any more.
That each node has one record with its own reply is then a matter of lists:
`NodesOfShape` (both lists have the nodes of their shape, once each),
`BatchIsComplete` (the places of the batch are the class-like nodes), `RecordedPlaces`.
The budget counts places of the list in the code and nodes in `FailureBudget`;
`FailuresCounted` says that these are as many.

**RunDirectory.** `IInv` has `TypeInv` (types, and what a command has in memory at
each step) and `DirInv`: as long as no commands overlapped, one process works at
most (`OneAtATime`); where a run is decides what the directory holds of it and
that there is no manifest (`RunInv`); a patch starts from the manifest that is
there (`PatchInv`); a complete manifest describes the files and is backed by them
(`ManifestInv`). `Follows` makes the action property: what is about to be written
is a later run or the last manifest with one part changed. TLC also checked
`DirInv` as an invariant of the `run_directory` instance. A by-product: alone, a run
never scores with a manifest in hand (`EvalNeedsOverlap`).

**Pass0.** `TempInv` adds to `OwnedTempReclaimed` that the corpus is known only
behind discovery and that a local input has no temporary directory. The others
speak of the whole graph. `FilesInv` says that a run parses the files of its modules
from the first one on, and all of them before it assembles. Which files those are is a
matter of the tree: `WalkExists` and `WalkStep`, by induction on the height of a
directory, give what the walk returns (`RootsSpec`: each module in sight, once, whatever
the order of the listing; `InSight` tells that from below, the walk from above, and
`Below` connects them), `ModuleSpec` what a module keeps after both filters, `FilesOfSpec`
that no two modules share a file. Then each file is followed through: `EnvelopeGood`
(what either parser returns), `BuildGood` (its fragment has the type, its module's edge,
and an edge for every call), `AllEdgesGood`. `ResolveCallsExact` is the heart of
`CallsTraced`: the places found are distinct, and deleted in descending order they leave
exactly the edges at all other places (`Downward`, `RemoveAll`), so an unresolved edge
goes only if `Candidates` put edges to methods in its place. `FormsDiffer` is
needed because nodes are de-duplicated by id: an id tells whether it is a method's and
which name it has, so whichever node of an id is kept is a method of that name.

The last three compare whole graphs, and so need to know that no step of the assembler
adds anything else: `BuildExact`, `CrossEdgesExact`, `DedupExact` and
`ResolveCallsExact` say just what each returns. From `NamesApart`, which the properties
have as a condition, comes `Proper` (`FragmentsProper`): the names of the types of any two files differ at some place that
both have, so neither begins with the other. As every id of a file begins with the name
of its type (`NodeBegins`), a set of nodes with one id, or of the fields of one class, is
all of one file (`SameIdOneFile`, `FieldsOneFile`), and what the assembler looks up among
all nodes is what it would find in that file alone (`FromOneFile`, from `KeepFlat`): it
does not depend on the order of the files (`AssembleOrderFree`). The files in the order of
their paths are the same files (`SortedSettled`), which makes `OrderIndependent`.
For `DegradationIsLocal`, an edge that refers to another file comes from one file and
is told by that file's imports and by whether its target has a node (`OwnReferences`); a
type that either parser read under its own full name has one (`EnvelopeSays`,
`ReadTypesHaveNodes`), and `NamesApart` is asked of the files as they were parsed and as they
would have been. For
`GraphPassesItsChecks`, both ends of a resolved call have nodes (`ResolvedHasEnds`: the
candidates are nodes, and a call is made by a method with one), the id of a method gives
away its class (`ClassOfMethod`), whose own node is the one that is kept
(`AssembledNodes`), and a class with a degraded node makes a proper subset of the others.
All three need `ModesInv`: no file that declares no type counts as parsed by Java.

**Evals.** `Progress` says what is scored and written at each stage, `DoneIsSound`
and `FilesHoldThem` that a card's results are results and that the file holds them;
`OverallTells` that the runner's overall and the command's test agree. For
`ReproducedThrice`, `RunsBefore` bounds the runs made when the graph is scored, and
`OneHash` turns three runs with one hash between them into three equal runs. For
`ReportHidesNoFailure`, `ReportIsFresh` says that a report was made of the scorecards
that are there, `LoadedById` that corpora of different ids keep all that can be read,
`FailuresAreTold` that one failing result makes its check, and so the report, fail, and
`FailureIsOnFile` that an eval which has failed leaves a readable card that says so.

**Rendering.** `SelectionInv` says that the selection is what `Select` returns for
the corpus and the cap. That it takes classes of the group, each once
(`SelectSound`), and spreads over the buckets (`SampleSpec`) is proved of the
operators. `ByWeightSorts`: the places that the stable sort gives out number the list.
`BucketsSpec`: the three buckets part the group. `CycleStep`, `RoundRobinSpreads`:
after each step of the round-robin, what is selected is the first few classes of
each bucket, as many of each as cycles have been made, or one more, or the whole
bucket, and stops at the cap; no bucket with classes left is two behind another. Then
`PlaceOK`: what a coroutine has yet to do is undone; `SettledOK`: what lies behind its
place is not, and it returns at the end of its list only. `FilesOK`: a file map is what
was rendered, under distinct paths, unless the group has raised, and then two of
its classes have one path. `ProjectOK`: the project is made last. `PrefixGroupsPart`
rests on `CommonLength`: there is a longest common prefix, and the code's is it.

**ListProofs.** The library's induction theorems take a predicate as a parameter, which no
installed prover can instantiate. `InductionOverNat` and `LeastNumber` take a set
in its place, and `RecursionOverInterval` says that a function defined by recursion
over an interval obeys its recursion. From them follow what `Keep` returns (the elements
in question, each as often as before and in their order: `KeepSpec`, `KeepDistinct`;
of lists put together, what it keeps of each: `KeepJoin`, `KeepFlat`), that ranks in
a strict order number what they rank (`RanksNumber`), how a sum changes with its terms
(`SumsCompared`, `SumGrows`, `SumKeeps`), and what a concatenation of lists holds
(`FlattenList`, `FlattenDistinct`). That is why `Lists` defines its filter and its sum
itself, as recursive functions: of `SelectSeq` and `MapThenSumSet`, which take an
operator, nothing of the kind can be proved.

Only model-checked: the liveness properties (`BatchReturns`, `NeverHangs`,
`RenderEnds`, `RaceEndsMigrated`, `Pass0Ends`), as the prover knows nothing of fairness.
Every invariant and every action property that a passing run checks is also a theorem.

## 6. Where code and documents differ

Five differences are runs (section 4). Others were met while reading; they are kept
here because a property for them would restate a line of code.

*Spending.* The token ceiling is checked after a call only, so that a call may be
sent with the total above it. A telemetry row is missing when its write fails.
The gate's estimate counts all nodes of the graph, the passes class-like ones.

*Run directory.* A killed run leaves a torn manifest, and a killed forced run
possibly an old one, against ADR-025, line 396. An eval drops the pointers of
earlier evals from the manifest, against FR-33 AC-2.

*Acquisition.* A failed discovery, or an interrupt during a clone, leaves the temporary
directory (`git_acquirer.py:65`, `zip_acquirer.py:62`; the docstring at
`git_acquirer.py:46` promises otherwise). Without Java the run fails
(`java_file_parser.py:142`), where docs/running-codeograph.md:27 has it fall back.
Module and corpus ids of a git or zip root contain the random name of the temporary
directory; the corpus id depends on the order of listing; two modules with one
directory name share an id. The `.gitignore` of an aggregator does not reach the
modules below it.

*Fallback.* The regular expressions take the first text of the form "class X" for the
declaration of a file's type, in comments too (`regex_fallback.py:240`), whose docstring
(line 233) speaks of the primary type declaration. A file that falls back may thus be given a
name from its Javadoc: it loses the edges other files have to it, and may share its node with
a type that really has that name. `DegradationIsLocal` holds where the name was
not mistaken; where it was, TLC shows the loss as soon as `WasRead` no longer compares the names.

*Graph.* The target of `autowires` is a simple name; types of one package, which
need no import, never give `depends_on` or resolved calls; a static import gives a
`depends_on` to a field; methods of files without a type fail
`internal_consistency`; only classes carry `extraction_mode`, so that other types
parsed by the fallback do not show in `structural_completeness`.

*Evals.* The report's "mixed" differs from ADR-017, line 356. A crash (a stray child
directory is no scorecard kind) exits with 1, like a failing scorecard. Of two directories with
one corpus id the report keeps the later silently (`report.py:42`), and cards of targets
long gone count. A card torn by a kill is passed over silently (`report.py:43`), so that a
report may succeed where the card before it failed, although ADR-017, line 356, has it pass
only if every scorecard does; `ReportHidesNoFailure` is about the cards that can be read.
That rendered code is not compiled (`evals_compile`) has two more causes: the
sidecar is written below the rendering (`render_pipeline.py:180`) and looked for below
the run (`compile.py:61`), and the renderer is called "typescript", the scorecard's kind
"ts". No manifest that `eval run` accepts has the pointer where the check looks (the one
in `test_compile_check.py:27` is refused), so that `CompileValue` is never reached. An eval with
`--check` overwrites a whole card with skips. Sources of a git or zip run are gone
by the time of an eval, so reproducibility is always skipped for them.

*Selection.* Classes are ordered by WMC alone, within a bucket and below twice the cap,
and keep the order of the graph where it is equal. ADR-009 (lines 119 and 136) orders
by CBO + 0.5 WMC, then by name; docs/requirements.md:572 admits that FR-14 AC-2 is not met.
`DifficultySpread` takes the code's order.

*Rendering.* ADR-008 D-008-2 (line 515) has the manifest record a class that failed to
render; nothing does.

*Grouping.* A single class is labelled by its package's last segment, where the
docstring says "misc"; `longest_common_prefix(["com.example"])` is "com", where its
docstring says "". The docstring's fear that packages of several vendors merge all
domains into one is refuted by `PrefixGroupsPart`.

## 7. What is not modelled

Texts, prices, durations, log lines and file contents. Of the Java parser, the metadata no
edge depends on (HTTP mappings, columns, validation); Lombok's members count as members of
the source. The text matched by regular expressions and by ignore patterns is an attribute
of the member or file; the package and the imports of a source are taken to be matched as
they are, though a comment could hold such lines too. Of the renderer, which annotations
make a policy refuse, and the registry of targets. Of the adapters, the table from exception
types to the three verdicts. Of the evals, what `schema_validity` and the golden comparison
compute. Of the estimate, its token and dollar figures, which are only printed; `--dry-run`,
which stops before the passes. Telemetry statistics are sums over a finished file; settings,
prompts and scripts keep no state.

## 8. Running it

    tlc -workers 2 -config MCLlmStack.cfg MCLlmStack.tla
    tlc -workers 2 -config MCCacheBackend.cfg MCCacheBackend.tla
    tlc -workers 2 -config MCEnrichment.cfg MCEnrichment.tla
    tlc -workers 2 -config MCRunDirectory.cfg MCRunDirectory.tla
    tlc -workers 2 -config MCPass0.cfg MCPass0.tla
    tlc -workers 2 -config MCEvals.cfg MCEvals.tla
    tlc -workers 2 -config MCRendering.cfg MCRendering.tla

and for the five claims that do not hold

    tlc -workers 2 -config MCEnrichmentUnattended.cfg MCEnrichment.tla
    tlc -workers 2 -config MCRunDirectoryEval.cfg MCRunDirectory.tla
    tlc -workers 2 -config MCPass0Calls.cfg MCPass0.tla
    tlc -workers 2 -config MCEvalsCompile.cfg MCEvals.tla
    tlc -workers 2 -config MCRenderingCollisions.cfg MCRendering.tla

Proofs: `tlapm M.tla` for each `M` of `LlmStackProofs`, `CacheBackendProofs`,
`EnrichmentProofs`, `RunDirectoryProofs`, `Pass0Proofs`, `EvalsProofs`,
`RenderingProofs` and `ListProofs`.

Operators whose comment begins with *Variant* are plausible bugs: replacing the
operator below by one makes TLC report the property it was written for.
