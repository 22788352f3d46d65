---------------------------- MODULE EvalsProofs ----------------------------
(***************************************************************************)
(* That an eval writes all its scorecards or none, and that its exit code, *)
(* its pointers and its files give one verdict, for any directories,       *)
(* requests, filters and any number of evals; that no graph counts as      *)
(* reproducible on less than three runs that agree; and that a report over *)
(* them averages no failure away.                                          *)
(***************************************************************************)
EXTENDS Evals, FiniteSetTheorems, TLAPS

Fields == {"stage", "corpus", "kinds", "active", "runs", "done", "raised", "open", "written", "exit"}

\* The variables are functions on what they should be.
Shape ==
  /\ DOMAIN eval = Fields
  /\ DOMAIN cards = Corpora /\ DOMAIN pointers = Corpora
  /\ eval.stage # "ended" => eval.corpus \in Corpora
  /\ eval.stage \in {"preflight", "graph", "targets", "write", "ended"}

\* A scorecard that is ready was asked for and consists of results.
DoneIsSound ==
  /\ DOMAIN eval.done \subseteq eval.kinds
  /\ \A k \in DOMAIN eval.done : \A c \in DOMAIN eval.done[k] :
       eval.done[k][c] \in {"pass", "fail", "skip"}

\* How far an eval is, and what there has to be by then.
Progress ==
  /\ eval.stage \in {"preflight", "graph", "targets"} => eval.written = {}
  /\ eval.stage = "graph" => "graph" \in eval.kinds
  /\ eval.stage = "targets" /\ "graph" \in eval.kinds => "graph" \in DOMAIN eval.done
  /\ eval.stage = "write" => DOMAIN eval.done = eval.kinds
  /\ eval.open \subseteq DOMAIN eval.done

\* The files of the scorecards written so far hold them.
FilesHoldThem ==
  eval.stage = "write" =>
    \A k \in eval.written : /\ k \in DOMAIN eval.done /\ k \in DOMAIN cards[eval.corpus]
                            /\ cards[eval.corpus][k] = eval.done[k]

\* An eval that has failed leaves a readable scorecard that says so.
FailureIsOnFile ==
  eval.stage = "ended" /\ eval.exit = 1 /\ eval.written # {} =>
    \E k \in ReadFrom(eval.corpus) : Failing(cards[eval.corpus][k])

IInv == /\ Shape /\ DoneIsSound /\ Progress /\ FilesHoldThem
        /\ AllOrNothing /\ ExitTellsVerdict /\ FailureIsOnFile

LEMMA InitIInv == Init => IInv
BY DEF Init, Idle, IInv, Shape, Fields, DoneIsSound, Progress, FilesHoldThem, AllOrNothing,
       ExitTellsVerdict, FailureIsOnFile

\* A scorecard's overall is fail exactly if one of its checks is.
LEMMA OverallTells ==
  ASSUME NEW results, \A c \in DOMAIN results : results[c] \in {"pass", "fail", "skip"}
  PROVE  Overall(results) = IF Failing(results) THEN "fail" ELSE "pass"
BY DEF Overall, Failing

LEMMA GraphResultsAreResults ==
  ASSUME NEW check, NEW faults
  PROVE  GraphResult(check, faults) \in {"pass", "fail", "skip"}
BY DEF GraphResult, Reproducibility

LEMMA CodeResultsAreResults ==
  ASSUME NEW check, NEW target, NEW outcomes
  PROVE  CodeResult(check, target, outcomes) \in {"pass", "fail", "skip"}
BY DEF CodeResult, Compile, CompileValue

LEMMA StepIInv == IInv /\ [Next]_vars => IInv'
<1> SUFFICES ASSUME IInv, [Next]_vars
             PROVE  IInv'
  OBVIOUS
<1> USE DEF IInv, Shape, Fields
<1>1. ASSUME NEW d \in Corpora, NEW request \in Requests, NEW active \in Filters,
             Start(d, request, active)
      PROVE  IInv'
  BY <1>1 DEF Start, Idle, DoneIsSound, Progress, FilesHoldThem, AllOrNothing,
     ExitTellsVerdict, FailureIsOnFile
<1>2. CASE Refuse \/ GraphRaises
  <2>1. CASE Refuse
    BY <2>1 DEF Refuse, Exit, DoneIsSound, Progress, FilesHoldThem, AllOrNothing,
       ExitTellsVerdict, FailureIsOnFile
  <2>2. CASE GraphRaises
    BY <2>2 DEF GraphRaises, Exit, DoneIsSound, Progress, FilesHoldThem, AllOrNothing,
       ExitTellsVerdict, FailureIsOnFile
  <2> QED
    BY <1>2, <2>1, <2>2
<1>3. CASE Preflight
  BY <1>3 DEF Preflight, DoneIsSound, Progress, FilesHoldThem, AllOrNothing,
     ExitTellsVerdict, FailureIsOnFile
<1>4. ASSUME NEW outcome \in RunOutcomes, RunAgain(outcome)
      PROVE  IInv'
  BY <1>4 DEF RunAgain, DoneIsSound, Progress, FilesHoldThem, AllOrNothing,
     ExitTellsVerdict, FailureIsOnFile
<1>5. ASSUME NEW faults \in Faults, CheckGraph(faults)
      PROVE  IInv'
  <2> DEFINE card == [c \in GraphCheckIds |-> GraphResult(c, faults)]
  <2>1. \A c \in DOMAIN card : card[c] \in {"pass", "fail", "skip"}
    BY GraphResultsAreResults
  <2>2. eval' = [eval EXCEPT !.stage = "targets", !.done = WithEntry(eval.done, "graph", card)]
    BY <1>5 DEF CheckGraph, Scored
  <2>3. eval.stage = "graph" /\ UNCHANGED <<cards, pointers>>
    BY <1>5 DEF CheckGraph
  <2>4. "graph" \in eval.kinds
    BY <2>3 DEF Progress
  <2> HIDE DEF card
  <2> QED
    BY <2>1, <2>2, <2>3, <2>4 DEF WithEntry, DoneIsSound, Progress, FilesHoldThem,
       AllOrNothing, ExitTellsVerdict, FailureIsOnFile
<1>6. ASSUME NEW target \in CodeTargets, NEW outcomes \in CommandOutcomes,
             EvalTarget(target, outcomes)
      PROVE  IInv'
  <2> USE DEF EvalTarget, DoneIsSound, Progress, FilesHoldThem, AllOrNothing,
     ExitTellsVerdict, FailureIsOnFile
  <2>1. CASE target \notin CardKinds
    BY <1>6, <2>1
  <2>2. CASE target \in CardKinds
    <3> DEFINE card == [c \in CodeCheckIds |-> CodeResult(c, target, outcomes)]
    <3>1. \A c \in DOMAIN card : card[c] \in {"pass", "fail", "skip"}
      BY CodeResultsAreResults
    <3>2. eval' = [eval EXCEPT !.done = WithEntry(eval.done, target, card)]
      BY <1>6, <2>2 DEF Scored
    <3> HIDE DEF card
    <3>3. target \in eval.kinds
      BY DEF CodeTargets
    <3> QED
      BY <1>6, <3>1, <3>2, <3>3 DEF WithEntry
  <2> QED
    BY <2>1, <2>2
<1>7. CASE PoolRaises
  BY <1>7 DEF PoolRaises, Exit, DoneIsSound, Progress, FilesHoldThem, AllOrNothing,
     ExitTellsVerdict, FailureIsOnFile
<1>8. CASE PoolReturns
  BY <1>8 DEF PoolReturns, Pending, CodeTargets, DoneIsSound, Progress, FilesHoldThem,
     AllOrNothing, ExitTellsVerdict, FailureIsOnFile
<1>9. ASSUME NEW kind \in CardKinds, TruncateCard(kind) \/ WriteCard(kind)
      PROVE  IInv'
  <2> USE DEF File, WithEntry, DoneIsSound, Progress, FilesHoldThem, AllOrNothing,
              ExitTellsVerdict, FailureIsOnFile
  <2>1. CASE TruncateCard(kind)
    BY <2>1 DEF TruncateCard
  <2>2. CASE WriteCard(kind)
    BY <2>2 DEF WriteCard
  <2> QED
    BY <1>9, <2>1, <2>2
<1>10. CASE PatchManifest
  <2> DEFINE d == eval.corpus
             done == eval.done
  <2>1. /\ eval.stage = "write" /\ eval.written = DOMAIN done /\ DOMAIN done = eval.kinds
        /\ cards' = cards
        /\ eval' = [eval EXCEPT !.stage = "ended", !.exit = ExitCode(done)]
        /\ pointers' = [pointers EXCEPT ![d] = [k \in DOMAIN done |-> Overall(done[k])]]
    BY <1>10 DEF PatchManifest, Exit, Progress
  <2>2. /\ eval'.stage = "ended" /\ eval'.exit = ExitCode(done) /\ eval'.corpus = d
        /\ eval'.done = done /\ eval'.written = DOMAIN done /\ eval'.kinds = DOMAIN done
    BY <2>1
  <2>3. Shape' /\ DoneIsSound' /\ Progress' /\ FilesHoldThem' /\ AllOrNothing'
    BY <2>1, <2>2 DEF DoneIsSound, Progress, FilesHoldThem, AllOrNothing
  <2>4. \A k \in DOMAIN done : cards'[d][k] = done[k]
    BY <2>1 DEF FilesHoldThem
  <2>5. /\ DOMAIN pointers'[d] = DOMAIN done
        /\ \A k \in DOMAIN done : pointers'[d][k] = IF Failing(done[k]) THEN "fail" ELSE "pass"
    BY <2>1, OverallTells DEF DoneIsSound
  <2>6. /\ ExitCode(done) = 0 => \A k \in DOMAIN done : ~Failing(done[k])
        /\ ExitCode(done) = 1 => \E k \in DOMAIN done : Failing(done[k])
    BY DEF ExitCode
  <2>7. ExitTellsVerdict'
    <3> HIDE DEF d, done
    <3> QED
      BY <2>2, <2>4, <2>5, <2>6 DEF ExitTellsVerdict
  <2>8. FailureIsOnFile'
    <3>1. ASSUME NEW k \in DOMAIN done, Failing(done[k])
          PROVE  k \in ReadFrom(eval.corpus)' /\ Failing(cards[eval.corpus][k])'
      <4>1. k \in DOMAIN cards'[d] /\ cards'[d][k] = done[k]
        BY <2>1 DEF FilesHoldThem
      <4>2. DOMAIN done[k] # {} /\ Failing(done[k])
        BY <3>1 DEF Failing
      <4>3. (cards[eval.corpus])' = cards'[d]
        BY <2>2
      <4> HIDE DEF d, done
      <4> QED
        BY <4>1, <4>2, <4>3 DEF ReadFrom, Readable, Failing
    <3> HIDE DEF done
    <3> QED
      BY <2>2, <2>6, <3>1 DEF FailureIsOnFile
  <2> QED
    BY <2>3, <2>7, <2>8
<1>11. CASE Kill
  BY <1>11 DEF Kill, Idle, DoneIsSound, Progress, FilesHoldThem, AllOrNothing,
     ExitTellsVerdict, FailureIsOnFile
<1>12. CASE UNCHANGED <<eval, cards, pointers>>
  BY <1>12 DEF DoneIsSound, Progress, FilesHoldThem, AllOrNothing, ExitTellsVerdict,
     FailureIsOnFile, ReadFrom
<1> QED
  BY <1>1, <1>2, <1>3, <1>4, <1>5, <1>6, <1>7, <1>8, <1>9, <1>10, <1>11, <1>12
     DEF Next, vars, Report

\* An eval that ends by itself has written all the scorecards it was asked for
\* or none (runner.py).
THEOREM EvalIsAllOrNothing == Spec => []AllOrNothing
<1>1. IInv => AllOrNothing
  BY DEF IInv
<1> QED
  BY InitIInv, StepIInv, <1>1, PTL DEF Spec

\* The exit code, the pointers and the files of an eval give one verdict
\* (cli/eval.py and runner.py, which compute it separately).
THEOREM EvalTellsOneVerdict == Spec => []ExitTellsVerdict
<1>1. IInv => ExitTellsVerdict
  BY DEF IInv
<1> QED
  BY InitIInv, StepIInv, <1>1, PTL DEF Spec

-----------------------------------------------------------------------------
\* The runs of the check are counted, and precede the graph's scorecard.
RunsBefore ==
  /\ eval.runs \in Seq(RunOutcomes) /\ Len(eval.runs) <= Runs
  /\ eval.stage \in {"preflight", "graph"} => DOMAIN eval.done = {}

RInv == Shape /\ RunsBefore /\ ReproducedThrice

LEMMA InitRInv == Init => RInv
BY DEF Init, Idle, RInv, Shape, Fields, RunsBefore, ReproducedThrice, Runs

\* Three runs that make one set of one hash all gave that hash.
LEMMA OneHash ==
  ASSUME NEW runs \in Seq(RunOutcomes), Len(runs) = Runs,
         "failed" \notin ToSet(runs), Cardinality(ToSet(runs)) = 1
  PROVE  \E hash \in RunOutcomes \ {"failed"} : runs = [r \in 1..Runs |-> hash]
<1>1. ToSet(runs) \subseteq RunOutcomes
  BY DEF ToSet
<1>2. IsFiniteSet(RunOutcomes)
  <2>1. IsFiniteSet({"failed"}) /\ IsFiniteSet({"failed"} \cup {"h2"})
    BY FS_EmptySet, FS_AddElement, FS_Singleton
  <2>2. RunOutcomes = ({"failed"} \cup {"h2"}) \cup {"h1"}
    BY DEF RunOutcomes
  <2> QED
    BY <2>1, <2>2, FS_AddElement
<1>3. PICK hash : ToSet(runs) = {hash}
  BY <1>1, <1>2, FS_Subset, FS_Singleton
<1>4. /\ DOMAIN runs = 1..Runs
      /\ \A r \in 1..Runs : runs[r] \in ToSet(runs)
  BY DEF ToSet
<1>5. runs = [r \in 1..Runs |-> hash]
  BY <1>3, <1>4
<1> QED
  BY <1>1, <1>3, <1>5

LEMMA StepRInv == RInv /\ [Next]_vars => RInv'
<1> SUFFICES ASSUME RInv, [Next]_vars
             PROVE  RInv'
  OBVIOUS
<1> USE DEF RInv, Shape, Fields, Here
<1>1. ASSUME NEW d \in Corpora, NEW request \in Requests, NEW active \in Filters,
             Start(d, request, active)
      PROVE  RInv'
  BY <1>1 DEF Start, Idle, RunsBefore, ReproducedThrice, Runs
<1>2. CASE Refuse \/ GraphRaises \/ PoolRaises \/ PatchManifest
  <2>1. PICK code : eval' = [eval EXCEPT !.stage = "ended", !.exit = code]
    BY <1>2 DEF Refuse, GraphRaises, PoolRaises, PatchManifest, Exit
  <2>2. /\ UNCHANGED <<disk, cards>>
        /\ DOMAIN pointers' = DOMAIN pointers
    BY <1>2 DEF Refuse, GraphRaises, PoolRaises, PatchManifest
  <2> QED
    BY <2>1, <2>2 DEF RunsBefore, ReproducedThrice
<1>3. CASE Preflight \/ PoolReturns
  <2>1. CASE Preflight
    BY <2>1 DEF Preflight, RunsBefore, ReproducedThrice
  <2>2. CASE PoolReturns
    BY <2>2 DEF PoolReturns, RunsBefore, ReproducedThrice
  <2> QED
    BY <1>3, <2>1, <2>2
<1>4. ASSUME NEW outcome \in RunOutcomes, RunAgain(outcome)
      PROVE  RInv'
  <2>1. /\ eval' = [eval EXCEPT !.runs = Append(@, outcome)]
        /\ eval.stage = "graph" /\ Len(eval.runs) < Runs
        /\ UNCHANGED <<disk, cards, pointers>>
    BY <1>4 DEF RunAgain
  <2>2. /\ Append(eval.runs, outcome) \in Seq(RunOutcomes)
        /\ Len(Append(eval.runs, outcome)) <= Runs
    BY <2>1 DEF RunsBefore, Runs
  <2> QED
    BY <2>1, <2>2 DEF RunsBefore, ReproducedThrice
<1>5. ASSUME NEW faults \in Faults, CheckGraph(faults)
      PROVE  RInv'
  <2> DEFINE card == [c \in GraphCheckIds |-> GraphResult(c, faults)]
  <2>1. /\ eval' = [eval EXCEPT !.stage = "targets", !.done = WithEntry(eval.done, "graph", card)]
        /\ eval.stage = "graph" /\ UNCHANGED <<disk, cards, pointers>>
        /\ Reproduces => Len(eval.runs) = Runs
    BY <1>5 DEF CheckGraph, Scored
  <2>2. card["reproducibility"] = IF "reproducibility" \notin eval.active THEN "skip"
                                  ELSE Reproducibility
    BY DEF GraphCheckIds, GraphResult
  <2>3. card["reproducibility"] # "skip" => Here.source /\ Len(eval.runs) = Runs
    BY <2>1, <2>2 DEF Reproducibility, Reproduces
  <2>4. card["reproducibility"] = "pass" =>
          \E hash \in RunOutcomes \ {"failed"} : eval.runs = [r \in 1..Runs |-> hash]
    BY <2>2, <2>3, OneHash DEF Reproducibility, RunsBefore
  <2> HIDE DEF card
  <2>5. eval'.done["graph"] = card /\ eval'.runs = eval.runs /\ Here' = Here
    BY <2>1 DEF WithEntry, Here
  <2>6. ReproducedThrice'
    BY <2>3, <2>4, <2>5 DEF ReproducedThrice
  <2>7. Shape' /\ RunsBefore'
    BY <2>1 DEF RunsBefore
  <2> QED
    BY <2>6, <2>7
<1>6. ASSUME NEW target \in CodeTargets, NEW outcomes \in CommandOutcomes,
             EvalTarget(target, outcomes)
      PROVE  RInv'
  <2>1. CASE target \notin CardKinds
    BY <1>6, <2>1 DEF EvalTarget, RunsBefore, ReproducedThrice
  <2>2. CASE target \in CardKinds
    <3> DEFINE card == [c \in CodeCheckIds |-> CodeResult(c, target, outcomes)]
    <3>1. /\ eval.stage = "targets" /\ UNCHANGED <<disk, cards, pointers>>
          /\ eval' = [eval EXCEPT !.done = WithEntry(eval.done, target, card)]
      BY <1>6, <2>2 DEF EvalTarget, Scored
    <3> HIDE DEF card
    <3>2. target # "graph"
      BY DEF CodeTargets
    <3> QED
      BY <3>1, <3>2 DEF WithEntry, RunsBefore, ReproducedThrice
  <2> QED
    BY <2>1, <2>2
<1>7. ASSUME NEW kind \in CardKinds, TruncateCard(kind) \/ WriteCard(kind)
      PROVE  RInv'
  <2>1. CASE TruncateCard(kind)
    BY <2>1 DEF TruncateCard, File, RunsBefore, ReproducedThrice
  <2>2. CASE WriteCard(kind)
    BY <2>2 DEF WriteCard, File, RunsBefore, ReproducedThrice
  <2> QED
    BY <1>7, <2>1, <2>2
<1>8. CASE Kill
  BY <1>8 DEF Kill, Idle, RunsBefore, ReproducedThrice, Runs
<1>9. CASE UNCHANGED <<disk, eval, cards, pointers>>
  BY <1>9 DEF RunsBefore, ReproducedThrice
<1> QED
  BY <1>1, <1>2, <1>3, <1>4, <1>5, <1>6, <1>7, <1>8, <1>9 DEF Next, vars, Report

\* A graph counts as reproducible only by three runs that all succeeded and
\* agree, and as irreproducible only after three runs (reproducibility.py).
THEOREM ReproducibleMeansThrice == Spec => []ReproducedThrice
<1>1. RInv => ReproducedThrice
  BY DEF RInv
<1> QED
  BY InitRInv, StepRInv, <1>1, PTL DEF Spec

-----------------------------------------------------------------------------
\* A scorecard on disk is of a kind that the report reads.
CardsAreKnown == \A d \in Corpora : DOMAIN cards[d] \subseteq CardKinds

\* Since the report nothing has changed that it tells of.
ReportIsFresh ==
  report # None =>
    /\ eval.stage = "ended"
    /\ report.dirs \in Directories
    /\ report.exit = 0 <=> "fail" \notin AllResults(report.dirs)

FInv == CardsAreKnown /\ ReportIsFresh

LEMMA InitFInv == Init => FInv
BY DEF Init, FInv, CardsAreKnown, ReportIsFresh

LEMMA SameResults ==
  ASSUME UNCHANGED <<disk, cards>>, NEW ds
  PROVE  AllResults(ds)' = AllResults(ds)
BY DEF AllResults, Loaded, ReadFrom

LEMMA StepFInv == IInv /\ FInv /\ [Next]_vars => FInv'
<1> SUFFICES ASSUME Shape, FInv, [Next]_vars
             PROVE  FInv'
  BY DEF IInv
<1> USE DEF FInv, Shape, Fields
<1>1. CardsAreKnown'
  <2>1. CASE UNCHANGED cards
    BY <2>1 DEF CardsAreKnown
  <2>2. ASSUME NEW kind \in CardKinds, TruncateCard(kind) \/ WriteCard(kind)
        PROVE  CardsAreKnown'
    BY <2>2 DEF TruncateCard, WriteCard, File, WithEntry, CardsAreKnown
  <2> QED
    BY <2>1, <2>2 DEF Next, vars, Start, Refuse, GraphRaises, Preflight, RunAgain, CheckGraph,
       EvalTarget, PoolRaises, PoolReturns, PatchManifest, Kill, Report
<1>2. ReportIsFresh'
  <2>1. CASE report' = None
    BY <2>1 DEF ReportIsFresh
  <2>2. CASE UNCHANGED <<disk, cards, report>> /\ (eval.stage = "ended" => eval'.stage = "ended")
    <3>1. \A ds : AllResults(ds)' = AllResults(ds)
      BY <2>2, SameResults
    <3> HIDE DEF FInv, Shape, Fields
    <3>2. ReportIsFresh
      BY DEF FInv
    <3> QED
      BY <2>2, <3>1, <3>2 DEF ReportIsFresh
  <2>3. ASSUME NEW ds \in Directories, Report(ds)
        PROVE  ReportIsFresh'
    <3>1. \A es : AllResults(es)' = AllResults(es)
      BY <2>3, SameResults DEF Report
    <3>2. /\ eval'.stage = "ended" /\ report'.dirs = ds
          /\ report'.exit = IF ReportOverall(AllResults(ds)) = "pass" THEN 0 ELSE 1
      BY <2>3 DEF Report
    <3>3. ReportOverall(AllResults(ds)) = "pass" <=> "fail" \notin AllResults(ds)
      BY DEF ReportOverall
    <3> QED
      BY <3>1, <3>2, <3>3 DEF ReportIsFresh
  <2>4. \/ report' = None
        \/ UNCHANGED <<disk, cards, report>> /\ (eval.stage = "ended" => eval'.stage = "ended")
        \/ eval.stage # "ended" /\ UNCHANGED report
        \/ \E ds \in Directories : Report(ds)
    BY DEF Next, vars, Start, Refuse, GraphRaises, Preflight, RunAgain, CheckGraph, EvalTarget,
       PoolRaises, PoolReturns, TruncateCard, WriteCard, PatchManifest, Kill
  <2>5. CASE eval.stage # "ended" /\ UNCHANGED report
    BY <2>5 DEF ReportIsFresh
  <2> QED
    BY <2>1, <2>2, <2>3, <2>4, <2>5
<1> QED
  BY <1>1, <1>2

\* Of directories with different ids, the scorecard of an id is that of its
\* directory.
LEMMA LoadedById ==
  ASSUME NEW ds \in Directories, NEW kind,
         \A i, j \in DOMAIN ds : i # j => disk[ds[i]].id # disk[ds[j]].id
  PROVE  /\ DOMAIN Loaded(ds, kind)
              = {disk[ds[i]].id : i \in {j \in DOMAIN ds : kind \in ReadFrom(ds[j])}}
         /\ \A i \in DOMAIN ds : kind \in ReadFrom(ds[i]) =>
              Loaded(ds, kind)[disk[ds[i]].id] = cards[ds[i]][kind]
<1> DEFINE with == {i \in DOMAIN ds : kind \in ReadFrom(ds[i])}
           Bearing(id) == {i \in with : disk[ds[i]].id = id}
<1>1. Loaded(ds, kind) = [id \in {disk[ds[i]].id : i \in with} |-> cards[ds[Max(Bearing(id))]][kind]]
  BY DEF Loaded
<1>2. ASSUME NEW i \in with
      PROVE  Max(Bearing(disk[ds[i]].id)) = i
  <2>1. i \in Nat
    BY DEF Directories
  <2>2. Bearing(disk[ds[i]].id) = {i}
    OBVIOUS
  <2>3. Max({i}) = i
    BY <2>1 DEF Max
  <2> HIDE DEF Bearing
  <2> QED
    BY <2>2, <2>3
<1> HIDE DEF Bearing
<1> QED
  BY <1>1, <1>2

\* What the scorecards of a kind say of a check, and the checks they have.
Said(ds, k, check) ==
  {Loaded(ds, k)[id][check] :
     id \in {i \in DOMAIN Loaded(ds, k) : check \in DOMAIN Loaded(ds, k)[i]}}

Checks(ds, k) == UNION {DOMAIN Loaded(ds, k)[id] : id \in DOMAIN Loaded(ds, k)}

LEMMA ResultsOfKinds ==
  ASSUME NEW ds
  PROVE  AllResults(ds)
           = UNION {{Combine(Said(ds, k, check)) : check \in Checks(ds, k)} : k \in CardKinds}
BY DEF AllResults, Said, Checks

\* A check fails in the report exactly if it does in a scorecard.
LEMMA FailuresAreTold ==
  ASSUME CardsAreKnown, NEW ds \in Directories,
         \A i, j \in DOMAIN ds : i # j => disk[ds[i]].id # disk[ds[j]].id
  PROVE  "fail" \in AllResults(ds)
           <=> \E i \in DOMAIN ds : \E k \in ReadFrom(ds[i]) : Failing(cards[ds[i]][k])
<1>1. "fail" \in AllResults(ds)
        <=> \E k \in CardKinds : \E check \in Checks(ds, k) : Combine(Said(ds, k, check)) = "fail"
  BY ResultsOfKinds
<1>2. \A outcomes : Combine(outcomes) = "fail" <=> "fail" \in outcomes
  BY DEF Combine
<1>3. ASSUME NEW k
      PROVE  (\E check \in Checks(ds, k) : "fail" \in Said(ds, k, check))
               <=> \E id \in DOMAIN Loaded(ds, k) : Failing(Loaded(ds, k)[id])
  BY DEF Failing, Said, Checks
<1>4. ASSUME NEW k
      PROVE  (\E id \in DOMAIN Loaded(ds, k) : Failing(Loaded(ds, k)[id]))
               <=> \E i \in DOMAIN ds : k \in ReadFrom(ds[i]) /\ Failing(cards[ds[i]][k])
  <2>1. /\ DOMAIN Loaded(ds, k)
             = {disk[ds[i]].id : i \in {j \in DOMAIN ds : k \in ReadFrom(ds[j])}}
        /\ \A i \in DOMAIN ds : k \in ReadFrom(ds[i]) =>
             Loaded(ds, k)[disk[ds[i]].id] = cards[ds[i]][k]
    BY LoadedById
  <2>2. ASSUME NEW id \in DOMAIN Loaded(ds, k), Failing(Loaded(ds, k)[id])
        PROVE  \E i \in DOMAIN ds : k \in ReadFrom(ds[i]) /\ Failing(cards[ds[i]][k])
    <3>1. PICK i \in DOMAIN ds : k \in ReadFrom(ds[i]) /\ id = disk[ds[i]].id
      BY <2>1
    <3>2. Loaded(ds, k)[id] = cards[ds[i]][k]
      BY <2>1, <3>1
    <3> QED
      BY <2>2, <3>1, <3>2
  <2>3. ASSUME NEW i \in DOMAIN ds, k \in ReadFrom(ds[i]), Failing(cards[ds[i]][k])
        PROVE  \E id \in DOMAIN Loaded(ds, k) : Failing(Loaded(ds, k)[id])
    <3>1. disk[ds[i]].id \in DOMAIN Loaded(ds, k)
      BY <2>1, <2>3
    <3>2. Failing(Loaded(ds, k)[disk[ds[i]].id])
      BY <2>1, <2>3
    <3> QED
      BY <3>1, <3>2
  <2> QED
    BY <2>2, <2>3
<1>5. \A i \in DOMAIN ds : ReadFrom(ds[i]) \subseteq CardKinds
  BY DEF CardsAreKnown, Directories, ReadFrom
<1>6. "fail" \in AllResults(ds)
        <=> \E k \in CardKinds : \E check \in Checks(ds, k) : "fail" \in Said(ds, k, check)
  BY <1>1, <1>2
<1>7. "fail" \in AllResults(ds)
        <=> \E k \in CardKinds : \E i \in DOMAIN ds :
              k \in ReadFrom(ds[i]) /\ Failing(cards[ds[i]][k])
  BY <1>3, <1>4, <1>6
<1> QED
  BY ONLY <1>5, <1>7

\* For any directories and evals of them, killed or not: a report over corpora with
\* different ids ends with 0 exactly if no scorecard that it can read has a check
\* that fails, and not after an eval of one of them that has written its
\* scorecards and failed (report.py, cli/eval_report.py).
THEOREM ReportsTellFailures == Spec => []ReportHidesNoFailure
<1>1. IInv /\ FInv => ReportHidesNoFailure
  <2> SUFFICES ASSUME IInv, FInv, report # None,
                      NEW ds, ds = report.dirs,
                      \A i, j \in DOMAIN ds : i # j => disk[ds[i]].id # disk[ds[j]].id
               PROVE  /\ report.exit = 0
                           <=> \A d \in ToSet(ds) : ~ \E k \in ReadFrom(d) : Failing(cards[d][k])
                      /\ report.exit = 0 =>
                           \A d \in ToSet(ds) :
                             ~(eval.corpus = d /\ eval.exit = 1 /\ eval.written # {})
    BY DEF ReportHidesNoFailure
  <2>1. /\ ds \in Directories /\ (report.exit = 0 <=> "fail" \notin AllResults(ds))
        /\ eval.stage = "ended"
    BY DEF FInv, ReportIsFresh
  <2>2. "fail" \in AllResults(ds)
          <=> \E i \in DOMAIN ds : \E k \in ReadFrom(ds[i]) : Failing(cards[ds[i]][k])
    BY <2>1, FailuresAreTold DEF FInv
  <2>3. report.exit = 0
          <=> \A d \in ToSet(ds) : ~ \E k \in ReadFrom(d) : Failing(cards[d][k])
    BY <2>1, <2>2 DEF ToSet
  <2>4. eval.exit = 1 /\ eval.written # {} =>
          \E k \in ReadFrom(eval.corpus) : Failing(cards[eval.corpus][k])
    BY <2>1 DEF IInv, FailureIsOnFile
  <2> QED
    BY <2>3, <2>4
<1> QED
  BY InitIInv, StepIInv, InitFInv, StepFInv, <1>1, PTL DEF Spec

=============================================================================
