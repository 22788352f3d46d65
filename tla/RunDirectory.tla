---------------------------- MODULE RunDirectory ----------------------------
(***************************************************************************)
(* An output directory and the commands that work on it, each an operating *)
(* system process that may be killed between any two writes:               *)
(*                                                                         *)
(*   codeograph run       (cli/main.py)    produces graph.json,            *)
(*                        llm-annotations.json and, last, manifest.json;   *)
(*   codeograph eval run  (cli/eval.py)    adds scorecards;                *)
(*   codeograph render    (cli/render.py)  adds a compile-checks sidecar.  *)
(*                                                                         *)
(* Commands are numbered as they start. A file is named by the number of   *)
(* the command that wrote it, which stands for its bytes: a pointer of the *)
(* manifest (path and SHA-256) is the number of the bytes it hashed.       *)
(* Nothing locks the directory, so commands of two sessions may overlap.   *)
(***************************************************************************)
EXTENDS Integers, FiniteSets

CONSTANTS
  Sessions,     \* terminals from which commands are given
  Kinds,        \* scorecard kinds: "graph" and the rendered targets
  MaxCommands,  \* bound: commands given in a behaviour
  None,         \* no file, no pointer
  Torn          \* a manifest.json cut short: write_text truncates, then writes

VARIABLES
  graph,       \* graph.json: [by |-> its command, enriched |-> after Pass 2]
  annotations, \* llm-annotations.json
  scorecard,   \* scorecard[k]: evals/<k>-scorecard.json
  logs,        \* whether logs.jsonl exists
  sidecar,     \* compile-checks.<target>.json, in the render's own directory
  manifest,    \* manifest.json: None, Torn, or a Manifest
  commands,    \* commands given so far
  session,     \* session[s]: the command that s is running
  lastWhole,   \* the last complete manifest the directory held (history)
  evalCrash,   \* runs that died in --eval for want of a manifest (history)
  overlapped   \* whether two commands ever were in progress at once (history)

files == <<graph, annotations, scorecard, logs>>
histories == <<lastWhole, evalCrash, overlapped>>
vars  == <<files, sidecar, manifest, commands, session, histories>>

-----------------------------------------------------------------------------
Ids     == 1..MaxCommands
Pointer == Ids \cup {None}

GraphFile == [by : Ids, enriched : BOOLEAN]

Manifest == [run : Ids, skipped : BOOLEAN, graph : GraphFile,
             annotations : Pointer, scorecards : [Kinds -> Pointer],
             checks : Pointer]

ASSUME DirectoryAssumption ==
  /\ MaxCommands \in Nat
  /\ None \notin Nat /\ Torn \notin Nat /\ None # Torn
  /\ None \notin GraphFile /\ None \notin Manifest /\ Torn \notin Manifest

Steps == {"idle", "clear", "pass0", "pass1", "pass2", "hash", "eval", "assemble",
          "score", "patch", "render", "point", "write"}

Options == [ast : BOOLEAN, eval : BOOLEAN]
Idle    == [step |-> "idle"]

\* What a command in progress has in memory: its number, its options, the
\* pointer of the graph that Pass 0 returned, the manifest it read or built,
\* the hash of the annotations, and the scorecards it has still to write and
\* has written.
Working == [step : Steps \ {"idle"}, id : Ids, opt : Options,
            graph : GraphFile \cup {None}, annotations : Pointer,
            manifest : Manifest \cup {None}, todo : SUBSET Kinds,
            scored : SUBSET Kinds]

Working0(id, step) ==
  [step |-> step, id |-> id, opt |-> [ast |-> FALSE, eval |-> FALSE],
   graph |-> None, annotations |-> None, manifest |-> None, todo |-> {}, scored |-> {}]

Whole(m) == m \notin {None, Torn}

TypeOK ==
  /\ graph \in GraphFile \cup {None}
  /\ annotations \in Pointer
  /\ scorecard \in [Kinds -> Pointer]
  /\ logs \in BOOLEAN
  /\ sidecar \in Pointer
  /\ manifest \in Manifest \cup {None, Torn}
  /\ commands \in 0..MaxCommands
  /\ \A s \in Sessions : session[s] \in Working \cup {Idle}
  /\ lastWhole \in Manifest \cup {None}
  /\ evalCrash \subseteq Ids
  /\ overlapped \in BOOLEAN

Init ==
  /\ graph = None
  /\ annotations = None
  /\ scorecard = [k \in Kinds |-> None]
  /\ logs = FALSE
  /\ sidecar = None
  /\ manifest = None
  /\ commands = 0
  /\ session = [s \in Sessions |-> Idle]
  /\ lastWhole = None
  /\ evalCrash = {}
  /\ overlapped = FALSE

-----------------------------------------------------------------------------
NoFiles ==
  /\ graph = None /\ annotations = None /\ manifest = None /\ ~logs
  /\ \A k \in Kinds : scorecard[k] = None

At(s, step) == session[s].step = step

Set(s, w) == session' = [session EXCEPT ![s] = w]

Goto(s, step) == Set(s, [session[s] EXCEPT !.step = step])

End(s) == Set(s, Idle)

Begin(s, w) ==
  /\ At(s, "idle")
  /\ commands < MaxCommands
  /\ commands' = commands + 1
  /\ overlapped' = (overlapped \/ \E q \in Sessions : ~At(q, "idle"))
  /\ Set(s, w)

(***************************************************************************)
(* codeograph run                                                          *)
(***************************************************************************)
\* Variant: --force lets the run into the directory but clears nothing.
RunStartUncleared(s, opt, force) ==
  /\ NoFiles \/ force
  /\ Begin(s, [Working0(commands + 1, "pass0") EXCEPT !.opt = opt])
  /\ logs' = TRUE
  /\ UNCHANGED <<graph, annotations, scorecard, sidecar, manifest, lastWhole,
                 evalCrash>>

\* prepare_output_directory refuses a directory with files unless forced, and
\* then removes its children one by one; the log file is opened after that.
RunStart(s, opt, force) ==
  /\ NoFiles \/ force
  /\ Begin(s, [Working0(commands + 1, IF NoFiles THEN "pass0" ELSE "clear")
                 EXCEPT !.opt = opt])
  /\ logs' = (NoFiles \/ logs)
  /\ UNCHANGED <<graph, annotations, scorecard, sidecar, manifest, lastWhole,
                 evalCrash>>

\* The children go in directory order, which is arbitrary.
ClearOne(s) ==
  /\ At(s, "clear")
  /\ \/ /\ graph # None /\ graph' = None
        /\ UNCHANGED <<annotations, scorecard, logs, manifest>>
     \/ /\ annotations # None /\ annotations' = None
        /\ UNCHANGED <<graph, scorecard, logs, manifest>>
     \/ /\ manifest # None /\ manifest' = None
        /\ UNCHANGED <<graph, annotations, scorecard, logs>>
     \/ /\ logs /\ logs' = FALSE
        /\ UNCHANGED <<graph, annotations, scorecard, manifest>>
     \/ /\ \E k \in Kinds : scorecard[k] # None
        /\ \E k \in Kinds : /\ scorecard[k] # None
                            /\ scorecard' = [scorecard EXCEPT ![k] = None]
        /\ UNCHANGED <<graph, annotations, logs, manifest>>
  /\ UNCHANGED <<sidecar, commands, session, lastWhole, evalCrash, overlapped>>

Cleared(s) ==
  /\ At(s, "clear")
  /\ NoFiles
  /\ Goto(s, "pass0")
  /\ logs' = TRUE
  /\ UNCHANGED <<graph, annotations, scorecard, sidecar, manifest, commands, histories>>

AfterPasses(s) == IF session[s].opt.eval THEN "eval" ELSE "assemble"

Pass0(s) ==
  LET g == [by |-> session[s].id, enriched |-> FALSE]
  IN /\ At(s, "pass0")
     /\ graph' = g
     /\ Set(s, [session[s] EXCEPT
                  !.graph = g,
                  !.step  = IF session[s].opt.ast THEN AfterPasses(s) ELSE "pass1"])
     /\ UNCHANGED <<annotations, scorecard, logs, sidecar, manifest, commands, histories>>

Pass1(s) ==
  /\ At(s, "pass1")
  /\ annotations' = session[s].id
  /\ Goto(s, "pass2")
  /\ UNCHANGED <<graph, scorecard, logs, sidecar, manifest, commands, histories>>

\* The overview is written into graph.json; the pointer stays that of Pass 0.
Pass2(s) ==
  /\ At(s, "pass2")
  /\ graph' = [by |-> session[s].id, enriched |-> TRUE]
  /\ Goto(s, "hash")
  /\ UNCHANGED <<annotations, scorecard, logs, sidecar, manifest, commands, histories>>

\* What is hashed is the file that is there once both passes are over.
HashAnnotations(s) ==
  /\ At(s, "hash")
  /\ annotations # None
  /\ Set(s, [session[s] EXCEPT !.annotations = annotations, !.step = AfterPasses(s)])
  /\ UNCHANGED <<files, sidecar, manifest, commands, histories>>

\* --eval scores every kind it finds; the reproducibility check opens
\* manifest.json whoever calls it, and its FileNotFoundError is not caught.
EvalInRun(s) ==
  /\ At(s, "eval")
  /\ Whole(manifest)
  /\ \E K \in SUBSET Kinds : Set(s, [session[s] EXCEPT !.step = "score", !.todo = K])
  /\ UNCHANGED <<files, sidecar, manifest, commands, histories>>

EvalInRunCrashes(s) ==
  /\ At(s, "eval")
  /\ manifest \in {None, Torn}
  /\ evalCrash' = IF manifest = None THEN evalCrash \cup {session[s].id} ELSE evalCrash
  /\ End(s)
  /\ UNCHANGED <<files, sidecar, manifest, commands, lastWhole, overlapped>>

\* Variant: every kind gets a pointer, scored or not.
PointersToAll(s) == [k \in Kinds |-> session[s].id]

Pointers(s) == [k \in Kinds |-> IF k \in session[s].scored THEN session[s].id ELSE None]

\* The one manifest a run writes, with everything it has produced.
Assemble(s) ==
  /\ At(s, "assemble")
  /\ Set(s, [session[s] EXCEPT
               !.step = "write",
               !.manifest = [run         |-> session[s].id,
                             skipped     |-> session[s].opt.ast,
                             graph       |-> session[s].graph,
                             annotations |-> session[s].annotations,
                             scorecards  |-> Pointers(s),
                             checks      |-> None]])
  /\ manifest' = Torn
  /\ UNCHANGED <<files, sidecar, commands, histories>>

(***************************************************************************)
(* codeograph eval run: read the manifest, write the scorecards, and write *)
(* the manifest that was read back with the new map of scorecards.         *)
(***************************************************************************)
\* Variant: the manifest is used as it is found, unvalidated.
EvalStartUnchecked(s, K) ==
  /\ K # {}
  /\ manifest # None
  /\ "graph" \in K => graph # None
  /\ Begin(s, [Working0(commands + 1, "score") EXCEPT !.manifest = manifest, !.todo = K])
  /\ UNCHANGED <<files, sidecar, manifest, lastWhole, evalCrash>>

EvalStart(s, K) ==
  /\ K # {}
  /\ Whole(manifest)
  /\ "graph" \in K => graph # None
  /\ Begin(s, [Working0(commands + 1, "score") EXCEPT !.manifest = manifest, !.todo = K])
  /\ UNCHANGED <<files, sidecar, manifest, lastWhole, evalCrash>>

WriteScorecard(s, k) ==
  /\ At(s, "score")
  /\ k \in session[s].todo
  /\ scorecard' = [scorecard EXCEPT ![k] = session[s].id]
  /\ Set(s, [session[s] EXCEPT !.todo = @ \ {k}, !.scored = @ \cup {k}])
  /\ UNCHANGED <<graph, annotations, logs, sidecar, manifest, commands, histories>>

Scored(s) ==
  /\ At(s, "score")
  /\ session[s].todo = {}
  /\ Goto(s, IF session[s].manifest = None THEN "assemble" ELSE "patch")
  /\ UNCHANGED <<files, sidecar, manifest, commands, histories>>

\* The new map replaces the old one: kinds not scored now lose their pointer.
Patch(s) ==
  /\ At(s, "patch")
  /\ Set(s, [session[s] EXCEPT !.step = "write", !.manifest.scorecards = Pointers(s)])
  /\ manifest' = Torn
  /\ UNCHANGED <<files, sidecar, commands, histories>>

(***************************************************************************)
(* codeograph render: the artefacts are read and the render's directory    *)
(* cleared at the start, the sidecar is written last of the rendered       *)
(* files, and the manifest patched if there is one by then.                *)
(***************************************************************************)
RenderStart(s, force) ==
  /\ graph # None /\ annotations # None
  /\ sidecar = None \/ force
  /\ Begin(s, Working0(commands + 1, "render"))
  /\ sidecar' = None
  /\ UNCHANGED <<files, manifest, lastWhole, evalCrash>>

Flush(s) ==
  /\ At(s, "render")
  /\ sidecar' = session[s].id
  /\ Goto(s, "point")
  /\ UNCHANGED <<files, manifest, commands, histories>>

\* Variant: the manifest is rebuilt from what render itself knows.
PointRebuilt(s) ==
  /\ At(s, "point")
  /\ Whole(manifest)
  /\ Set(s, [session[s] EXCEPT
               !.step = "write",
               !.manifest = [manifest EXCEPT !.checks = session[s].id,
                                             !.graph  = graph]])
  /\ manifest' = Torn
  /\ UNCHANGED <<files, sidecar, commands, histories>>

Point(s) ==
  /\ At(s, "point")
  /\ Whole(manifest)
  /\ Set(s, [session[s] EXCEPT
               !.step = "write",
               !.manifest = [manifest EXCEPT !.checks = session[s].id]])
  /\ manifest' = Torn
  /\ UNCHANGED <<files, sidecar, commands, histories>>

\* No manifest to patch, or one that does not parse.
NothingToPoint(s) ==
  /\ At(s, "point")
  /\ ~Whole(manifest)
  /\ End(s)
  /\ UNCHANGED <<files, sidecar, manifest, commands, histories>>

(***************************************************************************)
(* The second half of a manifest write, and the end of a process.          *)
(***************************************************************************)
WriteManifest(s) ==
  /\ At(s, "write")
  /\ manifest' = session[s].manifest
  /\ lastWhole' = session[s].manifest
  /\ End(s)
  /\ UNCHANGED <<files, sidecar, commands, evalCrash, overlapped>>

\* Killed, or an exception on the way (the cost gate declined, an LlmError, a
\* full disk): what is on disk stays.
Die(s) ==
  /\ ~At(s, "idle")
  /\ End(s)
  /\ UNCHANGED <<files, sidecar, manifest, commands, histories>>

-----------------------------------------------------------------------------
Run(s) ==
  \/ \E opt \in Options, force \in BOOLEAN : RunStart(s, opt, force)
  \/ ClearOne(s) \/ Cleared(s)
  \/ Pass0(s) \/ Pass1(s) \/ Pass2(s) \/ HashAnnotations(s)
  \/ EvalInRun(s) \/ EvalInRunCrashes(s)
  \/ Assemble(s)

Eval(s) ==
  \/ \E K \in SUBSET Kinds : EvalStart(s, K)
  \/ \E k \in Kinds : WriteScorecard(s, k)
  \/ Scored(s) \/ Patch(s)

Render(s) ==
  \/ \E force \in BOOLEAN : RenderStart(s, force)
  \/ Flush(s) \/ Point(s) \/ NothingToPoint(s)

Next == \E s \in Sessions : Run(s) \/ Eval(s) \/ Render(s) \/ WriteManifest(s) \/ Die(s)

Spec == Init /\ [][Next]_vars

-----------------------------------------------------------------------------
(***************************************************************************)
(* Properties. Commands given one after another, crashes included, keep    *)
(* them; nothing in the code keeps overlapping commands apart, so each     *)
(* assumes that no two have overlapped.                                    *)
(***************************************************************************)

\* A complete manifest never stands beside the files of another run, however
\* many runs were forced into the directory and wherever they were killed: a
\* run removes the old files before it writes its own, and its manifest last.
\* llm_skipped says truly that there are no annotations.
NoMixedRuns ==
  ~overlapped /\ Whole(manifest) =>
    /\ graph # None => /\ graph.by = manifest.run
                       /\ graph.enriched => ~manifest.skipped
    /\ annotations \in {None, manifest.annotations}
    /\ manifest.skipped <=> manifest.annotations = None

\* What the manifest points to was on disk before the manifest was written
\* (ADR-017 Fork 8: sidecar first, pointer second): a file may be gone or newer
\* than its pointer, when a later command died before its patch, never older.
PointersNeverAhead ==
  ~overlapped /\ Whole(manifest) =>
    /\ \A k \in Kinds : manifest.scorecards[k] # None =>
         scorecard[k] = None \/ scorecard[k] >= manifest.scorecards[k]
    /\ manifest.checks # None => sidecar = None \/ sidecar >= manifest.checks

SameRun(m, n) ==
  /\ m.run = n.run /\ m.skipped = n.skipped
  /\ m.graph = n.graph /\ m.annotations = n.annotations

\* Between two complete manifests of one run lies a patch, and a patch by eval
\* or render rewrites its own map and nothing else of what the run recorded,
\* although it writes the whole file anew (ADR-025, write protocol).
PatchesOnlyAdd ==
  [][~overlapped /\ lastWhole # None /\ lastWhole' # lastWhole
       /\ lastWhole'.run = lastWhole.run =>
     /\ SameRun(lastWhole', lastWhole)
     /\ \/ lastWhole'.checks = lastWhole.checks
        \/ lastWhole'.scorecards = lastWhole.scorecards]_vars

(***************************************************************************)
(* Claims of the repository that the code does not keep                    *)
(***************************************************************************)
\* evals/runner.py: "The run --eval path passes them in-memory so no manifest
\* read is needed before the terminal write". The reproducibility check reads
\* the manifest all the same, and the run dies before it writes one.
EvalNeedsNoManifest == evalCrash = {}

=============================================================================
