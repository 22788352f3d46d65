------------------------- MODULE RunDirectoryProofs -------------------------
(***************************************************************************)
(* Proofs about RunDirectory, for any number of sessions, commands and     *)
(* scorecard kinds: as long as no two commands overlapped, and wherever    *)
(* they were killed, a complete manifest stands beside the files of its    *)
(* own run, points only to what was written before it, and is patched in   *)
(* one part at a time.                                                     *)
(***************************************************************************)
EXTENDS RunDirectory, TLAPS

\* Types; what a command patches it has read, and what a run records it has
\* written.
TypeInv ==
  /\ TypeOK
  /\ session \in [Sessions -> Working \cup {Idle}]
  /\ \A s \in Sessions :
       /\ At(s, "patch") => session[s].manifest # None
       /\ \/ session[s].step \in {"pass1", "pass2", "hash", "eval", "assemble"}
          \/ session[s].step = "score" /\ session[s].manifest = None
          => session[s].graph \in GraphFile

Busy(s) == ~At(s, "idle")

\* Commands that have not overlapped are alone, and the one in progress is the
\* last that was given.
OneAtATime ==
  /\ \A p, q \in Sessions : Busy(p) /\ Busy(q) => p = q
  /\ \A s \in Sessions : Busy(s) => session[s].id = commands

\* The files are those of the run that m records, as far as they are there.
Describes(m) ==
  /\ graph # None => graph.by = m.run /\ (graph.enriched => ~m.skipped)
  /\ annotations \in {None, m.annotations}
  /\ m.skipped <=> m.annotations = None

\* What pointer p was hashed from is not older than p.
Older(file, p) == p # None => p <= commands /\ (file = None \/ file >= p)

\* The pointers of m are to what has been written.
Backed(m) ==
  /\ m.run <= commands
  /\ \A k \in Kinds : Older(scorecard[k], m.scorecards[k])
  /\ Older(sidecar, m.checks)

\* m is a manifest of a later run than the last one, or a patch of it.
Follows(m) ==
  lastWhole # None =>
    \/ lastWhole.run < m.run
    \/ /\ SameRun(m, lastWhole)
       /\ m.checks = lastWhole.checks \/ m.scorecards = lastWhole.scorecards

Fresh == {"pass0", "pass1", "pass2", "hash", "eval", "assemble"}

\* Where a run is, the directory holds what it has written so far and nothing
\* else; the manifest it will write says so.
RunInv(w) ==
  /\ w.step \in Fresh \cup {"clear"} =>
       w.scored = {} /\ (lastWhole # None => lastWhole.run < w.id)
  /\ w.step \in Fresh => manifest = None
  /\ w.step = "pass0" => graph = None
  /\ w.step \in {"clear", "pass0", "pass1", "pass2", "hash"} => w.annotations = None
  /\ w.step \in {"pass0", "pass1"} => annotations = None
  /\ w.step \in {"pass1", "pass2", "hash"} =>
       graph # None /\ graph.by = w.id /\ ~w.opt.ast
  /\ w.step \in {"pass2", "hash"} => annotations = w.id
  /\ w.step \in {"eval", "assemble"} =>
       /\ graph # None /\ graph.by = w.id /\ (graph.enriched => ~w.opt.ast)
       /\ annotations = w.annotations
       /\ w.opt.ast <=> w.annotations = None

\* A patch starts from the manifest that is there.
PatchInv(w) ==
  /\ w.step \in {"score", "patch"} =>
       /\ Whole(manifest) /\ w.manifest = manifest
       /\ \A k \in w.scored : scorecard[k] = w.id
  /\ w.step = "point" => sidecar = w.id
  /\ w.step = "write" =>
       /\ Whole(w.manifest) /\ Describes(w.manifest) /\ Backed(w.manifest)
       /\ Follows(w.manifest) /\ manifest = Torn

ManifestInv ==
  /\ Whole(manifest) => lastWhole = manifest /\ Describes(manifest) /\ Backed(manifest)
  /\ lastWhole # None => lastWhole.run <= commands

DirInv ==
  ~overlapped =>
    /\ OneAtATime
    /\ ManifestInv
    /\ \A s \in Sessions : RunInv(session[s]) /\ PatchInv(session[s])

IInv == TypeInv /\ DirInv

-----------------------------------------------------------------------------
(***************************************************************************)
(* What a command in progress holds in memory, after each of its changes   *)
(***************************************************************************)
Fields == {"step", "id", "opt", "graph", "annotations", "manifest", "todo", "scored"}

\* v is w but for the fields F.
Same(v, w, F) == \A f \in Fields \ F : v[f] = w[f]

LEMMA Memory ==
  ASSUME NEW w \in Working
  PROVE  /\ w.step \in Steps \ {"idle"} /\ w.id \in Ids /\ w.opt \in Options
         /\ w.graph \in GraphFile \cup {None} /\ w.annotations \in Pointer
         /\ w.manifest \in Manifest \cup {None}
         /\ w.todo \subseteq Kinds /\ w.scored \subseteq Kinds
  BY DEF Working

LEMMA SetStep ==
  ASSUME NEW w \in Working, NEW x \in Steps \ {"idle"}
  PROVE  LET v == [w EXCEPT !.step = x]
         IN v \in Working /\ v.step = x /\ Same(v, w, {"step"})
  BY DEF Working, Same, Fields

LEMMA SetScorecards ==
  ASSUME NEW m \in Manifest, NEW P \in [Kinds -> Pointer]
  PROVE  LET n == [m EXCEPT !.scorecards = P]
         IN /\ n \in Manifest /\ n.scorecards = P /\ n.checks = m.checks
            /\ SameRun(n, m)
  BY DEF Manifest, SameRun

LEMMA SetChecks ==
  ASSUME NEW m \in Manifest, NEW c \in Pointer
  PROVE  LET n == [m EXCEPT !.checks = c]
         IN /\ n \in Manifest /\ n.checks = c /\ n.scorecards = m.scorecards
            /\ SameRun(n, m)
  BY DEF Manifest, SameRun

LEMMA NewMemory ==
  ASSUME NEW i \in Ids, NEW x \in Steps \ {"idle"}
  PROVE  LET v == Working0(i, x)
         IN /\ v \in Working /\ v.step = x /\ v.id = i
            /\ v.graph = None /\ v.annotations = None /\ v.manifest = None
            /\ v.todo = {} /\ v.scored = {}
  BY DEF Working0, Working, Pointer, Options

-----------------------------------------------------------------------------
(***************************************************************************)
(* Types                                                                   *)
(***************************************************************************)
FilesOK ==
  /\ graph \in GraphFile \cup {None}
  /\ annotations \in Pointer
  /\ scorecard \in [Kinds -> Pointer]
  /\ logs \in BOOLEAN
  /\ sidecar \in Pointer
  /\ manifest \in Manifest \cup {None, Torn}
  /\ commands \in 0..MaxCommands
  /\ lastWhole \in Manifest \cup {None}
  /\ evalCrash \subseteq Ids
  /\ overlapped \in BOOLEAN

\* What TypeInv asks of one process.
MemoryOK(w) ==
  /\ w \in Working \cup {Idle}
  /\ w.step = "patch" => w.manifest # None
  /\ \/ w.step \in {"pass1", "pass2", "hash", "eval", "assemble"}
     \/ w.step = "score" /\ w.manifest = None
     => w.graph \in GraphFile

LEMMA TypeParts ==
  TypeInv <=> /\ FilesOK
              /\ session \in [Sessions -> Working \cup {Idle}]
              /\ \A s \in Sessions : MemoryOK(session[s])
  BY DEF TypeInv, TypeOK, FilesOK, MemoryOK, At

LEMMA IdleOK == MemoryOK(Idle)
  BY DEF MemoryOK, Idle

\* One process moves on, and what it leaves on disk has its type.
LEMMA TypeAfter ==
  ASSUME TypeInv, NEW s \in Sessions, NEW v, MemoryOK(v),
         session' = [session EXCEPT ![s] = v], FilesOK'
  PROVE  TypeInv'
  <1>1. session' \in [Sessions -> Working \cup {Idle}]
    BY TypeParts DEF MemoryOK
  <1>2. \A q \in Sessions : session'[q] = IF q = s THEN v ELSE session[q]
    BY DEF TypeInv
  <1>3. \A q \in Sessions : MemoryOK(session'[q])
    BY <1>2, TypeParts
  <1>4. \A q \in Sessions : MemoryOK(session[q])'
    BY <1>3 DEF MemoryOK
  <1> QED BY <1>1, <1>4, TypeParts DEF TypeInv, TypeOK, FilesOK, MemoryOK, At

\* A process that is doing something has a memory.
LEMMA AtWork ==
  ASSUME TypeInv, NEW s \in Sessions, ~At(s, "idle")
  PROVE  session[s] \in Working
  BY DEF TypeInv, At, Idle

LEMMA NextId ==
  ASSUME TypeInv, commands < MaxCommands
  PROVE  commands + 1 \in Ids /\ commands + 1 \in 0..MaxCommands
  BY DirectoryAssumption DEF TypeInv, TypeOK, Ids, DirectoryAssumption

LEMMA RunStartTypes ==
  ASSUME TypeInv, NEW s \in Sessions, NEW opt \in Options, NEW force \in BOOLEAN,
         RunStart(s, opt, force)
  PROVE  TypeInv'
  <1> DEFINE x == IF NoFiles THEN "pass0" ELSE "clear"
             v == [Working0(commands + 1, x) EXCEPT !.opt = opt]
  <1>1. commands + 1 \in Ids /\ commands + 1 \in 0..MaxCommands
    BY NextId DEF RunStart, Begin
  <1>2. v \in Working /\ v.step = x
    BY <1>1, NewMemory DEF Working, Steps
  <1>3. MemoryOK(v)
    BY <1>2 DEF MemoryOK
  <1>4. session' = [session EXCEPT ![s] = v]
    BY DEF RunStart, Begin, Set
  <1>5. FilesOK'
    BY <1>1, TypeParts DEF RunStart, Begin, FilesOK, NoFiles, At
  <1> QED BY <1>3, <1>4, <1>5, TypeAfter

LEMMA ClearTypes ==
  ASSUME TypeInv, NEW s \in Sessions, ClearOne(s) \/ Cleared(s)
  PROVE  TypeInv'
  <1>1. CASE ClearOne(s)
    <2>1. UNCHANGED session
      BY <1>1 DEF ClearOne
    <2>2. FilesOK'
      BY <1>1, TypeParts DEF ClearOne, FilesOK, Pointer
    <2> QED BY <2>1, <2>2, TypeParts DEF TypeInv, TypeOK, FilesOK, At
  <1>2. CASE Cleared(s)
    <2> DEFINE v == [session[s] EXCEPT !.step = "pass0"]
    <2>1. session[s] \in Working
      BY <1>2, AtWork DEF Cleared, At
    <2>2. MemoryOK(v)
      BY <2>1, SetStep DEF MemoryOK, Steps
    <2>3. session' = [session EXCEPT ![s] = v]
      BY <1>2 DEF Cleared, Goto, Set
    <2>4. FilesOK'
      BY <1>2, TypeParts DEF Cleared, FilesOK, histories
    <2> QED BY <2>2, <2>3, <2>4, TypeAfter
  <1> QED BY <1>1, <1>2

LEMMA Pass0Types == ASSUME TypeInv, NEW s \in Sessions, Pass0(s) PROVE TypeInv'
  <1> DEFINE g == [by |-> session[s].id, enriched |-> FALSE]
             x == IF session[s].opt.ast THEN AfterPasses(s) ELSE "pass1"
             v == [session[s] EXCEPT !.graph = g, !.step = x]
  <1>1. session[s] \in Working
    BY AtWork DEF Pass0, At
  <1>2. g \in GraphFile
    BY <1>1, Memory DEF GraphFile
  <1>3. x \in {"eval", "assemble", "pass1"} /\ x \in Steps \ {"idle"}
    BY DEF AfterPasses, Steps
  <1>4. session' = [session EXCEPT ![s] = v] /\ graph' = g
    BY DEF Pass0, Set
  <1>5. FilesOK'
    BY <1>2, TypeParts DEF Pass0, FilesOK, histories
  <1> HIDE DEF g, x
  <1>6. v \in Working /\ v.step = x /\ v.graph = g
    BY <1>1, <1>2, <1>3 DEF Working
  <1>7. MemoryOK(v)
    BY <1>2, <1>3, <1>6 DEF MemoryOK
  <1> QED BY <1>4, <1>5, <1>7, TypeAfter

LEMMA PassTypes ==
  ASSUME TypeInv, NEW s \in Sessions, Pass1(s) \/ Pass2(s)
  PROVE  TypeInv'
  <1> DEFINE x == IF Pass1(s) THEN "pass2" ELSE "hash"
             v == [session[s] EXCEPT !.step = x]
  <1>1. session[s] \in Working /\ session[s].step \in {"pass1", "pass2"}
    BY AtWork DEF Pass1, Pass2, At
  <1>2. session' = [session EXCEPT ![s] = v]
    BY DEF Pass1, Pass2, At, Goto, Set
  <1>3. v \in Working /\ v.step \in {"pass2", "hash"} /\ v.graph = session[s].graph
    <2>1. x \in {"pass2", "hash"} /\ x \in Steps \ {"idle"}
      BY DEF Steps
    <2> HIDE DEF x
    <2> QED BY <1>1, <2>1, SetStep DEF Same, Fields
  <1>4. MemoryOK(v)
    BY <1>1, <1>3 DEF MemoryOK, TypeInv
  <1>5. session[s].id \in Pointer /\ [by |-> session[s].id, enriched |-> TRUE] \in GraphFile
    BY <1>1 DEF Working, Pointer, GraphFile
  <1>6. graph' \in GraphFile \cup {None} /\ annotations' \in Pointer
    BY <1>5, TypeParts DEF Pass1, Pass2, FilesOK
  <1>7. FilesOK'
    BY <1>6, TypeParts DEF Pass1, Pass2, FilesOK, histories
  <1> QED BY <1>2, <1>4, <1>7, TypeAfter

LEMMA HashTypes == ASSUME TypeInv, NEW s \in Sessions, HashAnnotations(s) PROVE TypeInv'
  <1> DEFINE x == AfterPasses(s)
             v == [session[s] EXCEPT !.annotations = annotations, !.step = x]
  <1>1. session[s] \in Working /\ session[s].step = "hash"
    BY AtWork DEF HashAnnotations, At
  <1>2. session' = [session EXCEPT ![s] = v]
    BY DEF HashAnnotations, Set
  <1>3. annotations \in Pointer /\ x \in Steps \ {"idle"}
    BY DEF AfterPasses, Steps, TypeInv, TypeOK
  <1>4. x \in {"eval", "assemble"}
    BY DEF AfterPasses
  <1>5. FilesOK'
    BY TypeParts DEF HashAnnotations, FilesOK, files, histories
  <1> HIDE DEF x
  <1>6. v \in Working /\ v.step = x /\ v.graph = session[s].graph
    BY <1>1, <1>3 DEF Working
  <1>7. MemoryOK(v)
    BY <1>1, <1>4, <1>6 DEF MemoryOK, TypeInv
  <1> QED BY <1>2, <1>5, <1>7, TypeAfter

LEMMA EvalInRunTypes ==
  ASSUME TypeInv, NEW s \in Sessions, EvalInRun(s)
  PROVE  TypeInv'
  <1>1. PICK K \in SUBSET Kinds :
          session' = [session EXCEPT ![s] = [session[s] EXCEPT !.step = "score", !.todo = K]]
    BY DEF EvalInRun, Set
  <1> DEFINE v == [session[s] EXCEPT !.step = "score", !.todo = K]
  <1>2. session[s] \in Working /\ session[s].step = "eval"
    BY AtWork DEF EvalInRun, At
  <1>3. v \in Working /\ v.step = "score" /\ v.graph = session[s].graph
    BY <1>2 DEF Working, Steps
  <1>4. MemoryOK(v)
    BY <1>2, <1>3 DEF MemoryOK, TypeInv
  <1>5. FilesOK'
    BY TypeParts DEF EvalInRun, FilesOK, files, histories
  <1> QED BY <1>1, <1>4, <1>5, TypeAfter

LEMMA EndTypes ==
  ASSUME TypeInv, NEW s \in Sessions,
         EvalInRunCrashes(s) \/ NothingToPoint(s) \/ Die(s) \/ WriteManifest(s)
  PROVE  TypeInv'
  <1>1. session' = [session EXCEPT ![s] = Idle]
    BY DEF EvalInRunCrashes, NothingToPoint, Die, WriteManifest, End, Set
  <1>2. session[s] \in Working
    BY AtWork DEF EvalInRunCrashes, NothingToPoint, Die, WriteManifest, At
  <1>3. FilesOK'
    BY <1>2, Memory, TypeParts
    DEF EvalInRunCrashes, NothingToPoint, Die, WriteManifest, FilesOK, files, histories
  <1> QED BY <1>1, <1>3, IdleOK, TypeAfter

\* The manifest a run puts together.
Assembled(s) ==
  [run         |-> session[s].id,
   skipped     |-> session[s].opt.ast,
   graph       |-> session[s].graph,
   annotations |-> session[s].annotations,
   scorecards  |-> Pointers(s),
   checks      |-> None]

LEMMA PointersType ==
  ASSUME NEW s \in Sessions, session[s] \in Working
  PROVE  Pointers(s) \in [Kinds -> Pointer]
  BY DEF Pointers, Pointer, Working

LEMMA AssembledType ==
  ASSUME NEW s \in Sessions, session[s] \in Working, session[s].graph \in GraphFile
  PROVE  Assembled(s) \in Manifest
  <1>1. Pointers(s) \in [Kinds -> Pointer]
    BY PointersType
  <1>2. /\ session[s].id \in Ids /\ session[s].annotations \in Pointer
        /\ session[s].opt.ast \in BOOLEAN
    BY DEF Working, Options
  <1>3. None \in Pointer
    BY DEF Pointer
  <1> QED BY <1>1, <1>2, <1>3 DEF Assembled, Manifest

LEMMA AssembleTypes == ASSUME TypeInv, NEW s \in Sessions, Assemble(s) PROVE TypeInv'
  <1> DEFINE m == Assembled(s)
             v == [session[s] EXCEPT !.step = "write", !.manifest = m]
  <1>1. session[s] \in Working /\ session[s].step = "assemble"
    BY AtWork DEF Assemble, At
  <1>2. m \in Manifest
    BY <1>1, AssembledType DEF TypeInv
  <1>3. session' = [session EXCEPT ![s] = v]
    BY DEF Assemble, Set, Assembled
  <1>4. FilesOK'
    BY TypeParts DEF Assemble, FilesOK, files, histories
  <1> HIDE DEF m
  <1>5. v \in Working /\ v.step = "write"
    BY <1>1, <1>2 DEF Working, Steps
  <1>6. MemoryOK(v)
    BY <1>5 DEF MemoryOK
  <1> QED BY <1>3, <1>4, <1>6, TypeAfter

LEMMA EvalStartTypes ==
  ASSUME TypeInv, NEW s \in Sessions, NEW K \in SUBSET Kinds, EvalStart(s, K)
  PROVE  TypeInv'
  <1> DEFINE u == Working0(commands + 1, "score")
             v == [u EXCEPT !.manifest = manifest, !.todo = K]
  <1>1. commands + 1 \in Ids /\ commands + 1 \in 0..MaxCommands
    BY NextId DEF EvalStart, Begin
  <1>2. manifest \in Manifest /\ manifest # None
    BY DEF EvalStart, Whole, TypeInv, TypeOK
  <1>3. u \in Working /\ u.step = "score"
    BY <1>1, NewMemory DEF Steps
  <1>4. session' = [session EXCEPT ![s] = v]
    BY DEF EvalStart, Begin, Set
  <1>5. FilesOK'
    BY <1>1, TypeParts DEF EvalStart, Begin, FilesOK, files, At
  <1> HIDE DEF u
  <1>6. v \in Working /\ v.step = "score" /\ v.manifest = manifest
    BY <1>2, <1>3 DEF Working
  <1>7. MemoryOK(v)
    BY <1>2, <1>6 DEF MemoryOK
  <1> QED BY <1>4, <1>5, <1>7, TypeAfter

LEMMA ScoreTypes ==
  ASSUME TypeInv, NEW s \in Sessions, NEW k \in Kinds, WriteScorecard(s, k)
  PROVE  TypeInv'
  <1> DEFINE w == session[s]
             v == [w EXCEPT !.todo = @ \ {k}, !.scored = @ \cup {k}]
  <1>1. w \in Working /\ w.step = "score"
    BY AtWork DEF WriteScorecard, At
  <1>2. session' = [session EXCEPT ![s] = v]
    BY DEF WriteScorecard, Set
  <1>3. w.id \in Pointer /\ scorecard' = [scorecard EXCEPT ![k] = w.id]
    BY <1>1 DEF WriteScorecard, Working, Pointer
  <1>4. FilesOK'
    BY <1>3, TypeParts DEF WriteScorecard, FilesOK, histories
  <1>5. MemoryOK(w)
    BY TypeParts
  <1> HIDE DEF w
  <1>6. v \in Working /\ v.step = "score" /\ v.graph = w.graph /\ v.manifest = w.manifest
    BY <1>1 DEF Working
  <1>7. MemoryOK(v)
    BY <1>1, <1>5, <1>6 DEF MemoryOK
  <1> QED BY <1>2, <1>4, <1>7, TypeAfter

LEMMA ScoredTypes == ASSUME TypeInv, NEW s \in Sessions, Scored(s) PROVE TypeInv'
  <1> DEFINE w == session[s]
             x == IF w.manifest = None THEN "assemble" ELSE "patch"
             v == [w EXCEPT !.step = x]
  <1>1. w \in Working /\ w.step = "score"
    BY AtWork DEF Scored, At
  <1>2. session' = [session EXCEPT ![s] = v]
    BY DEF Scored, Goto, Set
  <1>3. FilesOK'
    BY TypeParts DEF Scored, FilesOK, files, histories
  <1>4. MemoryOK(w)
    BY TypeParts
  <1> HIDE DEF w
  <1>5. v \in Working /\ v.step = x /\ v.graph = w.graph /\ v.manifest = w.manifest
    BY <1>1 DEF Working, Steps
  <1>6. MemoryOK(v)
    BY <1>1, <1>4, <1>5 DEF MemoryOK
  <1> QED BY <1>2, <1>3, <1>6, TypeAfter

\* The manifest with the pointers of the scorecards just written.
Patched(s) == [session[s].manifest EXCEPT !.scorecards = Pointers(s)]

LEMMA PatchTypes == ASSUME TypeInv, NEW s \in Sessions, Patch(s) PROVE TypeInv'
  <1> DEFINE w == session[s]
             m == Patched(s)
             v == [w EXCEPT !.step = "write", !.manifest = m]
  <1>1. w \in Working /\ w.step = "patch" /\ w.manifest \in Manifest
    BY AtWork, Memory DEF Patch, At, TypeInv
  <1>2. m \in Manifest
    BY <1>1, PointersType, SetScorecards DEF Patched
  <1>3. session' = [session EXCEPT ![s] = v]
    BY DEF Patch, Set, Patched
  <1>4. FilesOK'
    BY TypeParts DEF Patch, FilesOK, files, histories
  <1> HIDE DEF w, m
  <1>5. v \in Working /\ v.step = "write"
    BY <1>1, <1>2 DEF Working, Steps
  <1>6. MemoryOK(v)
    BY <1>5 DEF MemoryOK
  <1> QED BY <1>3, <1>4, <1>6, TypeAfter

LEMMA RenderStartTypes ==
  ASSUME TypeInv, NEW s \in Sessions, NEW force \in BOOLEAN, RenderStart(s, force)
  PROVE  TypeInv'
  <1> DEFINE v == Working0(commands + 1, "render")
  <1>1. commands + 1 \in Ids /\ commands + 1 \in 0..MaxCommands
    BY NextId DEF RenderStart, Begin
  <1>2. v \in Working /\ v.step = "render"
    BY <1>1, NewMemory DEF Steps
  <1>3. session' = [session EXCEPT ![s] = v]
    BY DEF RenderStart, Begin, Set
  <1>4. FilesOK'
    BY <1>1, TypeParts DEF RenderStart, Begin, FilesOK, files, At, Pointer
  <1>5. MemoryOK(v)
    BY <1>2 DEF MemoryOK
  <1> QED BY <1>3, <1>4, <1>5, TypeAfter

LEMMA FlushTypes == ASSUME TypeInv, NEW s \in Sessions, Flush(s) PROVE TypeInv'
  <1> DEFINE v == [session[s] EXCEPT !.step = "point"]
  <1>1. session[s] \in Working
    BY AtWork DEF Flush, At
  <1>2. session' = [session EXCEPT ![s] = v]
    BY DEF Flush, Goto, Set
  <1>3. session[s].id \in Pointer
    BY <1>1 DEF Working, Pointer
  <1>4. FilesOK'
    BY <1>3, TypeParts DEF Flush, FilesOK, files, histories
  <1>5. v \in Working /\ v.step = "point"
    BY <1>1 DEF Working, Steps
  <1>6. MemoryOK(v)
    BY <1>5 DEF MemoryOK
  <1> QED BY <1>2, <1>4, <1>6, TypeAfter

\* The manifest with the pointer of the sidecar just written.
Pointed(s) == [manifest EXCEPT !.checks = session[s].id]

LEMMA PointTypes == ASSUME TypeInv, NEW s \in Sessions, Point(s) PROVE TypeInv'
  <1> DEFINE w == session[s]
             m == Pointed(s)
             v == [w EXCEPT !.step = "write", !.manifest = m]
  <1>1. w \in Working /\ w.id \in Pointer /\ manifest \in Manifest
    BY AtWork, Memory DEF Point, At, TypeInv, TypeOK, Whole, Pointer
  <1>2. m \in Manifest
    BY <1>1, SetChecks DEF Pointed
  <1>3. session' = [session EXCEPT ![s] = v]
    BY DEF Point, Set, Pointed
  <1>4. FilesOK'
    BY TypeParts DEF Point, FilesOK, files, histories
  <1> HIDE DEF w, m
  <1>5. v \in Working /\ v.step = "write"
    BY <1>1, <1>2 DEF Working, Steps
  <1>6. MemoryOK(v)
    BY <1>5 DEF MemoryOK
  <1> QED BY <1>3, <1>4, <1>6, TypeAfter

LEMMA StepTypes == TypeInv /\ [Next]_vars => TypeInv'
  <1> SUFFICES ASSUME TypeInv, [Next]_vars PROVE TypeInv'
    OBVIOUS
  <1>1. ASSUME NEW s \in Sessions, Run(s) PROVE TypeInv'
    BY <1>1, RunStartTypes, ClearTypes, Pass0Types, PassTypes, HashTypes,
       EvalInRunTypes, EndTypes, AssembleTypes DEF Run
  <1>2. ASSUME NEW s \in Sessions, Eval(s) PROVE TypeInv'
    BY <1>2, EvalStartTypes, ScoreTypes, ScoredTypes, PatchTypes DEF Eval
  <1>3. ASSUME NEW s \in Sessions, Render(s) PROVE TypeInv'
    BY <1>3, RenderStartTypes, FlushTypes, PointTypes, EndTypes DEF Render
  <1>4. ASSUME NEW s \in Sessions, WriteManifest(s) \/ Die(s) PROVE TypeInv'
    BY <1>4, EndTypes
  <1>5. CASE UNCHANGED vars
    BY <1>5, TypeParts
    DEF vars, files, histories, FilesOK, MemoryOK, TypeInv, TypeOK, At
  <1> QED BY <1>1, <1>2, <1>3, <1>4, <1>5 DEF Next

LEMMA InitTypes == Init => TypeInv
  <1> SUFFICES ASSUME Init PROVE TypeInv
    OBVIOUS
  <1>1. FilesOK
    <2>1. 0 \in 0..MaxCommands
      BY DirectoryAssumption
    <2>2. scorecard \in [Kinds -> Pointer]
      BY DEF Init, Pointer
    <2> QED BY <2>1, <2>2 DEF Init, FilesOK, Pointer
  <1>2. session \in [Sessions -> Working \cup {Idle}]
    BY DEF Init
  <1>3. \A s \in Sessions : MemoryOK(session[s])
    BY IdleOK DEF Init
  <1> QED BY <1>1, <1>2, <1>3, TypeParts

\* Every file, pointer and process has the type the model states, whoever
\* overlaps whom.
THEOREM DirectoryTypes == Spec => []TypeOK
  <1>1. TypeInv => TypeOK
    BY DEF TypeInv
  <1> QED BY <1>1, InitTypes, StepTypes, PTL DEF Spec

-----------------------------------------------------------------------------
(***************************************************************************)
(* Commands that have not overlapped                                       *)
(***************************************************************************)

\* A command in progress is alone.
LEMMA Alone ==
  ASSUME IInv, ~overlapped, NEW s \in Sessions, Busy(s)
  PROVE  /\ \A q \in Sessions : q # s => At(q, "idle")
         /\ session[s] \in Working /\ session[s].id = commands
         /\ ManifestInv /\ RunInv(session[s]) /\ PatchInv(session[s])
  BY AtWork DEF IInv, DirInv, OneAtATime, Busy

\* A command that begins without overlap finds everybody idle.
LEMMA AllIdle ==
  ASSUME IInv, NEW s \in Sessions, NEW w, Begin(s, w), ~overlapped'
  PROVE  /\ ~overlapped
         /\ \A q \in Sessions : At(q, "idle")
         /\ ManifestInv
         /\ commands' = commands + 1
  BY DEF Begin, IInv, DirInv, TypeInv, TypeOK

\* When one process moves and the others are idle, the invariant is about it.
LEMMA OnlyOne ==
  ASSUME IInv, TypeInv', NEW s \in Sessions, ~overlapped',
         \A q \in Sessions : q # s => At(q, "idle") /\ session'[q] = session[q],
         At(s, "idle")' \/ session'[s].id = commands',
         ManifestInv', RunInv(session[s])', PatchInv(session[s])'
  PROVE  DirInv'
  <1>1. \A q \in Sessions : q # s => session'[q].step = "idle"
    BY DEF At
  <1>2. OneAtATime'
    BY <1>1 DEF OneAtATime, Busy, At
  <1>3. ASSUME NEW q \in Sessions, q # s PROVE (RunInv(session[q]) /\ PatchInv(session[q]))'
    BY <1>1, <1>3 DEF RunInv, PatchInv, Fresh
  <1> QED BY <1>2, <1>3 DEF DirInv

LEMMA IdleInv ==
  ASSUME NEW s \in Sessions, session'[s] = Idle
  PROVE  At(s, "idle")' /\ RunInv(session[s])' /\ PatchInv(session[s])'
  BY DEF Idle, At, RunInv, PatchInv, Fresh

LEMMA Numbers ==
  ASSUME TypeInv
  PROVE  /\ commands \in Nat /\ MaxCommands \in Nat
         /\ \A p \in Ids : p \in Nat /\ p # None
         /\ \A m \in Manifest : m.run \in Ids /\ Whole(m)
         /\ \A m \in Manifest : m.checks \in Pointer /\ \A k \in Kinds : m.scorecards[k] \in Pointer
         /\ \A k \in Kinds : scorecard[k] \in Pointer
         /\ sidecar \in Pointer
         /\ \A g \in GraphFile : g # None
  <1>1. /\ commands \in Nat /\ MaxCommands \in Nat
        /\ \A p \in Ids : p \in Nat /\ p # None
    BY DirectoryAssumption DEF TypeInv, TypeOK, Ids
  <1>2. \A m \in Manifest : m.run \in Ids /\ Whole(m)
    BY DirectoryAssumption DEF Manifest, Whole
  <1>3. \A m \in Manifest : m.checks \in Pointer /\ \A k \in Kinds : m.scorecards[k] \in Pointer
    BY DEF Manifest
  <1>4. /\ \A k \in Kinds : scorecard[k] \in Pointer
        /\ sidecar \in Pointer
    BY DEF TypeInv, TypeOK
  <1>5. \A g \in GraphFile : g # None
    BY DirectoryAssumption
  <1> QED BY <1>1, <1>2, <1>3, <1>4, <1>5

\* The manifest stays true when nothing it speaks of changes, or only goes.
LEMMA ManifestKeeps ==
  ASSUME ManifestInv, UNCHANGED <<lastWhole, commands>>, manifest' \in {manifest, None, Torn},
         graph' \in {graph, None}, annotations' \in {annotations, None},
         \A k \in Kinds : scorecard'[k] \in {scorecard[k], None},
         sidecar' \in {sidecar, None}
  PROVE  ManifestInv'
  <1>1. CASE manifest' \in {None, Torn}
    BY <1>1 DEF ManifestInv, Whole
  <1>2. CASE manifest' = manifest /\ Whole(manifest)
    <2>1. lastWhole' = manifest' /\ Describes(manifest)'
      BY <1>2 DEF ManifestInv, Describes
    <2>2. Backed(manifest)'
      BY <1>2 DEF ManifestInv, Backed, Older
    <2> QED BY <2>1, <2>2 DEF ManifestInv
  <1> QED BY <1>1, <1>2 DEF ManifestInv, Whole

\* A new command does not make the manifest untrue.
LEMMA ManifestGrows ==
  ASSUME TypeInv, ManifestInv, commands' = commands + 1,
         UNCHANGED <<lastWhole, manifest, graph, annotations, scorecard>>,
         sidecar' \in {sidecar, None}
  PROVE  /\ ManifestInv'
         /\ lastWhole # None => lastWhole.run < commands'
  <1>1. lastWhole # None => lastWhole.run \in Nat /\ lastWhole.run <= commands
    <2>1. lastWhole # None => lastWhole \in Manifest
      BY DEF TypeInv, TypeOK
    <2> QED BY <2>1, Numbers DEF ManifestInv
  <1>2. commands \in Nat
    BY Numbers
  <1>3. ASSUME Whole(manifest) PROVE (Describes(manifest) /\ Backed(manifest))'
    <2>1. Describes(manifest)'
      BY <1>3 DEF ManifestInv, Describes
    <2>2. manifest \in Manifest
      BY <1>3 DEF TypeInv, TypeOK, Whole
    <2>3. Backed(manifest)
      BY <1>3 DEF ManifestInv
    <2>4. \A k \in Kinds : Older(scorecard[k], manifest.scorecards[k])'
      <3> SUFFICES ASSUME NEW k \in Kinds PROVE Older(scorecard[k], manifest.scorecards[k])'
        OBVIOUS
      <3>1. Older(scorecard[k], manifest.scorecards[k])
        BY <2>3 DEF Backed
      <3>2. manifest.scorecards[k] # None => manifest.scorecards[k] \in Nat
        BY <2>2, Numbers DEF Pointer
      <3> QED BY <1>2, <3>1, <3>2 DEF Older
    <2>5. Older(sidecar, manifest.checks)'
      <3>1. Older(sidecar, manifest.checks)
        BY <2>3 DEF Backed
      <3>2. manifest.checks # None => manifest.checks \in Nat
        BY <2>2, Numbers DEF Pointer
      <3> QED BY <1>2, <3>1, <3>2 DEF Older
    <2>6. manifest'.run <= commands'
      <3>1. manifest.run <= commands /\ manifest.run \in Nat
        BY <2>2, <2>3, Numbers DEF Backed
      <3> QED BY <1>2, <3>1
    <2> QED BY <2>1, <2>4, <2>5, <2>6 DEF Backed
  <1>4. lastWhole # None => lastWhole.run < commands'
    BY <1>1, <1>2
  <1>5. lastWhole' # None => lastWhole'.run <= commands'
    BY <1>1, <1>2
  <1> QED BY <1>3, <1>4, <1>5 DEF ManifestInv, Whole

LEMMA InitDir == Init => DirInv
  <1> SUFFICES ASSUME Init PROVE DirInv
    OBVIOUS
  <1>1. \A s \in Sessions : session[s].step = "idle"
    BY DEF Init, Idle
  <1>2. OneAtATime
    BY <1>1 DEF OneAtATime, Busy, At
  <1>3. ManifestInv
    BY DEF Init, ManifestInv, Whole
  <1>4. \A s \in Sessions : RunInv(session[s]) /\ PatchInv(session[s])
    BY <1>1 DEF RunInv, PatchInv, Fresh
  <1> QED BY <1>2, <1>3, <1>4 DEF DirInv

\* What is said of a step, of process s and its memory w before and v after.
Moves(s, v) == session' = [session EXCEPT ![s] = v]

LEMMA Moved ==
  ASSUME TypeInv, NEW s \in Sessions, NEW v, Moves(s, v)
  PROVE  /\ session'[s] = v
         /\ \A q \in Sessions : q # s => session'[q] = session[q]
  BY DEF Moves, TypeInv

LEMMA RunStartDir ==
  ASSUME IInv, TypeInv', NEW s \in Sessions, NEW opt \in Options, NEW force \in BOOLEAN,
         RunStart(s, opt, force), ~overlapped'
  PROVE  DirInv'
  <1> DEFINE x == IF NoFiles THEN "pass0" ELSE "clear"
             v == [Working0(commands + 1, x) EXCEPT !.opt = opt]
  <1>1. Begin(s, v) /\ Moves(s, v)
    BY DEF RunStart, Begin, Set, Moves
  <1>2. /\ \A q \in Sessions : At(q, "idle")
        /\ ManifestInv /\ commands' = commands + 1
    BY <1>1, AllIdle
  <1>3. v.step = x /\ v.id = commands + 1 /\ v.annotations = None /\ v.scored = {}
    BY DEF Working0
  <1>4. session'[s] = v /\ \A q \in Sessions : q # s => session'[q] = session[q]
    BY <1>1, Moved DEF IInv
  <1>5. UNCHANGED <<lastWhole, manifest, graph, annotations, scorecard, sidecar>>
    BY DEF RunStart
  <1>6. ManifestInv' /\ (lastWhole # None => lastWhole.run < commands')
    BY <1>2, <1>5, ManifestGrows DEF IInv
  <1>7. x = "pass0" => manifest = None /\ graph = None /\ annotations = None
    BY DEF NoFiles
  <1>8. x \in {"pass0", "clear"}
    OBVIOUS
  <1> HIDE DEF x, v
  <1>9. RunInv(session[s])'
    BY <1>2, <1>3, <1>4, <1>5, <1>6, <1>7, <1>8 DEF RunInv, Fresh
  <1>10. PatchInv(session[s])'
    BY <1>3, <1>4, <1>8 DEF PatchInv
  <1> QED BY <1>2, <1>3, <1>4, <1>6, <1>9, <1>10, OnlyOne

LEMMA ClearOneDir ==
  ASSUME IInv, TypeInv', NEW s \in Sessions, ClearOne(s), ~overlapped'
  PROVE  DirInv'
  <1>1. /\ session[s].step = "clear" /\ ~overlapped
        /\ UNCHANGED <<session, commands, lastWhole, sidecar>>
    BY DEF ClearOne, At
  <1>2. /\ \A q \in Sessions : q # s => At(q, "idle")
        /\ ManifestInv /\ RunInv(session[s]) /\ session[s].id = commands
    BY <1>1, Alone DEF Busy, At
  <1>3. /\ manifest' \in {manifest, None} /\ graph' \in {graph, None}
        /\ annotations' \in {annotations, None}
        /\ \A k \in Kinds : scorecard'[k] \in {scorecard[k], None}
    BY DEF ClearOne, IInv, TypeInv, TypeOK
  <1>4. ManifestInv'
    BY <1>1, <1>2, <1>3, ManifestKeeps
  <1>5. RunInv(session[s])'
    BY <1>1, <1>2 DEF RunInv, Fresh
  <1>6. PatchInv(session[s])'
    BY <1>1 DEF PatchInv
  <1> QED BY <1>1, <1>2, <1>4, <1>5, <1>6, OnlyOne

LEMMA ClearedDir ==
  ASSUME IInv, TypeInv', NEW s \in Sessions, Cleared(s), ~overlapped'
  PROVE  DirInv'
  <1> DEFINE w == session[s]
             v == [w EXCEPT !.step = "pass0"]
  <1>1. /\ w.step = "clear" /\ ~overlapped /\ Moves(s, v)
        /\ UNCHANGED <<graph, annotations, scorecard, sidecar, manifest, commands, lastWhole>>
        /\ manifest = None /\ graph = None /\ annotations = None
    BY DEF Cleared, At, Goto, Set, Moves, NoFiles, histories
  <1>2. /\ \A q \in Sessions : q # s => At(q, "idle")
        /\ w \in Working /\ w.id = commands /\ ManifestInv /\ RunInv(w)
    BY <1>1, Alone DEF Busy, At
  <1>3. session'[s] = v /\ \A q \in Sessions : q # s => session'[q] = session[q]
    BY <1>1, Moved DEF IInv
  <1> HIDE DEF w
  <1>4. v.step = "pass0" /\ v.id = w.id /\ v.annotations = w.annotations /\ v.scored = w.scored
    BY <1>2 DEF Working
  <1>5. ManifestInv'
    BY <1>1, <1>2, ManifestKeeps
  <1>6. RunInv(session[s])' /\ PatchInv(session[s])'
    BY <1>1, <1>2, <1>3, <1>4 DEF RunInv, PatchInv, Fresh
  <1> QED BY <1>1, <1>2, <1>3, <1>4, <1>5, <1>6, OnlyOne

LEMMA Pass0Dir ==
  ASSUME IInv, TypeInv', NEW s \in Sessions, Pass0(s), ~overlapped'
  PROVE  DirInv'
  <1> DEFINE w == session[s]
             g == [by |-> w.id, enriched |-> FALSE]
             x == IF w.opt.ast THEN AfterPasses(s) ELSE "pass1"
             v == [w EXCEPT !.graph = g, !.step = x]
  <1>1. /\ w.step = "pass0" /\ ~overlapped /\ Moves(s, v) /\ graph' = g
        /\ UNCHANGED <<annotations, scorecard, sidecar, manifest, commands, lastWhole>>
    BY DEF Pass0, At, Set, Moves, histories
  <1>2. /\ \A q \in Sessions : q # s => At(q, "idle")
        /\ w \in Working /\ w.id = commands /\ ManifestInv /\ RunInv(w)
    BY <1>1, Alone DEF Busy, At
  <1>3. session'[s] = v /\ \A q \in Sessions : q # s => session'[q] = session[q]
    BY <1>1, Moved DEF IInv
  <1>4. /\ x \in {"eval", "assemble", "pass1"}
        /\ x = "pass1" <=> ~w.opt.ast
    BY DEF AfterPasses
  <1>5. g # None /\ g.by = w.id /\ ~g.enriched
    BY <1>2, Memory, Numbers DEF IInv, GraphFile
  <1> HIDE DEF w, g, x
  <1>6. /\ v.step = x /\ v.id = w.id /\ v.annotations = w.annotations
        /\ v.scored = w.scored /\ v.opt = w.opt
    BY <1>2 DEF Working
  <1>7. manifest = None /\ annotations = None /\ w.annotations = None
    BY <1>1, <1>2 DEF RunInv, Fresh
  <1>8. ManifestInv'
    BY <1>1, <1>2, <1>7 DEF ManifestInv, Whole
  <1> HIDE DEF v
  <1>9. RunInv(session[s])'
    BY <1>1, <1>2, <1>3, <1>4, <1>5, <1>6, <1>7 DEF RunInv, Fresh
  <1>10. PatchInv(session[s])'
    BY <1>3, <1>4, <1>6 DEF PatchInv
  <1> QED BY <1>1, <1>2, <1>3, <1>6, <1>8, <1>9, <1>10, OnlyOne

LEMMA PassDir ==
  ASSUME IInv, TypeInv', NEW s \in Sessions, Pass1(s) \/ Pass2(s), ~overlapped'
  PROVE  DirInv'
  <1> DEFINE w == session[s]
             x == IF w.step = "pass1" THEN "pass2" ELSE "hash"
             v == [w EXCEPT !.step = x]
  <1>1. /\ w.step \in {"pass1", "pass2"} /\ ~overlapped /\ Moves(s, v)
        /\ UNCHANGED <<scorecard, sidecar, manifest, commands, lastWhole>>
    BY DEF Pass1, Pass2, At, Goto, Set, Moves, histories
  <1>2. /\ \A q \in Sessions : q # s => At(q, "idle")
        /\ w \in Working /\ w.id = commands /\ ManifestInv /\ RunInv(w)
    BY <1>1, Alone DEF Busy, At
  <1>3. session'[s] = v /\ \A q \in Sessions : q # s => session'[q] = session[q]
    BY <1>1, Moved DEF IInv
  <1>4. /\ w.step = "pass1" => annotations' = w.id /\ graph' = graph
        /\ w.step = "pass2" => /\ annotations' = annotations
                               /\ graph' = [by |-> w.id, enriched |-> TRUE]
    BY DEF Pass1, Pass2, At
  <1>5. [by |-> w.id, enriched |-> TRUE] # None
    BY <1>2, Memory, Numbers DEF IInv, GraphFile
  <1> HIDE DEF w
  <1>6. /\ v.step = x /\ v.id = w.id /\ v.annotations = w.annotations
        /\ v.scored = w.scored /\ v.opt = w.opt
    BY <1>2 DEF Working
  <1>7. manifest = None
    BY <1>1, <1>2 DEF RunInv, Fresh
  <1>8. ManifestInv'
    BY <1>1, <1>2, <1>7 DEF ManifestInv, Whole
  <1> HIDE DEF v
  <1>9. RunInv(session[s])'
    BY <1>1, <1>2, <1>3, <1>4, <1>5, <1>6, <1>7 DEF RunInv, Fresh
  <1>10. PatchInv(session[s])'
    BY <1>3, <1>6 DEF PatchInv
  <1> QED BY <1>1, <1>2, <1>3, <1>6, <1>8, <1>9, <1>10, OnlyOne

LEMMA HashDir ==
  ASSUME IInv, TypeInv', NEW s \in Sessions, HashAnnotations(s), ~overlapped'
  PROVE  DirInv'
  <1> DEFINE w == session[s]
             x == AfterPasses(s)
             v == [w EXCEPT !.annotations = annotations, !.step = x]
  <1>1. /\ w.step = "hash" /\ ~overlapped /\ Moves(s, v) /\ annotations # None
        /\ UNCHANGED <<graph, annotations, scorecard, sidecar, manifest, commands, lastWhole>>
    BY DEF HashAnnotations, At, Set, Moves, files, histories
  <1>2. /\ \A q \in Sessions : q # s => At(q, "idle")
        /\ w \in Working /\ w.id = commands /\ ManifestInv /\ RunInv(w)
    BY <1>1, Alone DEF Busy, At
  <1>3. session'[s] = v /\ \A q \in Sessions : q # s => session'[q] = session[q]
    BY <1>1, Moved DEF IInv
  <1>4. x \in {"eval", "assemble"}
    BY DEF AfterPasses
  <1> HIDE DEF w, x
  <1>5. /\ v.step = x /\ v.id = w.id /\ v.annotations = annotations
        /\ v.scored = w.scored /\ v.opt = w.opt
    BY <1>2 DEF Working
  <1>6. ManifestInv'
    BY <1>1, <1>2, ManifestKeeps
  <1> HIDE DEF v
  <1>7. RunInv(session[s])'
    BY <1>1, <1>2, <1>3, <1>4, <1>5 DEF RunInv, Fresh
  <1>8. PatchInv(session[s])'
    BY <1>3, <1>4, <1>5 DEF PatchInv
  <1> QED BY <1>1, <1>2, <1>3, <1>5, <1>6, <1>7, <1>8, OnlyOne

\* Alone, a run has no manifest to evaluate with.
LEMMA EvalNeedsOverlap ==
  ASSUME IInv, NEW s \in Sessions, EvalInRun(s)
  PROVE  overlapped
  <1> SUFFICES ASSUME ~overlapped PROVE FALSE
    BY DEF IInv, TypeInv, TypeOK
  <1>1. session[s].step = "eval" /\ Whole(manifest)
    BY DEF EvalInRun, At
  <1>2. RunInv(session[s])
    BY <1>1, Alone DEF Busy, At
  <1> QED BY <1>1, <1>2 DEF RunInv, Fresh, Whole

LEMMA EndDir ==
  ASSUME IInv, TypeInv', NEW s \in Sessions,
         EvalInRunCrashes(s) \/ NothingToPoint(s) \/ Die(s), ~overlapped'
  PROVE  DirInv'
  <1>1. /\ session[s].step # "idle" /\ ~overlapped /\ Moves(s, Idle)
        /\ UNCHANGED <<graph, annotations, scorecard, sidecar, manifest, commands, lastWhole>>
    BY DEF EvalInRunCrashes, NothingToPoint, Die, At, End, Set, Moves, files, histories
  <1>2. (\A q \in Sessions : q # s => At(q, "idle")) /\ ManifestInv
    BY <1>1, Alone DEF Busy, At
  <1>3. session'[s] = Idle /\ \A q \in Sessions : q # s => session'[q] = session[q]
    BY <1>1, Moved DEF IInv
  <1>4. ManifestInv'
    BY <1>1, <1>2, ManifestKeeps
  <1> QED BY <1>2, <1>3, <1>4, IdleInv, OnlyOne

LEMMA AssembleDir ==
  ASSUME IInv, TypeInv', NEW s \in Sessions, Assemble(s), ~overlapped'
  PROVE  DirInv'
  <1> DEFINE w == session[s]
             m == Assembled(s)
             v == [w EXCEPT !.step = "write", !.manifest = m]
  <1>1. /\ w.step = "assemble" /\ ~overlapped /\ Moves(s, v) /\ manifest' = Torn
        /\ UNCHANGED <<graph, annotations, scorecard, sidecar, commands, lastWhole>>
    BY DEF Assemble, At, Set, Moves, Assembled, files, histories
  <1>2. /\ \A q \in Sessions : q # s => At(q, "idle")
        /\ w \in Working /\ w.id = commands /\ ManifestInv /\ RunInv(w)
    BY <1>1, Alone DEF Busy, At
  <1>3. session'[s] = v /\ \A q \in Sessions : q # s => session'[q] = session[q]
    BY <1>1, Moved DEF IInv
  <1>4. w.graph \in GraphFile
    BY <1>1 DEF IInv, TypeInv
  <1>5. m \in Manifest
    BY <1>2, <1>4, AssembledType
  <1>6. /\ m.run = w.id /\ m.skipped = w.opt.ast /\ m.annotations = w.annotations
        /\ m.scorecards = Pointers(s) /\ m.checks = None
    BY DEF Assembled
  <1>7. w.scored = {} /\ (lastWhole # None => lastWhole.run < w.id)
    BY <1>1, <1>2 DEF RunInv, Fresh
  <1>8. \A k \in Kinds : m.scorecards[k] = None
    BY <1>6, <1>7 DEF Pointers
  <1>9. /\ graph # None /\ graph.by = w.id /\ (graph.enriched => ~w.opt.ast)
        /\ annotations = w.annotations /\ (w.opt.ast <=> w.annotations = None)
    BY <1>1, <1>2 DEF RunInv
  <1> HIDE DEF w, m
  <1>10. v.step = "write" /\ v.id = w.id /\ v.manifest = m
    BY <1>2 DEF Working
  <1>11. ManifestInv'
    BY <1>1, <1>2 DEF ManifestInv, Whole
  <1> HIDE DEF v
  <1>12. RunInv(session[s])'
    BY <1>3, <1>10 DEF RunInv, Fresh
  <1>13. Whole(session[s].manifest)' /\ Describes(session[s].manifest)'
    BY <1>1, <1>3, <1>5, <1>6, <1>9, <1>10, Numbers DEF Whole, Describes, IInv
  <1>14. Backed(session[s].manifest)' /\ Follows(session[s].manifest)'
    <2>1. w.id <= commands
      BY <1>2, Numbers DEF IInv
    <2> QED BY <1>1, <1>3, <1>6, <1>7, <1>8, <1>10, <2>1 DEF Backed, Older, Follows
  <1>15. PatchInv(session[s])'
    BY <1>1, <1>3, <1>10, <1>13, <1>14 DEF PatchInv
  <1> QED BY <1>1, <1>2, <1>3, <1>10, <1>11, <1>12, <1>15, OnlyOne

LEMMA EvalStartDir ==
  ASSUME IInv, TypeInv', NEW s \in Sessions, NEW K \in SUBSET Kinds,
         EvalStart(s, K), ~overlapped'
  PROVE  DirInv'
  <1> DEFINE v == [Working0(commands + 1, "score") EXCEPT !.manifest = manifest, !.todo = K]
  <1>1. /\ Begin(s, v) /\ Moves(s, v) /\ Whole(manifest)
        /\ UNCHANGED <<graph, annotations, scorecard, sidecar, manifest, lastWhole>>
    BY DEF EvalStart, Begin, Set, Moves, files
  <1>2. /\ \A q \in Sessions : At(q, "idle")
        /\ ManifestInv /\ commands' = commands + 1
    BY <1>1, AllIdle
  <1>3. session'[s] = v /\ \A q \in Sessions : q # s => session'[q] = session[q]
    BY <1>1, Moved DEF IInv
  <1>4. v.step = "score" /\ v.id = commands + 1 /\ v.manifest = manifest /\ v.scored = {}
    BY DEF Working0
  <1>5. ManifestInv'
    BY <1>1, <1>2, ManifestGrows DEF IInv
  <1> HIDE DEF v
  <1>6. RunInv(session[s])' /\ PatchInv(session[s])'
    BY <1>1, <1>3, <1>4 DEF RunInv, PatchInv, Fresh, Whole
  <1> QED BY <1>2, <1>3, <1>4, <1>5, <1>6, OnlyOne

LEMMA ScoreDir ==
  ASSUME IInv, TypeInv', NEW s \in Sessions, NEW k \in Kinds, WriteScorecard(s, k),
         ~overlapped'
  PROVE  DirInv'
  <1> DEFINE w == session[s]
             v == [w EXCEPT !.todo = @ \ {k}, !.scored = @ \cup {k}]
  <1>1. /\ w.step = "score" /\ ~overlapped /\ Moves(s, v)
        /\ UNCHANGED <<graph, annotations, sidecar, manifest, commands, lastWhole>>
    BY DEF WriteScorecard, At, Set, Moves, histories
  <1>2. /\ \A q \in Sessions : q # s => At(q, "idle")
        /\ w \in Working /\ w.id = commands /\ ManifestInv /\ PatchInv(w)
    BY <1>1, Alone DEF Busy, At
  <1>3. session'[s] = v /\ \A q \in Sessions : q # s => session'[q] = session[q]
    BY <1>1, Moved DEF IInv
  <1>4. \A j \in Kinds : scorecard'[j] = IF j = k THEN w.id ELSE scorecard[j]
    BY DEF WriteScorecard, IInv, TypeInv, TypeOK
  <1>5. Whole(manifest) /\ w.manifest = manifest /\ \A j \in w.scored : scorecard[j] = w.id
    BY <1>1, <1>2 DEF PatchInv
  <1>6. w.scored \subseteq Kinds
    BY <1>2, Memory
  <1> HIDE DEF w
  <1>7. v.step = "score" /\ v.id = w.id /\ v.manifest = w.manifest /\ v.scored = w.scored \cup {k}
    BY <1>1, <1>2 DEF Working
  <1> HIDE DEF v
  <1>8. RunInv(session[s])' /\ PatchInv(session[s])'
    BY <1>1, <1>3, <1>4, <1>5, <1>6, <1>7 DEF RunInv, PatchInv, Fresh, Whole
  <1>9. Backed(manifest)'
    <2>1. Backed(manifest) /\ manifest \in Manifest
      BY <1>2, <1>5 DEF ManifestInv, IInv, TypeInv, TypeOK, Whole
    <2>2. ASSUME NEW j \in Kinds PROVE Older(scorecard[j], manifest.scorecards[j])'
      <3>1. Older(scorecard[j], manifest.scorecards[j])
        BY <2>1 DEF Backed
      <3>2. manifest.scorecards[j] # None => manifest.scorecards[j] \in Nat
        BY <2>1, Numbers DEF Pointer, IInv
      <3> QED BY <1>1, <1>2, <1>4, <3>1, <3>2, Numbers DEF Older, IInv
    <2> QED BY <1>1, <2>1, <2>2 DEF Backed, Older
  <1>10. ManifestInv'
    BY <1>1, <1>2, <1>5, <1>9 DEF ManifestInv, Describes
  <1> QED BY <1>1, <1>2, <1>3, <1>7, <1>8, <1>10, OnlyOne

LEMMA ScoredDir ==
  ASSUME IInv, TypeInv', NEW s \in Sessions, Scored(s), ~overlapped'
  PROVE  DirInv'
  <1> DEFINE w == session[s]
             x == IF w.manifest = None THEN "assemble" ELSE "patch"
             v == [w EXCEPT !.step = x]
  <1>1. /\ w.step = "score" /\ ~overlapped /\ Moves(s, v)
        /\ UNCHANGED <<graph, annotations, scorecard, sidecar, manifest, commands, lastWhole>>
    BY DEF Scored, At, Goto, Set, Moves, files, histories
  <1>2. /\ \A q \in Sessions : q # s => At(q, "idle")
        /\ w \in Working /\ w.id = commands /\ ManifestInv /\ PatchInv(w)
    BY <1>1, Alone DEF Busy, At
  <1>3. session'[s] = v /\ \A q \in Sessions : q # s => session'[q] = session[q]
    BY <1>1, Moved DEF IInv
  <1> HIDE DEF w
  <1>4. x = "patch"
    BY <1>1, <1>2 DEF PatchInv, Whole
  <1>5. v.step = "patch" /\ v.id = w.id /\ v.manifest = w.manifest /\ v.scored = w.scored
    BY <1>2, <1>4 DEF Working
  <1> HIDE DEF v
  <1>6. ManifestInv'
    BY <1>1, <1>2, ManifestKeeps
  <1>7. RunInv(session[s])' /\ PatchInv(session[s])'
    BY <1>1, <1>2, <1>3, <1>5 DEF RunInv, PatchInv, Fresh, Whole
  <1> QED BY <1>1, <1>2, <1>3, <1>5, <1>6, <1>7, OnlyOne

\* A patch of the manifest that is there may be written in its place.
LEMMA WritePatch ==
  ASSUME IInv, TypeInv', NEW s \in Sessions, ~overlapped', NEW m \in Manifest,
         Whole(manifest), ManifestInv, SameRun(m, manifest),
         m.checks = manifest.checks \/ m.scorecards = manifest.scorecards,
         \A k \in Kinds : Older(scorecard[k], m.scorecards[k]),
         Older(sidecar, m.checks),
         \A q \in Sessions : q # s => At(q, "idle") /\ session'[q] = session[q],
         session'[s].step = "write", session'[s].id = commands, session'[s].manifest = m,
         manifest' = Torn,
         UNCHANGED <<graph, annotations, scorecard, sidecar, commands, lastWhole>>
  PROVE  DirInv'
  <1>1. lastWhole = manifest /\ Describes(manifest) /\ Backed(manifest)
    BY DEF ManifestInv
  <1>2. Describes(m) /\ Backed(m) /\ Follows(m)
    BY <1>1 DEF Describes, Backed, Follows, SameRun
  <1>3. (Whole(m) /\ Describes(m) /\ Backed(m) /\ Follows(m))'
    BY <1>2, Numbers DEF Whole, Describes, Backed, Older, Follows, IInv
  <1>4. PatchInv(session[s])'
    BY <1>3 DEF PatchInv, Whole, Describes, Backed, Older, Follows, SameRun
  <1>5. RunInv(session[s])'
    BY DEF RunInv, Fresh
  <1>6. ManifestInv'
    BY DEF ManifestInv, Whole
  <1> QED BY <1>4, <1>5, <1>6, OnlyOne

LEMMA PatchDir ==
  ASSUME IInv, TypeInv', NEW s \in Sessions, Patch(s), ~overlapped'
  PROVE  DirInv'
  <1> DEFINE w == session[s]
             m == Patched(s)
             v == [w EXCEPT !.step = "write", !.manifest = m]
  <1>1. /\ w.step = "patch" /\ ~overlapped /\ Moves(s, v) /\ manifest' = Torn
        /\ UNCHANGED <<graph, annotations, scorecard, sidecar, commands, lastWhole>>
    BY DEF Patch, At, Set, Moves, Patched, files, histories
  <1>2. /\ \A q \in Sessions : q # s => At(q, "idle")
        /\ w \in Working /\ w.id = commands /\ ManifestInv /\ PatchInv(w)
    BY <1>1, Alone DEF Busy, At
  <1>3. session'[s] = v /\ \A q \in Sessions : q # s => session'[q] = session[q]
    BY <1>1, Moved DEF IInv
  <1>4. /\ Whole(manifest) /\ w.manifest = manifest /\ manifest \in Manifest
        /\ \A k \in w.scored : scorecard[k] = w.id
    BY <1>1, <1>2 DEF PatchInv, IInv, TypeInv, TypeOK, Whole
  <1>5. /\ m \in Manifest /\ m.scorecards = Pointers(s)
        /\ m.checks = manifest.checks /\ SameRun(m, manifest)
    BY <1>2, <1>4, PointersType, SetScorecards DEF Patched
  <1>6. \A k \in Kinds : Older(scorecard[k], m.scorecards[k])
    <2> SUFFICES ASSUME NEW k \in Kinds PROVE Older(scorecard[k], m.scorecards[k])
      OBVIOUS
    <2>1. m.scorecards[k] = IF k \in w.scored THEN w.id ELSE None
      BY <1>5 DEF Pointers
    <2>2. w.id <= w.id /\ w.id = commands
      BY <1>2, Numbers DEF IInv
    <2> QED BY <1>4, <2>1, <2>2 DEF Older
  <1>7. Older(sidecar, m.checks)
    BY <1>2, <1>4, <1>5 DEF ManifestInv, Backed
  <1> HIDE DEF w, m
  <1>8. v.step = "write" /\ v.id = w.id /\ v.manifest = m
    BY <1>2 DEF Working
  <1> HIDE DEF v
  <1>9. PICK n \in Manifest : n = m
    BY <1>5
  <1> QED BY <1>1, <1>2, <1>3, <1>4, <1>5, <1>6, <1>7, <1>8, <1>9, WritePatch

LEMMA RenderStartDir ==
  ASSUME IInv, TypeInv', NEW s \in Sessions, NEW force \in BOOLEAN,
         RenderStart(s, force), ~overlapped'
  PROVE  DirInv'
  <1> DEFINE v == Working0(commands + 1, "render")
  <1>1. /\ Begin(s, v) /\ Moves(s, v) /\ sidecar' = None
        /\ UNCHANGED <<graph, annotations, scorecard, manifest, lastWhole>>
    BY DEF RenderStart, Begin, Set, Moves, files
  <1>2. /\ \A q \in Sessions : At(q, "idle")
        /\ ManifestInv /\ commands' = commands + 1
    BY <1>1, AllIdle
  <1>3. session'[s] = v /\ \A q \in Sessions : q # s => session'[q] = session[q]
    BY <1>1, Moved DEF IInv
  <1>4. v.step = "render" /\ v.id = commands + 1 /\ v.annotations = None
    BY DEF Working0
  <1>5. ManifestInv'
    BY <1>1, <1>2, ManifestGrows DEF IInv
  <1> HIDE DEF v
  <1>6. RunInv(session[s])' /\ PatchInv(session[s])'
    BY <1>3, <1>4 DEF RunInv, PatchInv, Fresh
  <1> QED BY <1>2, <1>3, <1>4, <1>5, <1>6, OnlyOne

LEMMA FlushDir ==
  ASSUME IInv, TypeInv', NEW s \in Sessions, Flush(s), ~overlapped'
  PROVE  DirInv'
  <1> DEFINE w == session[s]
             v == [w EXCEPT !.step = "point"]
  <1>1. /\ w.step = "render" /\ ~overlapped /\ Moves(s, v) /\ sidecar' = w.id
        /\ UNCHANGED <<graph, annotations, scorecard, manifest, commands, lastWhole>>
    BY DEF Flush, At, Goto, Set, Moves, files, histories
  <1>2. /\ \A q \in Sessions : q # s => At(q, "idle")
        /\ w \in Working /\ w.id = commands /\ ManifestInv
    BY <1>1, Alone DEF Busy, At
  <1>3. session'[s] = v /\ \A q \in Sessions : q # s => session'[q] = session[q]
    BY <1>1, Moved DEF IInv
  <1> HIDE DEF w
  <1>4. v.step = "point" /\ v.id = w.id
    BY <1>2 DEF Working
  <1> HIDE DEF v
  <1>5. RunInv(session[s])' /\ PatchInv(session[s])'
    BY <1>1, <1>3, <1>4 DEF RunInv, PatchInv, Fresh
  <1>6. ASSUME Whole(manifest) PROVE Backed(manifest)'
    <2>1. Backed(manifest) /\ manifest \in Manifest
      BY <1>2, <1>6 DEF ManifestInv, IInv, TypeInv, TypeOK, Whole
    <2>2. manifest.checks # None => manifest.checks \in Nat /\ manifest.checks <= commands
      BY <2>1, Numbers DEF Backed, Older, Pointer, IInv
    <2>3. Older(sidecar, manifest.checks)'
      BY <1>1, <1>2, <2>2, Numbers DEF Older, IInv
    <2> QED BY <1>1, <2>1, <2>3 DEF Backed, Older
  <1>7. ManifestInv'
    BY <1>1, <1>2, <1>6 DEF ManifestInv, Describes, Whole
  <1> QED BY <1>1, <1>2, <1>3, <1>4, <1>5, <1>7, OnlyOne

LEMMA PointDir ==
  ASSUME IInv, TypeInv', NEW s \in Sessions, Point(s), ~overlapped'
  PROVE  DirInv'
  <1> DEFINE w == session[s]
             m == Pointed(s)
             v == [w EXCEPT !.step = "write", !.manifest = m]
  <1>1. /\ w.step = "point" /\ ~overlapped /\ Moves(s, v) /\ manifest' = Torn
        /\ Whole(manifest)
        /\ UNCHANGED <<graph, annotations, scorecard, sidecar, commands, lastWhole>>
    BY DEF Point, At, Set, Moves, Pointed, files, histories
  <1>2. /\ \A q \in Sessions : q # s => At(q, "idle")
        /\ w \in Working /\ w.id = commands /\ ManifestInv /\ PatchInv(w)
    BY <1>1, Alone DEF Busy, At
  <1>3. session'[s] = v /\ \A q \in Sessions : q # s => session'[q] = session[q]
    BY <1>1, Moved DEF IInv
  <1>4. manifest \in Manifest /\ w.id \in Pointer
    BY <1>1, <1>2, Memory DEF IInv, TypeInv, TypeOK, Whole, Pointer
  <1>5. /\ m \in Manifest /\ m.checks = w.id
        /\ m.scorecards = manifest.scorecards /\ SameRun(m, manifest)
    BY <1>4, SetChecks DEF Pointed
  <1>6. \A k \in Kinds : Older(scorecard[k], m.scorecards[k])
    BY <1>1, <1>2, <1>5 DEF ManifestInv, Backed
  <1>7. Older(sidecar, m.checks)
    <2>1. sidecar = w.id
      BY <1>1, <1>2 DEF PatchInv
    <2>2. w.id <= w.id
      BY <1>2, Numbers DEF IInv
    <2> QED BY <1>2, <1>5, <2>1, <2>2 DEF Older
  <1> HIDE DEF w, m
  <1>8. v.step = "write" /\ v.id = w.id /\ v.manifest = m
    BY <1>2 DEF Working
  <1> HIDE DEF v
  <1>9. PICK n \in Manifest : n = m
    BY <1>5
  <1> QED BY <1>1, <1>2, <1>3, <1>5, <1>6, <1>7, <1>8, <1>9, WritePatch

LEMMA WriteDir ==
  ASSUME IInv, TypeInv', NEW s \in Sessions, WriteManifest(s), ~overlapped'
  PROVE  DirInv'
  <1> DEFINE w == session[s]
  <1>1. /\ w.step = "write" /\ ~overlapped /\ Moves(s, Idle)
        /\ manifest' = w.manifest /\ lastWhole' = w.manifest
        /\ UNCHANGED <<graph, annotations, scorecard, sidecar, commands>>
    BY DEF WriteManifest, At, End, Set, Moves, files
  <1>2. /\ \A q \in Sessions : q # s => At(q, "idle")
        /\ PatchInv(w)
    BY <1>1, Alone DEF Busy, At
  <1>3. session'[s] = Idle /\ \A q \in Sessions : q # s => session'[q] = session[q]
    BY <1>1, Moved DEF IInv
  <1> HIDE DEF w
  <1>4. Whole(w.manifest) /\ Describes(w.manifest) /\ Backed(w.manifest)
    BY <1>1, <1>2 DEF PatchInv
  <1>5. Describes(manifest)' /\ Backed(manifest)'
    BY <1>1, <1>4 DEF Describes, Backed, Older
  <1>6. ManifestInv'
    BY <1>1, <1>5 DEF ManifestInv, Backed
  <1> QED BY <1>2, <1>3, <1>6, IdleInv, OnlyOne

LEMMA StepDir == IInv /\ TypeInv' /\ [Next]_vars => DirInv'
  <1> SUFFICES ASSUME IInv, TypeInv', [Next]_vars, ~overlapped' PROVE DirInv'
    BY DEF DirInv
  <1>1. ASSUME NEW s \in Sessions, Run(s) PROVE DirInv'
    <2>1. CASE EvalInRun(s)
      BY <2>1, EvalNeedsOverlap DEF EvalInRun, histories
    <2> QED
      BY <1>1, <2>1, RunStartDir, ClearOneDir, ClearedDir, Pass0Dir, PassDir, HashDir,
         EndDir, AssembleDir DEF Run
  <1>2. ASSUME NEW s \in Sessions, Eval(s) PROVE DirInv'
    BY <1>2, EvalStartDir, ScoreDir, ScoredDir, PatchDir DEF Eval
  <1>3. ASSUME NEW s \in Sessions, Render(s) PROVE DirInv'
    BY <1>3, RenderStartDir, FlushDir, PointDir, EndDir DEF Render
  <1>4. ASSUME NEW s \in Sessions, WriteManifest(s) \/ Die(s) PROVE DirInv'
    BY <1>4, WriteDir, EndDir
  <1>5. CASE UNCHANGED vars
    <2>1. /\ UNCHANGED <<graph, annotations, scorecard, sidecar, manifest, commands,
                         session, lastWhole, overlapped>>
      BY <1>5 DEF vars, files, histories
    <2> QED
      BY <2>1 DEF IInv, DirInv, OneAtATime, Busy, At, ManifestInv, Describes, Backed,
         Older, Follows, SameRun, Whole, RunInv, PatchInv
  <1> QED BY <1>1, <1>2, <1>3, <1>4, <1>5 DEF Next

LEMMA DirectoryInvariant == Spec => []IInv
  <1>1. Init => IInv
    BY InitTypes, InitDir DEF IInv
  <1>2. IInv /\ [Next]_vars => IInv'
    BY StepTypes, StepDir DEF IInv
  <1> QED BY <1>1, <1>2, PTL DEF Spec

\* Commands given one after another, forced or killed anywhere, never leave a
\* complete manifest beside the files of another run.
THEOREM RunsNeverMix == Spec => []NoMixedRuns
  <1>1. IInv => NoMixedRuns
    BY DEF IInv, DirInv, ManifestInv, Describes, NoMixedRuns
  <1> QED BY <1>1, DirectoryInvariant, PTL

\* Nor does such a manifest ever point to what had not been written when it was.
THEOREM PointersFollowFiles == Spec => []PointersNeverAhead
  <1>1. IInv => PointersNeverAhead
    BY DEF IInv, DirInv, ManifestInv, Backed, Older, PointersNeverAhead
  <1> QED BY <1>1, DirectoryInvariant, PTL

\* A patch by eval or render keeps what the run recorded, and the other's part.
THEOREM PatchesAddOnly == Spec => PatchesOnlyAdd
  <1> DEFINE Patching ==
        ~overlapped /\ lastWhole # None /\ lastWhole' # lastWhole
          /\ lastWhole'.run = lastWhole.run
        Adds == /\ SameRun(lastWhole', lastWhole)
                /\ \/ lastWhole'.checks = lastWhole.checks
                   \/ lastWhole'.scorecards = lastWhole.scorecards
  <1>1. IInv /\ [Next]_vars => [Patching => Adds]_vars
    <2> SUFFICES ASSUME IInv, Next, Patching PROVE Adds
      OBVIOUS
    <2>1. PICK s \in Sessions : WriteManifest(s)
      BY DEF Next, Run, Eval, Render, RunStart, ClearOne, Cleared, Pass0, Pass1, Pass2,
         HashAnnotations, EvalInRun, EvalInRunCrashes, Assemble, EvalStart,
         WriteScorecard, Scored, Patch, RenderStart, Flush, Point, NothingToPoint, Die,
         histories
    <2> DEFINE w == session[s]
    <2>2. w.step = "write" /\ lastWhole' = w.manifest
      BY <2>1 DEF WriteManifest, At
    <2>3. Follows(w.manifest)
      BY <2>2, Alone DEF Busy, At, PatchInv
    <2>4. lastWhole.run \in Nat
      BY Numbers DEF IInv, TypeInv, TypeOK
    <2>5. ~(lastWhole.run < w.manifest.run)
      BY <2>2, <2>4
    <2> QED BY <2>2, <2>3, <2>5 DEF Follows
  <1> QED BY <1>1, DirectoryInvariant, PTL DEF Spec, PatchesOnlyAdd

=============================================================================
