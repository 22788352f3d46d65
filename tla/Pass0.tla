------------------------------- MODULE Pass0 -------------------------------
(***************************************************************************)
(* The deterministic part of `codeograph run`: the input is acquired, its  *)
(* sources are discovered, each file is parsed, by the Java process or by  *)
(* the regular expressions, and the fragments are assembled into the       *)
(* graph that is written. What the run does then is one step here          *)
(* (Enrichment and RunDirectory model it).                                 *)
(*                                                                         *)
(* A git or zip input lives in a temporary directory, that the run removes *)
(* when it leaves its try block, provided it has been told of it.          *)
(***************************************************************************)
EXTENDS SourceDiscovery, GraphChecks

CONSTANTS
  Worlds,    \* Worlds[n]: a directory tree that may lie on disk
  Listings   \* Listings[n]: the orders in which its directories may be listed

ASSUME WorldsAssumption ==
  \A n \in DOMAIN Worlds :
    IsWorld(Worlds[n]) /\ \A listing \in Listings[n] : IsListing(Worlds[n], listing)

Sources == {"local", "git", "zip"}

\* Where the run is. A step of it may raise, the user may interrupt it, and
\* it may be killed.
Stages == {"acquire", "fetch", "discover", "construct", "parse", "assemble",
           "write", "later", "cleanup", "ended"}

Outcomes == {"none", "success", "refused", "raised", "interrupted", "killed"}

VARIABLES
  input,   \* the kind of input
  world,    \* which tree is on disk, once fetched
  temp,     \* the temporary directory: "none", "present" or "removed"
  stage,
  outcome,
  acquired, \* has acquire() returned: is `corpus` set?
  modules,  \* the modules discovered
  parsed,   \* the files parsed, each with its module and how it was parsed
  written   \* is the graph in graph.json?

Tree == Worlds[world]

vars == <<input, world, temp, stage, outcome, acquired, modules, parsed, written>>

\* The files of all modules, each with its module.
FilesOf(ms) ==
  FlattenSeq(Each(ms, LAMBDA m : Each(m.files, LAMBDA f : [file |-> f, module |-> m.id])))

Modes == {"ast", "regex", "unreadable"}

\* What the dispatcher returns for a file when it is parsed in a mode.
Envelope(w, f, mode) ==
  LET file == w.files[f]
  IN CASE mode = "ast"        -> Ast(file.source)
       [] mode = "regex"      -> Regex(file.source, file.path, file.stem)
       [] mode = "unreadable" -> EmptyEnvelope(file.path, file.stem)

\* What the loop of CorpusAnalyzer collects, and the graph made of it.
Fragments(w, files) ==
  Each(files, LAMBDA c :
    LET p == Envelope(w, c.file, c.mode)
    IN [parsed |-> p, fragment |-> Build(p, c.module)])

Graph == Assemble(Fragments(Tree, parsed))

Init ==
  /\ input \in Sources /\ world \in DOMAIN Worlds
  /\ temp = "none" /\ stage = "acquire" /\ outcome = "none" /\ acquired = FALSE
  /\ modules = <<>> /\ parsed = <<>> /\ written = FALSE

-----------------------------------------------------------------------------
\* InputAcquirer.acquire. Nobody but the acquirer knows of the temporary
\* directory until it has returned.

GoTo(s) == stage' = s /\ UNCHANGED outcome

End(o) == stage' = "ended" /\ outcome' = o

\* A local path, or the path of a zip file, that does not exist.
Refuse ==
  /\ stage = "acquire" /\ input \in {"local", "zip"}
  /\ End("refused")
  /\ UNCHANGED <<input, world, temp, acquired, modules, parsed, written>>

AcquireLocal ==
  /\ stage = "acquire" /\ input = "local"
  /\ GoTo("discover")
  /\ UNCHANGED <<input, world, temp, acquired, modules, parsed, written>>

MakeTemp ==
  /\ stage = "acquire" /\ input \in {"git", "zip"}
  /\ temp' = "present"
  /\ GoTo("fetch")
  /\ UNCHANGED <<input, world, acquired, modules, parsed, written>>

Clone ==
  /\ stage = "fetch" /\ input = "git"
  /\ GoTo("discover")
  /\ UNCHANGED <<input, world, temp, acquired, modules, parsed, written>>

\* git exits with an error, or is not installed.
CloneFails ==
  /\ stage = "fetch" /\ input = "git"
  /\ temp' = "removed"
  /\ End("refused")
  /\ UNCHANGED <<input, world, acquired, modules, parsed, written>>

Extract ==
  /\ stage = "fetch" /\ input = "zip"
  /\ GoTo("discover")
  /\ UNCHANGED <<input, world, temp, acquired, modules, parsed, written>>

\* The file is no zip archive, or a corrupt one.
ExtractFails ==
  /\ stage = "fetch" /\ input = "zip"
  /\ temp' = "removed"
  /\ End("refused")
  /\ UNCHANGED <<input, world, acquired, modules, parsed, written>>

DiscoverSources ==
  /\ stage = "discover"
  /\ \E listing \in Listings[world] : modules' = Discover(Tree, listing)
  /\ acquired' = TRUE
  /\ GoTo("construct")
  /\ UNCHANGED <<input, world, temp, parsed, written>>

\* An error that no except clause names: no directory can be made, a full
\* disk, an encrypted archive, a directory that cannot be listed, a
\* .gitignore that is not UTF-8.
AcquireRaises ==
  /\ stage \in {"acquire", "fetch", "discover"}
  /\ End("raised")
  /\ UNCHANGED <<input, world, temp, acquired, modules, parsed, written>>

-----------------------------------------------------------------------------
\* The body of the try block, once the corpus is known.

Leave(o) == stage' = "cleanup" /\ outcome' = o

\* JavaFileParser looks for java when it is constructed.
Construct ==
  /\ stage = "construct"
  /\ GoTo("parse")
  /\ UNCHANGED <<input, world, temp, acquired, modules, parsed, written>>

\* The next file, by the Java process, or by the regular expressions when
\* that exits with an error, prints no JSON or takes more than 30 seconds;
\* they may find the file unreadable. The process does not parse a file that
\* declares no type.
ParseFile ==
  /\ stage = "parse"
  /\ LET files == FilesOf(modules)
         next  == Len(parsed) + 1
     IN /\ next <= Len(files)
        /\ \E mode \in Modes :
             /\ mode = "ast" => Tree.files[files[next].file].source.declares
             /\ parsed' = Append(parsed, [file |-> files[next].file,
                                          module |-> files[next].module, mode |-> mode])
  /\ UNCHANGED <<input, world, temp, stage, outcome, acquired, modules, written>>

\* Variant: it waits for a first file.
AllParsedSome ==
  /\ stage = "parse" /\ Len(parsed) = Len(FilesOf(modules)) /\ Len(parsed) > 0
  /\ GoTo("assemble")
  /\ UNCHANGED <<input, world, temp, acquired, modules, parsed, written>>

AllParsed ==
  /\ stage = "parse" /\ Len(parsed) = Len(FilesOf(modules))
  /\ GoTo("assemble")
  /\ UNCHANGED <<input, world, temp, acquired, modules, parsed, written>>

\* From here on the graph is Graph.
AssembleGraph ==
  /\ stage = "assemble"
  /\ GoTo("write")
  /\ UNCHANGED <<input, world, temp, acquired, modules, parsed, written>>

WriteGraph ==
  /\ stage = "write"
  /\ written' = TRUE
  /\ GoTo("later")
  /\ UNCHANGED <<input, world, temp, acquired, modules, parsed>>

\* Everything after Pass 0.
Later ==
  /\ stage = "later"
  /\ Leave("success")
  /\ UNCHANGED <<input, world, temp, acquired, modules, parsed, written>>

\* Variant: an error leaves the run without the finally clause.
BodyRaisesOut ==
  /\ stage \in {"construct", "parse", "write", "later"}
  /\ End("raised")
  /\ UNCHANGED <<input, world, temp, acquired, modules, parsed, written>>

\* No java, java gone between two files, a full disk, a failed pass.
BodyRaises ==
  /\ stage \in {"construct", "parse", "write", "later"}
  /\ Leave("raised")
  /\ UNCHANGED <<input, world, temp, acquired, modules, parsed, written>>

\* The finally clause, InputAcquirer.cleanup.
Cleanup ==
  /\ stage = "cleanup"
  /\ temp' = IF input # "local" THEN "removed" ELSE temp
  /\ stage' = "ended"
  /\ UNCHANGED <<input, world, outcome, acquired, modules, parsed, written>>

-----------------------------------------------------------------------------
\* Control-C runs the finally clause, which cleans up what it knows of.
Interrupt ==
  /\ stage \notin {"cleanup", "ended"}
  /\ IF acquired THEN Leave("interrupted") ELSE End("interrupted")
  /\ UNCHANGED <<input, world, temp, acquired, modules, parsed, written>>

\* Also an interrupt of the cleanup itself.
Kill ==
  /\ stage # "ended"
  /\ End("killed")
  /\ UNCHANGED <<input, world, temp, acquired, modules, parsed, written>>

Ended == stage = "ended" /\ UNCHANGED vars

\* The steps that get the run on, and those in which it fails.
Progress ==
  \/ AcquireLocal \/ MakeTemp \/ Extract \/ DiscoverSources
  \/ Construct \/ ParseFile \/ AllParsed \/ AssembleGraph \/ WriteGraph \/ Later \/ Cleanup

Failure == Refuse \/ CloneFails \/ ExtractFails \/ AcquireRaises \/ BodyRaises

Next == Progress \/ Clone \/ Failure \/ Interrupt \/ Kill \/ Ended

\* One thread runs on by itself and never counts on failing. That a clone
\* ends is not assumed, it has no time limit; the Java process has one.
Fairness == WF_vars(Progress)

Spec == Init /\ [][Next]_vars /\ Fairness

-----------------------------------------------------------------------------
TypeOK ==
  /\ input \in Sources /\ world \in DOMAIN Worlds
  /\ temp \in {"none", "present", "removed"}
  /\ stage \in Stages /\ outcome \in Outcomes
  /\ acquired \in BOOLEAN /\ written \in BOOLEAN

\* A run that has been told of its temporary directory (main.py, the corpus)
\* leaves none behind, however it ends, short of being killed: every way out
\* of the try block leads through the cleanup.
OwnedTempReclaimed ==
  stage = "ended" /\ acquired /\ outcome # "killed" => temp # "present"

\* The directories that the walk sees, told from below.
Parent(w, d) == CHOOSE e \in DOMAIN w.children : d \in w.children[e]

InSight(w, d) ==
  LET seen[e \in DOMAIN w.children] ==
        e = w.root \/ (w.name[e] \notin SkippedNames /\ seen[Parent(w, e)])
  IN seen[d]

\* A .java file belongs in the graph when a module the walk sees holds it in
\* a Java source root, and it is ignored neither by the corpus nor by that
\* same module.
Belongs(w, f) ==
  /\ InSight(w, f.dir) /\ w.build[f.dir] \cap BuildFiles # {}
  /\ f.root \in {"src/main/java", "src/test/java"}
  /\ ~f.ignored /\ f.area \notin w.ignores[f.dir]

\* Two names of which neither begins with the other.
Apart(s, t) == \E i \in DOMAIN s \cap DOMAIN t : s[i] # t[i]

\* No two files came out under one name, nor one under the name of another's
\* package. They do when two modules declare one type (ADR-006, line 512,
\* leaves such corpora out), and when the regular expressions find in a
\* comment of one file the name of another's type.
NamesApart(w, files) ==
  \A c, d \in ToSet(files) :
    c.file # d.file => Apart(Envelope(w, c.file, c.mode).id, Envelope(w, d.file, d.mode).id)

\* Every file that belongs in the graph is in it, once and under its own
\* module, and no other, whatever the order of the walk and whichever way it
\* was parsed: one module's .gitignore costs its neighbours no file, and a
\* file that cannot be parsed still has a node, of the name it came out under.
ModulesKeepTheirFiles ==
  stage = "write" =>
    LET graph == Graph
    IN /\ {c.file : c \in ToSet(parsed)} = {f \in DOMAIN Tree.files : Belongs(Tree, Tree.files[f])}
       /\ IsInjective(Each(parsed, LAMBDA c : c.file))
       /\ \A c \in ToSet(parsed) :
            LET id == Envelope(Tree, c.file, c.mode).id
            IN /\ \E n \in graph.nodes : n.id = id
               /\ ContainsEdge(<<"mod:", Tree.name[Tree.files[c.file].dir]>>, id) \in graph.edges

\* A call has left a trace: it is in the graph as unresolved, or as edges to
\* the method it calls, all overloads of that name in one class.
HasTrace(graph, method, call) ==
  LET named == {n \in graph.nodes : n.kind = "method" /\ n.name = Last(call)}
  IN \/ CallsUnresolvedEdge(method, call) \in graph.edges
     \/ \E class \in {BeforeHash(n.id) : n \in named} :
          \A n \in named : BeforeHash(n.id) = class
                             => CallsResolvedEdge(method, n.id) \in graph.edges

\* The calls in the files that were parsed, as <<method, call>>.
CallsMade ==
  LET methods == UNION {ToSet(Envelope(Tree, c.file, c.mode).methods) : c \in ToSet(parsed)}
  IN UNION {{m.id} \X ToSet(m.calls) : m \in methods}

\* No call on a name is lost when the places of the resolved ones are taken
\* out of the list of edges (graph_assembler.py, _convert_unresolved_to_resolved).
CallsTraced ==
  stage = "write" =>
    LET graph == Graph
    IN \A c \in CallsMade : ~Contains(c[2], "()") => HasTrace(graph, c[1], c[2])

\* requirements.md: an absent edge means the reference is absent from the
\* source, never that resolution failed. Said of all calls.
NoCallVanishes ==
  stage = "write" =>
    LET graph == Graph
    IN \A c \in CallsMade : HasTrace(graph, c[1], c[2])

\* The graph does not depend on the order in which the operating system
\* lists directories: it is the one of the files in the order of their paths,
\* unless two of them came out under one name.
OrderIndependent ==
  LET Of(f) == Keep(parsed, {c \in ToSet(parsed) : c.file = f})
  IN stage = "write" /\ NamesApart(Tree, parsed) =>
       Graph = Assemble(Fragments(Tree, FlattenSeq([f \in DOMAIN Tree.files |-> Of(f)])))

Declares(f) == Tree.files[f].source.declares

\* What had been parsed, if the Java process parsed every file that it can
\* parse, and the graph of that.
Upgraded ==
  Each(parsed, LAMBDA c : IF Declares(c.file) THEN [c EXCEPT !.mode = "ast"] ELSE c)

FullGraph == Assemble(Fragments(Tree, Upgraded))

\* Was the type of a file read under its own name? The regular expressions do
\* so if nothing in the file, no comment and no other type, precedes it that
\* looks like the declaration of a type of another name.
WasRead(c) ==
  LET s == Tree.files[c.file].source
  IN \/ c.mode = "ast"
     \/ c.mode = "regex" /\ s.declares /\ s.matched /\ s.first.name = s.name

\* That the Java process fails on a file costs the other files nothing, as far
\* as the regular expressions do not mistake its name: a type that they read
\* under its own name and package is depended upon by the files that were
\* parsed as if it had been parsed too. (A type they read under the name that
\* a comment gave them, regex_fallback.py, line 240, does lose the edges to it.)
DegradationIsLocal ==
  stage = "write" /\ NamesApart(Tree, parsed) /\ NamesApart(Tree, Upgraded) =>
    LET graph == Graph
        full  == FullGraph
        Read  == {c \in ToSet(parsed) : WasRead(c)}
        Named == {TypeId(Tree.files[c.file].source) :
                    c \in {r \in Read : Tree.files[r.file].source.package # <<>>}}
        TypeEdges(edges, id) == {e \in edges : /\ e.kind \in {"depends_on", "relation"}
                                               /\ e.source = id /\ e.target \in Named}
    IN \A c \in ToSet(parsed) :
         c.mode = "ast" => LET id == TypeId(Tree.files[c.file].source)
                           IN TypeEdges(graph.edges, id) = TypeEdges(full.edges, id)

\* The graph passes the checks of its own scorecard, unless two files came out
\* under one name: no call is ever resolved to a method that is not there, and
\* when the Java process parsed every file and each has a package, nothing is
\* found at all. A file that it did not parse and that came out as a class
\* always shows (one that came out as a type of another kind does not).
GraphPassesItsChecks ==
  stage = "write" /\ NamesApart(Tree, parsed) =>
    LET result   == GraphVerdicts(Graph)
        sources  == {Tree.files[c.file].source : c \in ToSet(parsed)}
        degraded == {c \in ToSet(parsed) : c.mode # "ast"}
    IN /\ result.relationship_correctness = "pass"
       /\ degraded = {} /\ (\A s \in sources : s.package # <<>>) =>
            "fail" \notin Range(result)
       /\ (\E c \in degraded : Envelope(Tree, c.file, c.mode).kind = "class") =>
            result.structural_completeness = "fail"

\* A run on a local directory or an archive ends, and so does one on a
\* repository once it is cloned, whatever is found there.
Pass0Ends ==
  /\ (input # "git") ~> (stage = "ended")
  /\ acquired ~> (stage = "ended")

=============================================================================
