----------------------------- MODULE Rendering -----------------------------
(***************************************************************************)
(* TypeScriptRenderer: the classes of each domain group are selected, the  *)
(* groups rendered as concurrent coroutines that share a semaphore, and    *)
(* what they return is merged into one project.                            *)
(*                                                                         *)
(* A group renders its classes one after another, each with one request to *)
(* the LLM stack, which answers or fails (PaidAnswers). Coroutines give    *)
(* way to each other only where they wait: for the semaphore and for the   *)
(* request. The path of a file begins with its group, so files of two      *)
(* groups never collide; two classes of one group may.                     *)
(***************************************************************************)
EXTENDS ClassSelector, DomainGrouping

CONSTANTS
  Groups,       \* labels of domain groups
  Corpora,      \* the corpora rendered, see IsCorpus
  Caps,         \* values of render_budget
  Concurrency,  \* llm_concurrency: places of the semaphore
  MaxClasses    \* bound: classes in a corpus

Metrics == [cbo : Nat \cup {None}, wmc : Nat \cup {None}]

\* The package of each class, the user's mapping of packages, if any, and the
\* group that follows; the metrics and the output path of each class, and the
\* classes that a feature policy refuses.
IsCorpus(k) ==
  LET Classes == 1..Len(k.group)
  IN /\ Len(k.group) \in 1..MaxClasses
     /\ k.group = Labels(k.package, k.mapping)
     /\ \A c \in Classes : k.group[c] \in Groups /\ k.metrics[c] \in Metrics
     /\ DOMAIN k.metrics = Classes /\ DOMAIN k.path = Classes
     /\ k.refused \subseteq Classes

ASSUME RenderingAssumption ==
  /\ MaxClasses \in Nat /\ Concurrency \in Nat \ {0}
  /\ Caps \subseteq Nat \ {0}
  /\ None \notin Nat
  /\ \A k \in Corpora : IsCorpus(k)

VARIABLES
  corpus,     \* the corpus
  cap,        \* render_budget
  selection,  \* selection[g]: the classes selected of group g, in order
  next,       \* next[g]: the place in selection[g] of the class g works on
  calling,    \* groups that hold a place of the semaphore, for a request
  outcome,    \* outcome[c]: what became of class c
  files,      \* files[g]: the classes in the file map of group g
  state,      \* state[g]: of g's coroutine, or "absent" if g has no class
  project     \* None, or the project: its classes and domain modules, and
              \* the domain modules that its app.module.ts imports

vars == <<corpus, cap, selection, next, calling, outcome, files, state, project>>

Classes == 1..Len(corpus.group)

Outcomes == {"unrendered", "refused", "failed", "rendered"}
States   == {"absent", "running", "returned", "raised"}

Project == [classes : SUBSET (1..MaxClasses), modules : SUBSET Groups,
            imports : SUBSET Groups]

\* The classes of group g, in the order of the graph.
Members(k, g) ==
  LET all == 1..Len(k.group)
  IN Keep([c \in all |-> c], {c \in all : k.group[c] = g})

\* Each group renders classes of its own, each once, and some if it has any.
SelectionIsSound ==
  /\ selection \in [Groups -> Seq(Classes)]
  /\ \A g \in Groups :
       /\ \A i \in DOMAIN selection[g] : corpus.group[selection[g][i]] = g
       /\ \A i, j \in DOMAIN selection[g] : selection[g][i] = selection[g][j] => i = j
       /\ selection[g] = <<>> <=> Members(corpus, g) = <<>>

TypeOK ==
  /\ corpus \in Corpora
  /\ cap \in Caps
  /\ SelectionIsSound
  /\ \A g \in Groups : next[g] \in 1..(Len(selection[g]) + 1)
  /\ calling \subseteq {g \in Groups : state[g] = "running"}
  /\ outcome \in [Classes -> Outcomes]
  /\ files \in [Groups -> SUBSET Classes]
  /\ state \in [Groups -> States]
  /\ project \in Project \cup {None}

Init ==
  /\ corpus \in Corpora
  /\ cap \in Caps
  /\ selection = [g \in Groups |-> Select(Members(corpus, g), corpus.metrics, cap)]
  /\ next = [g \in Groups |-> 1]
  /\ calling = {}
  /\ outcome = [c \in Classes |-> "unrendered"]
  /\ files = [g \in Groups |-> {}]
  /\ state = [g \in Groups |-> IF Members(corpus, g) = <<>> THEN "absent" ELSE "running"]
  /\ project = None

-----------------------------------------------------------------------------
Current(g) == selection[g][next[g]]

\* The coroutine of g goes on to its next class, or returns its file map.
Advance(g) ==
  /\ next' = [next EXCEPT ![g] = @ + 1]
  /\ state' = [state EXCEPT ![g] = IF next[g] = Len(selection[g]) THEN "returned" ELSE @]

Settle(g, o) == outcome' = [outcome EXCEPT ![Current(g)] = o]

\* The coroutine of g is given a place of the semaphore.
Admitted(g) ==
  /\ state[g] = "running"
  /\ g \notin calling
  /\ Cardinality(calling) < Concurrency

\* The coroutine of g waits for the answer to its request.
Waiting(g) == state[g] = "running" /\ g \in calling

\* A feature policy refuses the class: no request, no file.
Refuse(g) ==
  /\ Admitted(g)
  /\ Current(g) \in corpus.refused
  /\ Settle(g, "refused")
  /\ Advance(g)
  /\ UNCHANGED <<corpus, cap, selection, calling, files, project>>

Call(g) ==
  /\ Admitted(g)
  /\ Current(g) \notin corpus.refused
  /\ calling' = calling \cup {g}
  /\ UNCHANGED <<corpus, cap, selection, next, outcome, files, state, project>>

\* Variant: the handler leaves the loop where it should go on with it.
CallFailsBreaks(g) ==
  /\ Waiting(g)
  /\ calling' = calling \ {g}
  /\ Settle(g, "failed")
  /\ state' = [state EXCEPT ![g] = "returned"]
  /\ UNCHANGED <<corpus, cap, selection, next, files, project>>

\* Variant: the place in the semaphore is given back on success only.
CallFailsInside(g) ==
  /\ Waiting(g)
  /\ Settle(g, "failed")
  /\ state' = [state EXCEPT ![g] = "returned"]
  /\ UNCHANGED <<corpus, cap, selection, next, calling, files, project>>

\* The exception is logged and the class skipped.
CallFails(g) ==
  /\ Waiting(g)
  /\ calling' = calling \ {g}
  /\ Settle(g, "failed")
  /\ Advance(g)
  /\ UNCHANGED <<corpus, cap, selection, files, project>>

\* Variant: the later class takes the path over.
CollidesNever(g) == FALSE

Collides(g) == \E c \in files[g] : corpus.path[c] = corpus.path[Current(g)]

CallReturns(g) ==
  /\ Waiting(g)
  /\ calling' = calling \ {g}
  /\ Settle(g, "rendered")
  /\ ~Collides(g)
  /\ files' = [files EXCEPT ![g] = @ \cup {Current(g)}]
  /\ Advance(g)
  /\ UNCHANGED <<corpus, cap, selection, project>>

\* Variant: the exception of a group is raised when it occurs.
CallCollidesKeepsPlace(g) ==
  /\ Waiting(g)
  /\ Settle(g, "rendered")
  /\ Collides(g)
  /\ state' = [state EXCEPT ![g] = "raised"]
  /\ UNCHANGED <<corpus, cap, selection, next, calling, files, project>>

\* The ValueError is outside the guard of a class and ends the coroutine.
CallCollides(g) ==
  /\ Waiting(g)
  /\ calling' = calling \ {g}
  /\ Settle(g, "rendered")
  /\ Collides(g)
  /\ state' = [state EXCEPT ![g] = "raised"]
  /\ UNCHANGED <<corpus, cap, selection, next, files, project>>

\* The gather returns the exceptions of groups as results; they are logged and
\* left out. The scaffold imports the module of every group selected.
Assemble ==
  /\ project = None
  /\ \A g \in Groups : state[g] # "running"
  /\ LET returned == {g \in Groups : state[g] = "returned"}
     IN project' = [classes |-> UNION {files[g] : g \in returned},
                    modules |-> returned,
                    imports |-> {g \in Groups : state[g] # "absent"}]
  /\ UNCHANGED <<corpus, cap, selection, next, calling, outcome, files, state>>

-----------------------------------------------------------------------------
Group(g) ==
  \/ Refuse(g) \/ Call(g)
  \/ CallFails(g) \/ CallReturns(g) \/ CallCollides(g)

Rendered == project # None /\ UNCHANGED vars

Next == Assemble \/ Rendered \/ \E g \in Groups : Group(g)

Spec == Init /\ [][Next]_vars

\* The event loop runs every coroutine that can go on, and the LLM stack
\* settles every request.
FairSpec == Spec /\ WF_vars(Assemble) /\ \A g \in Groups : WF_vars(Group(g))

-----------------------------------------------------------------------------
(***************************************************************************)
(* Properties                                                              *)
(***************************************************************************)
Selected(g) == ToSet(selection[g])
Left(g)     == ToSet(Members(corpus, g)) \ Selected(g)

SameBucket(c, d) ==
  LET x == corpus.metrics[c]
      y == corpus.metrics[d]
  IN (High(x) <=> High(y)) /\ (Low(x) <=> Low(y))

\* A class is only left out when the cap is used up, each class is selected once,
\* and a sample spreads over the buckets of difficulty (ADR-009 D-009-1): none
\* gets two classes more than another that still has some. The order within a
\* bucket, and of a whole group below twice the cap, is the code's: by WMC alone,
\* as _top_n_v1 and _stratified_threshold_v1 sort, not by the CBO + 0.5 WMC of
\* the ADR. No class is preferred to one that this order has before it.
DifficultySpread ==
  \A g \in Groups : \A d \in Left(g) :
    LET Beside(c) == {e \in Selected(g) : SameBucket(c, e)}
    IN /\ Cardinality(Selected(g)) = cap /\ Len(selection[g]) = cap
       /\ IF Len(Members(corpus, g)) < 2 * cap
          THEN \A c \in Selected(g) : ~Heavier(corpus.metrics[d], corpus.metrics[c])
          ELSE /\ \A c \in Beside(d) : ~Heavier(corpus.metrics[d], corpus.metrics[c])
               /\ \A c \in Selected(g) :
                    Cardinality(Beside(d)) >= Cardinality(Beside(c)) - 1

\* The classes of g whose request was answered, and whether each of their files
\* has a path of its own.
RenderedOf(g) == {c \in Selected(g) : outcome[c] = "rendered"}
Distinct(g)   == \A c, d \in RenderedOf(g) : corpus.path[c] = corpus.path[d] => c = d

\* ADR-008 D-008-2: the renderer omits the file of a class that fails "and
\* continues". Unless two of its classes have one path, every class selected of a
\* group has been tried when the project stands, and the file of each one that
\* was rendered is in it, whichever others failed or were refused, in its group
\* or another, and in whatever order the requests returned.
FailuresIsolated ==
  project # None =>
    \A g \in Groups : Distinct(g) =>
      /\ \A c \in Selected(g) : outcome[c] # "unrendered"
      /\ RenderedOf(g) \subseteq project.classes

\* ADR-008 D-008-5: no file of the project is a silent replacement of another,
\* and none comes from a class that was not rendered.
NoOverwrite ==
  project # None =>
    \A c \in project.classes :
      /\ outcome[c] = "rendered"
      /\ \A d \in project.classes :
           corpus.group[c] = corpus.group[d] /\ corpus.path[c] = corpus.path[d] => c = d

\* A render ends, whatever its requests come to: no coroutine keeps a place of
\* the semaphore that another waits for.
RenderEnds == <>(project # None)

(***************************************************************************)
(* A claim of the repository that the code does not keep                   *)
(***************************************************************************)
\* ADR-008 D-008-5: "Two classes resolving to the same render path raise a loud
\* assembly error, not a silent overwrite". The gather catches the error, and
\* the render ends well without any file of that group.
CollisionsAreLoud == project # None => \A g \in Groups : Distinct(g)

=============================================================================
