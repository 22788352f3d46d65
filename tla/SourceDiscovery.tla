-------------------------- MODULE SourceDiscovery --------------------------
(***************************************************************************)
(* SourceDiscoverer.discover: the modules of a directory tree, in the      *)
(* order of a walk, each with the .java files that survive the ignore      *)
(* patterns of the corpus and of that module.                              *)
(*                                                                         *)
(* A world w is what lies on disk:                                         *)
(*   w.root, w.children[d]  the directories above any source root          *)
(*   w.name[d], w.build[d]  the name of d and the build files in it        *)
(*   w.ignores[d]           the areas of its module that a .gitignore in d *)
(*                          names, when d is not the root                  *)
(*   w.files                the .java files in the order of their paths    *)
(* and a file its module directory, the source root and the area in it,    *)
(* its path and stem, whether the built-in patterns or the root's          *)
(* .gitignore match its path, and its source.                              *)
(***************************************************************************)
EXTENDS GraphAssembler

\* Directories form a tree, in which each is higher than those it holds.
IsTree(w) ==
  LET D == DOMAIN w.children
  IN /\ IsFiniteSet(D) /\ w.root \in D
     /\ UNION {w.children[d] : d \in D} = D \ {w.root}
     /\ \A d, e \in D : d # e => w.children[d] \cap w.children[e] = {}
     /\ \E height \in [D -> 1..Cardinality(D)] :
          \A d \in D : \A c \in w.children[d] : height[c] < height[d]

IsWorld(w) ==
  /\ IsTree(w) /\ IsList(w.files)
  /\ \A i, j \in DOMAIN w.files : w.files[i].path = w.files[j].path => i = j
  /\ \A f \in ToSet(w.files) : f.dir \in DOMAIN w.children /\ IsSource(f.source)

\* A listing has the children of every directory, once each.
IsListing(w, listing) ==
  \A d \in DOMAIN w.children :
    IsList(listing[d]) /\ IsInjective(listing[d]) /\ ToSet(listing[d]) = w.children[d]

BuildFiles == {"pom.xml", "build.gradle", "build.gradle.kts"}

SkippedNames == {"target", "build", ".git", ".idea", ".vscode"}

\* In their order; Kotlin sources are a candidate that is never taken.
CandidateSourceRoots == <<"src/main/java", "src/test/java", "src/main/kotlin">>

\* Depth first, a module before those below it. The operating system lists
\* the children of d in any order: listing[d].
FindModuleRoots(w, listing) ==
  LET below[d \in DOMAIN w.children] ==
        When(w.build[d] \cap BuildFiles # {}, d)
          \o FlattenSeq(Each(listing[d], LAMBDA c :
               IF w.name[c] \in SkippedNames THEN <<>> ELSE below[c]))
  IN below[w.root]

FindSourceRoots(w, d) ==
  LET held == {w.files[i].root : i \in {j \in DOMAIN w.files : w.files[j].dir = d}}
  IN Keep(CandidateSourceRoots, held \ {"src/main/kotlin"})

\* Variant: the patterns of all modules end up in one filter.
ListJavaFilesOneFilter(w, d, root) ==
  LET Left(f) == ~f.ignored /\ \A e \in DOMAIN w.ignores : f.area \notin w.ignores[e]
      In(f)   == f.dir = d /\ f.root = root
  IN Keep([i \in DOMAIN w.files |-> i],
          {i \in DOMAIN w.files : In(w.files[i]) /\ Left(w.files[i])})

\* Both filters: the corpus' patterns see the path from the root, those of
\* module d only the path within d.
ListJavaFiles(w, d, root) ==
  LET Left(f) == ~f.ignored /\ f.area \notin w.ignores[d]
      In(f)   == f.dir = d /\ f.root = root
  IN Keep([i \in DOMAIN w.files |-> i],
          {i \in DOMAIN w.files : In(w.files[i]) /\ Left(w.files[i])})

Module(w, d) ==
  [id |-> <<"mod:", w.name[d]>>,
   files |-> FlattenSeq(Each(FindSourceRoots(w, d), LAMBDA r : ListJavaFiles(w, d, r)))]

Discover(w, listing) == Each(FindModuleRoots(w, listing), LAMBDA d : Module(w, d))

=============================================================================
