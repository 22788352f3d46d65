--------------------------- MODULE GraphAssembler ---------------------------
(***************************************************************************)
(* GraphAssembler.assemble: the fragments of all files become one graph,   *)
(* with the edges that take two files to see, and GraphWriter's canonical  *)
(* form of it.                                                             *)
(*                                                                         *)
(* A corpus is a sequence of [parsed, fragment]. A type named in a file is *)
(* found through the file's own imports and nowhere else.                  *)
(***************************************************************************)
EXTENDS GraphBuilder

CONSTANT Capitalised   \* identifiers that begin with an upper case letter

\* Text before the first "#" of an id: of a method's, the id of its class,
\* except where that id has a "#" itself (FileId).
BeforeHash(id) ==
  LET at == SelectInSeq(id, LAMBDA x : x = Hash)
  IN IF at = 0 THEN id ELSE SubSeq(id, 1, at - 1)

AllNodes(corpus) == FlattenSeq(Each(corpus, LAMBDA c : c.fragment.nodes))
AllEdges(corpus) == FlattenSeq(Each(corpus, LAMBDA c : c.fragment.edges))

NodeIds(nodes) == {nodes[i].id : i \in DOMAIN nodes}

\* The methods of a class with a name: all overloads of it.
MethodsNamed(nodes, class, name) ==
  LET named == {n \in ToSet(nodes) : n.kind = "method" /\ BeforeHash(n.id) = class
                                       /\ n.name = name}
  IN Each(Keep(nodes, named), LAMBDA n : n.id)

FieldsNamed(nodes, class, name) ==
  Keep(nodes, {n \in ToSet(nodes) : n.kind = "field" /\ Front(n.id) = class /\ n.name = name})

\* The parameters of a method with a name; of two nodes with its id the
\* later one counts.
ParametersNamed(nodes, method, name) ==
  LET known      == Keep(nodes, {n \in ToSet(nodes) : n.kind = "method" /\ n.id = method})
      parameters == Last(known).parameters
  IN Keep(parameters, {p \in ToSet(parameters) : p.name = name})

\* Simple name to full name, both as types are written; a later import of a
\* name replaces an earlier one.
ImportMap(p) ==
  LET Name(full) == <<Last(full)>>
  IN [n \in {Name(p.imports[i]) : i \in DOMAIN p.imports} |->
       Last(SelectSeq(p.imports, LAMBDA full : Name(full) = n))]

ImportMapOf(corpus, id) ==
  LET known == Keep(corpus, {c \in ToSet(corpus) : c.parsed.id = id})
  IN IF known = <<>> THEN <<>> ELSE ImportMap(Last(known).parsed)

NoType == <<>>

Lookup(map, type)      == IF type \in DOMAIN map THEN map[type] ELSE NoType
LookupOrText(map, type) == IF type \in DOMAIN map THEN map[type] ELSE type

-----------------------------------------------------------------------------
\* Edges between files.

\* What the file refers to, from the six sources in their order.
References(p, map) ==
  p.imports
    \o Each(p.fields, LAMBDA f : Lookup(map, f.type))
    \o FlattenSeq(Each(p.methods, LAMBDA m :
         <<Lookup(map, m.return_type)>>
           \o Each(m.parameters, LAMBDA a : Lookup(map, a.type))))
    \o When(p.superclass # <<>>, LookupOrText(map, p.superclass))
    \o Each(p.implements, LAMBDA t : LookupOrText(map, t))
    \o Each(p.extends_interfaces, LAMBDA t : LookupOrText(map, t))

\* s without the elements that occurred before.
FirstsOf(s) ==
  LET new == {i \in DOMAIN s : \A j \in 1..(i - 1) : s[j] # s[i]}
  IN Each(Keep([i \in DOMAIN s |-> i], new), LAMBDA i : s[i])

DepEdges(p, map, ids) ==
  Each(FirstsOf(Keep(References(p, map), ids \ {p.id})), LAMBDA t : DependsOnEdge(p.id, t))

CollectionWrappers == {"List<", "Set<", "Collection<", "Optional<"}

StripCollectionWrapper(type) ==
  IF type # <<>> /\ Head(type) \in CollectionWrappers /\ Last(type) = ">"
  THEN Tail(Front(type))
  ELSE type

\* The JPA relations of a class, by the annotations of its fields.
RelationEdges(p, map, ids) ==
  LET Target(f) == Lookup(map, StripCollectionWrapper(f.type))
      related == {f \in ToSet(p.fields) : f.relation # "none" /\ Target(f) \in ids}
  IN IF p.kind = "class"
     THEN FirstsOf(Each(Keep(p.fields, related),
                        LAMBDA f : RelationEdge(p.id, Target(f), f.relation)))
     ELSE <<>>

\* Variant: a file only sees the nodes of the files before it and its own.
CrossEdgesBackwards(corpus, ids) ==
  FlattenSeq([i \in DOMAIN corpus |->
    LET map  == ImportMapOf(corpus, corpus[i].parsed.id)
        seen == NodeIds(AllNodes(SubSeq(corpus, 1, i)))
    IN DepEdges(corpus[i].parsed, map, seen) \o RelationEdges(corpus[i].parsed, map, seen)])

CrossEdges(corpus, ids) ==
  FlattenSeq(Each(corpus, LAMBDA c :
    LET map == ImportMapOf(corpus, c.parsed.id)
    IN DepEdges(c.parsed, map, ids) \o RelationEdges(c.parsed, map, ids)))

-----------------------------------------------------------------------------
\* Calls: an unresolved edge whose callee's type is found, and has a method
\* of the name, becomes an edge to each method of the name.

\* [callee, name] of a call, <<>> for a callee that is this object.
ParseCall(expr) ==
  LET cut    == SelectInSeq(expr, LAMBDA x : x = "()")
      before == IF cut = 0 THEN expr ELSE SubSeq(expr, 1, cut - 1)
      path   == IF Len(before) > 1 /\ Head(before) = "this" THEN Tail(before) ELSE before
  IN [callee |-> Front(path), name |-> Last(path)]

\* The type as written of a field, or else a parameter, that is the callee.
VariableType(callee, method, nodes) ==
  LET typed == FieldsNamed(nodes, BeforeHash(method), Head(callee))
                 \o ParametersNamed(nodes, method, Head(callee))
  IN IF Len(callee) = 1 /\ typed # <<>> THEN typed[1].type ELSE NoType

\* The type of a callee: this object's class, a class that is imported, or
\* the type of a variable, if that is imported.
CalleeType(callee, method, nodes, map) ==
  IF callee = <<>> THEN BeforeHash(method)
  ELSE IF Head(callee) \in Capitalised THEN Lookup(map, callee)
  ELSE Lookup(map, VariableType(callee, method, nodes))

\* Variant: nobody asks whether the class has such a method.
CandidatesUnchecked(edge, corpus, nodes) ==
  LET call == ParseCall(edge.target)
      type == CalleeType(call.callee, edge.source, nodes,
                         ImportMapOf(corpus, BeforeHash(edge.source)))
  IN IF type = NoType THEN <<>> ELSE <<MethodId(type, call.name, <<>>)>>

Candidates(edge, corpus, nodes) ==
  LET call == ParseCall(edge.target)
      type == CalleeType(call.callee, edge.source, nodes,
                         ImportMapOf(corpus, BeforeHash(edge.source)))
  IN IF type = NoType THEN <<>> ELSE MethodsNamed(nodes, type, call.name)

\* Variant: from the first to the last.
WithoutPlacesForward(edges, places) ==
  LET after[n \in 0..Len(places)] ==
        IF n = 0 THEN edges
        ELSE IF places[n] > Len(after[n - 1]) THEN after[n - 1]
        ELSE RemoveAt(after[n - 1], places[n])
  IN after[Len(places)]

\* The edges at the places of a sequence are taken out from the last to the
\* first, so that the places before them stay right.
WithoutPlaces(edges, places) ==
  LET after[n \in 0..Len(places)] ==
        IF n = 0 THEN edges ELSE RemoveAt(after[n - 1], Reverse(places)[n])
  IN after[Len(places)]

ResolveCalls(edges, corpus, nodes) ==
  LET Found(i) == IF edges[i].kind = "calls_unresolved"
                  THEN Candidates(edges[i], corpus, nodes)
                  ELSE <<>>
      promoted == Keep([i \in DOMAIN edges |-> i], {i \in DOMAIN edges : Found(i) # <<>>})
  IN WithoutPlaces(edges, promoted)
       \o FlattenSeq(Each(promoted, LAMBDA i :
            Each(Found(i), LAMBDA m : CallsResolvedEdge(edges[i].source, m))))

-----------------------------------------------------------------------------
\* Of two nodes with one id the first is kept.
DedupNodes(nodes) ==
  LET new == {i \in DOMAIN nodes : \A j \in 1..(i - 1) : nodes[j].id # nodes[i].id}
  IN Each(Keep([i \in DOMAIN nodes |-> i], new), LAMBDA i : nodes[i])

\* The writer sorts nodes and edges: what the file holds are the sets.
Assemble(corpus) ==
  LET nodes == AllNodes(corpus)
      edges == AllEdges(corpus) \o CrossEdges(corpus, NodeIds(nodes))
  IN [nodes |-> ToSet(DedupNodes(nodes)),
      edges |-> ToSet(ResolveCalls(edges, corpus, nodes))]

=============================================================================
