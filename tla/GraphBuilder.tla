---------------------------- MODULE GraphBuilder ----------------------------
(***************************************************************************)
(* GraphBuilder.build: one envelope becomes a fragment of the graph, its   *)
(* nodes and the edges that the file alone determines. Nodes and edges are *)
(* sequences here, in the order of the code's lists.                       *)
(***************************************************************************)
EXTENDS ParsedFiles

ExtractionMode(mode) == IF mode = "ast" THEN "ast" ELSE "regex_fallback"

\* The nodes and the edges of graph_schema.py, with the attributes that
\* identify them or that the assembler reads.
ClassNode(p)          == [kind |-> "class", id |-> p.id, name |-> p.name,
                          extraction_mode |-> ExtractionMode(p.mode)]
InterfaceNode(p)      == [kind |-> "interface", id |-> p.id, name |-> p.name]
EnumNode(p)           == [kind |-> "enum", id |-> p.id, name |-> p.name]
RecordNode(p)         == [kind |-> "record", id |-> p.id, name |-> p.name]
AnnotationTypeNode(p) == [kind |-> "annotation_type", id |-> p.id, name |-> p.name]
FieldNode(f)          == [kind |-> "field", id |-> f.id, name |-> f.name, type |-> f.type]
MethodNode(m)         ==
  [kind |-> "method", id |-> m.id, name |-> m.name, parameters |-> m.parameters]

Edge(kind, source, target) == [kind |-> kind, source |-> source, target |-> target]

ContainsEdge(source, target)        == Edge("contains", source, target)
CallsUnresolvedEdge(source, target) == Edge("calls_unresolved", source, target)
CallsResolvedEdge(source, target)   == Edge("calls_resolved", source, target)
DependsOnEdge(source, target)       == Edge("depends_on", source, target)
AutowiresEdge(source, target)       == Edge("autowires", source, target)
BeanFactoryEdge(source, target)     == Edge("bean_factory", source, target)
RelationEdge(source, target, cardinality) ==
  [kind |-> "relation", source |-> source, target |-> target, cardinality |-> cardinality]

-----------------------------------------------------------------------------
When(condition, edge) == IF condition THEN <<edge>> ELSE <<>>

FieldEdges(f, class) ==
  <<ContainsEdge(class, f.id)>> \o When(f.is_autowired, AutowiresEdge(f.id, f.type))

\* No call is resolved yet: that takes the methods of the whole corpus.
CallEdges(m) == Each(m.calls, LAMBDA call : CallsUnresolvedEdge(m.id, call))

MethodEdges(m, class) ==
  <<ContainsEdge(class, m.id)>>
    \o When(m.is_bean_factory, BeanFactoryEdge(m.id, m.return_type))
    \o CallEdges(m)

FieldParts(p) ==
  [nodes |-> Each(p.fields, FieldNode),
   edges |-> FlattenSeq(Each(p.fields, LAMBDA f : FieldEdges(f, p.id)))]

MethodParts(p) ==
  [nodes |-> Each(p.methods, MethodNode),
   edges |-> FlattenSeq(Each(p.methods, LAMBDA m : MethodEdges(m, p.id)))]

BuildClass(p, module) ==
  [nodes |-> <<ClassNode(p)>> \o FieldParts(p).nodes \o MethodParts(p).nodes,
   edges |-> <<ContainsEdge(module, p.id)>> \o FieldParts(p).edges \o MethodParts(p).edges]

BuildInterface(p, module) ==
  [nodes |-> <<InterfaceNode(p)>> \o MethodParts(p).nodes,
   edges |-> <<ContainsEdge(module, p.id)>> \o MethodParts(p).edges]

\* Of the other kinds, the members an envelope may carry are left out.
Alone(node, module) == [nodes |-> <<node>>, edges |-> <<ContainsEdge(module, node.id)>>]

BuildEnum(p, module)           == Alone(EnumNode(p), module)
BuildRecord(p, module)         == Alone(RecordNode(p), module)
BuildAnnotationType(p, module) == Alone(AnnotationTypeNode(p), module)

Build(p, module) ==
  CASE p.kind = "class"           -> BuildClass(p, module)
    [] p.kind = "interface"       -> BuildInterface(p, module)
    [] p.kind = "enum"            -> BuildEnum(p, module)
    [] p.kind = "record"          -> BuildRecord(p, module)
    [] p.kind = "annotation_type" -> BuildAnnotationType(p, module)

=============================================================================
