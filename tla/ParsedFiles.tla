---------------------------- MODULE ParsedFiles ----------------------------
(***************************************************************************)
(* The envelope that the parser hands to the graph builder, one per .java  *)
(* file (parser/models.py), and the two ways it comes about: from the      *)
(* syntax tree, by ParsedFileAssembler in the Java process, and from the   *)
(* text, by RegexFallback when that process fails.                         *)
(*                                                                         *)
(* An id, a type and a call expression are sequences of identifiers: the   *)
(* class p.Owner is <<"p", "Owner">>, its field pets                       *)
(* <<"p", "Owner", "pets">>, its method add(Pet)                           *)
(* <<"p", "Owner", "#", "add", "Pet">>, the type List<Pet>                 *)
(* <<"List<", "Pet", ">">>, and pets.first().name() is                     *)
(* <<"pets", "first", "()", "name">>: "()" ends a call that another one    *)
(* follows.                                                                *)
(*                                                                         *)
(* A source s is what the file says: its package (<<>> for the default     *)
(* one), whether it declares a type, the type's kind, name, supertypes,    *)
(* imports, fields and methods; plain marks a member whose declaration the *)
(* regular expressions match. matched says whether anything in the text,   *)
(* comments included, looks like the declaration of a type, and first is   *)
(* the kind and the name of what does so first: of the sentence "a class   *)
(* for owners" it is the class named for. Members that Lombok generates    *)
(* are among the members of the source.                                    *)
(***************************************************************************)
EXTENDS SequencesExt, Lists

Kinds == {"class", "interface", "enum", "record", "annotation_type"}

Hash == "#"

FilePrefix == "file:"

\* What every source is like. No identifier is one of the marks that ids use.
IsSource(s) ==
  /\ s.kind \in Kinds /\ s.first.kind \in Kinds
  /\ IsList(s.package)
  /\ (ToSet(s.package) \cup {s.name, s.first.name}) \cap {Hash, FilePrefix} = {}
  /\ IsList(s.imports) /\ IsList(s.implements) /\ IsList(s.fields) /\ IsList(s.methods)
  /\ s.kind = "interface" => IsList(s.extends)
  /\ \A f \in ToSet(s.fields) : f.name # Hash
  /\ \A m \in ToSet(s.methods) :
       /\ IsList(m.parameters) /\ \A p \in ToSet(m.parameters) : IsList(p.type)
       /\ IsList(m.calls) /\ \A call \in ToSet(m.calls) : IsList(call) /\ call # <<>>

\* The fully qualified name of the type that s declares, and the one of the
\* type that its text seems to declare first.
TypeId(s)  == Append(s.package, s.name)
FirstId(s) == Append(s.package, s.first.name)

\* Op of every element; the concatenation has TLC compute them only once.
Each(s, Op(_)) == <<>> \o [i \in DOMAIN s |-> Op(s[i])]

MethodId(type, name, signature) == type \o <<Hash, name>> \o signature

-----------------------------------------------------------------------------
\* The envelope of a file the Java process parses.

AstImports(s) == Each(s.imports, LAMBDA i : i.path)

AstField(s, f) ==
  [id |-> Append(TypeId(s), f.name), name |-> f.name, type |-> f.type,
   is_autowired |-> f.is_autowired, relation |-> f.relation]

AstMethod(s, m) ==
  [id |-> MethodId(TypeId(s), m.name, FlattenSeq(Each(m.parameters, LAMBDA p : p.type))),
   name |-> m.name,
   return_type |-> IF m.is_constructor THEN TypeId(s) ELSE m.return_type,
   parameters |-> m.parameters,
   is_bean_factory |-> m.is_bean_factory /\ ~m.is_constructor,
   calls |-> m.calls]

AstFields(s)  == Each(s.fields, LAMBDA f : AstField(s, f))
AstMethods(s) == Each(s.methods, LAMBDA m : AstMethod(s, m))

\* A file without supertypes and members, which the kinds add to.
Blank(id, kind, name, mode) ==
  [id |-> id, kind |-> kind, name |-> name, mode |-> mode, imports |-> <<>>,
   fields |-> <<>>, methods |-> <<>>,
   superclass |-> <<>>, implements |-> <<>>, extends_interfaces |-> <<>>]

AstBase(s) == [Blank(TypeId(s), s.kind, s.name, "ast") EXCEPT !.imports = AstImports(s)]

AstClass(s) ==
  [AstBase(s) EXCEPT !.fields = AstFields(s), !.methods = AstMethods(s),
                     !.superclass = s.extends, !.implements = s.implements]

AstInterface(s) ==
  [AstBase(s) EXCEPT !.methods = AstMethods(s), !.extends_interfaces = s.extends]

\* The members of an enum are not looked at.
AstEnum(s) == [AstBase(s) EXCEPT !.implements = s.implements]

AstRecord(s) == [AstBase(s) EXCEPT !.implements = s.implements]

AstAnnotationType(s) == AstBase(s)

Ast(s) ==
  CASE s.kind = "class"           -> AstClass(s)
    [] s.kind = "interface"       -> AstInterface(s)
    [] s.kind = "enum"            -> AstEnum(s)
    [] s.kind = "record"          -> AstRecord(s)
    [] s.kind = "annotation_type" -> AstAnnotationType(s)

-----------------------------------------------------------------------------
\* The envelope of a file the regular expressions read. An import on demand
\* keeps its star.

RegexImports(s) ==
  Each(s.imports, LAMBDA i : i.path \o (IF i.star THEN <<"*">> ELSE <<>>))

PlainOnes(members) == Keep(members, {x \in ToSet(members) : x.plain})

RegexField(f, id) ==
  [id |-> Append(id, f.name), name |-> f.name, type |-> f.type,
   is_autowired |-> FALSE, relation |-> "none"]

\* Without parameter types, overloads of a method get one id; of the
\* constructor's declaration the expression takes the modifier for a type.
RegexMethod(m, id) ==
  [id |-> MethodId(id, m.name, <<>>), name |-> m.name,
   return_type |-> IF m.is_constructor THEN <<"public">> ELSE m.return_type,
   parameters |-> <<>>, is_bean_factory |-> FALSE, calls |-> <<>>]

RegexFields(s, id)  == Each(PlainOnes(s.fields), LAMBDA f : RegexField(f, id))
RegexMethods(s, id) == Each(PlainOnes(s.methods), LAMBDA m : RegexMethod(m, id))

FileId(path, name) == <<FilePrefix, path, Hash, name>>

\* Of a file that cannot be read or seems to declare no type.
EmptyEnvelope(path, stem) == Blank(FileId(path, stem), "class", stem, "regex")

RegexEnvelope(s, id) ==
  [Blank(id, s.first.kind, s.first.name, "regex") EXCEPT
     !.imports = RegexImports(s), !.fields = RegexFields(s, id), !.methods = RegexMethods(s, id)]

\* Variant: the id is by file even if the package is found.
RegexByFile(s, path, stem) ==
  IF ~s.matched THEN EmptyEnvelope(path, stem) ELSE RegexEnvelope(s, FileId(path, s.first.name))

Regex(s, path, stem) ==
  IF ~s.matched THEN EmptyEnvelope(path, stem)
  ELSE RegexEnvelope(s, IF s.package = <<>> THEN FileId(path, s.first.name) ELSE FirstId(s))

=============================================================================
