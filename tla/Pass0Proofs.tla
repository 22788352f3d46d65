---------------------------- MODULE Pass0Proofs ----------------------------
(***************************************************************************)
(* For any trees on disk, any order of listing and any way the files       *)
(* parse: a run reclaims its temporary directory; the graph has the files  *)
(* of every module in sight, each once and under its module; no call on a  *)
(* name is lost; the graph does not depend on the order of the files; a    *)
(* file that fails to parse costs the others no reference; and the checks  *)
(* of the scorecard say what they should.                                  *)
(*                                                                         *)
(* All but the first follow the data: what an id looks like, what both     *)
(* parsers return, the fragments built of that, what the assembler adds,   *)
(* resolves and takes out, what the walk of a tree finds, and that a run   *)
(* parses just these files. The last three rest on one more fact: an id    *)
(* begins with the name of its own file's type and with that of no other,  *)
(* so whatever the assembler looks up it finds in one file.                *)
(***************************************************************************)
EXTENDS Pass0, ListProofs

\* Before the corpus is known the run is still acquiring it; a local input
\* never has a temporary directory; and the run only ends through the cleanup.
TempInv ==
  /\ acquired => stage \notin {"acquire", "fetch", "discover"}
  /\ input = "local" => temp # "present"
  /\ OwnedTempReclaimed

\* A run begins so.
LEMMA TempInit == Init => TempInv
BY DEF Init, TempInv, OwnedTempReclaimed

\* The steps of the acquirer: the corpus is not known before the last one.
LEMMA AcquireKeepsTempInv ==
  ASSUME TempInv,
         Refuse \/ AcquireLocal \/ MakeTemp \/ Clone \/ CloneFails \/ Extract
           \/ ExtractFails \/ DiscoverSources \/ AcquireRaises
  PROVE  TempInv'
<1>1. CASE Refuse
  BY <1>1 DEF TempInv, OwnedTempReclaimed, Refuse, End
<1>2. CASE AcquireLocal
  BY <1>2 DEF TempInv, OwnedTempReclaimed, AcquireLocal, GoTo
<1>3. CASE MakeTemp
  BY <1>3 DEF TempInv, OwnedTempReclaimed, MakeTemp, GoTo
<1>4. CASE Clone
  BY <1>4 DEF TempInv, OwnedTempReclaimed, Clone, GoTo
<1>5. CASE CloneFails
  BY <1>5 DEF TempInv, OwnedTempReclaimed, CloneFails, End
<1>8. CASE Extract
  BY <1>8 DEF TempInv, OwnedTempReclaimed, Extract, GoTo
<1>9. CASE ExtractFails
  BY <1>9 DEF TempInv, OwnedTempReclaimed, ExtractFails, End
<1>6. CASE DiscoverSources
  BY <1>6 DEF TempInv, OwnedTempReclaimed, DiscoverSources, GoTo
<1>7. CASE AcquireRaises
  BY <1>7 DEF TempInv, OwnedTempReclaimed, AcquireRaises, End
<1> QED
  BY <1>1, <1>2, <1>3, <1>4, <1>5, <1>6, <1>7, <1>8, <1>9

\* The steps inside the try block stay in it or go to the cleanup, which
\* removes the directory of anything but a local input.
LEMMA BodyKeepsTempInv ==
  ASSUME TempInv,
         Construct \/ ParseFile \/ AllParsed \/ AssembleGraph \/ WriteGraph \/ Later
           \/ BodyRaises \/ Cleanup
  PROVE  TempInv'
<1>1. CASE Construct
  BY <1>1 DEF TempInv, OwnedTempReclaimed, Construct, GoTo
<1>2. CASE ParseFile
  BY <1>2 DEF TempInv, OwnedTempReclaimed, ParseFile
<1>3. CASE AllParsed
  BY <1>3 DEF TempInv, OwnedTempReclaimed, AllParsed, GoTo
<1>4. CASE AssembleGraph
  BY <1>4 DEF TempInv, OwnedTempReclaimed, AssembleGraph, GoTo
<1>5. CASE WriteGraph
  BY <1>5 DEF TempInv, OwnedTempReclaimed, WriteGraph, GoTo
<1>6. CASE Later
  BY <1>6 DEF TempInv, OwnedTempReclaimed, Later, Leave
<1>7. CASE BodyRaises
  BY <1>7 DEF TempInv, OwnedTempReclaimed, BodyRaises, Leave
<1>8. CASE Cleanup
  BY <1>8 DEF TempInv, OwnedTempReclaimed, Cleanup
<1> QED
  BY <1>1, <1>2, <1>3, <1>4, <1>5, <1>6, <1>7, <1>8

\* An interrupt goes through the cleanup exactly when the corpus is known.
LEMMA StopKeepsTempInv ==
  ASSUME TempInv, Interrupt \/ Kill
  PROVE  TempInv'
<1>1. CASE Interrupt
  <2>1. CASE acquired
    BY <1>1, <2>1 DEF TempInv, OwnedTempReclaimed, Interrupt, Leave
  <2>2. CASE ~acquired
    BY <1>1, <2>2 DEF TempInv, OwnedTempReclaimed, Interrupt, End
  <2> QED
    BY <2>1, <2>2
<1>2. CASE Kill
  BY <1>2 DEF TempInv, OwnedTempReclaimed, Kill, End
<1> QED
  BY <1>1, <1>2

\* A run that knows of its temporary directory removes it before it ends,
\* unless it is killed: whatever raises in the try block of main.py.
THEOREM RunReclaimsTemp == Spec => []OwnedTempReclaimed
<1>1. TempInv /\ [Next]_vars => TempInv'
  <2>1. CASE UNCHANGED vars
    BY <2>1 DEF TempInv, OwnedTempReclaimed, vars
  <2>2. CASE Ended
    BY <2>2 DEF TempInv, OwnedTempReclaimed, Ended, vars
  <2> QED
    BY <2>1, <2>2, AcquireKeepsTempInv, BodyKeepsTempInv, StopKeepsTempInv
       DEF Next, Progress, Failure
<1>2. TempInv => OwnedTempReclaimed
  BY DEF TempInv
<1> QED
  BY TempInit, <1>1, <1>2, PTL DEF Spec

-----------------------------------------------------------------------------
\* The stages and the outcomes of a run are those listed, and what it knows
\* of its directory stays a truth value.
THEOREM Pass0TypeCorrect == Spec => []TypeOK
<1>1. Init => TypeOK
  BY DEF Init, TypeOK, Stages, Outcomes
<1>2. ASSUME TypeOK, [Next]_vars
      PROVE  TypeOK'
  <2>1. CASE Progress \/ Clone
    BY <1>2, <2>1 DEF TypeOK, Stages, Outcomes, Progress, GoTo, Leave, AcquireLocal, MakeTemp,
       Extract, Clone, DiscoverSources, Construct, ParseFile, AllParsed, AssembleGraph,
       WriteGraph, Later, Cleanup
  <2>2. CASE Failure
    BY <1>2, <2>2 DEF TypeOK, Stages, Outcomes, Failure, End, Leave, Refuse, CloneFails,
       ExtractFails, AcquireRaises, BodyRaises
  <2>3. CASE Interrupt \/ Kill
    BY <1>2, <2>3 DEF TypeOK, Stages, Outcomes, End, Leave, Interrupt, Kill
  <2>4. CASE Ended \/ UNCHANGED vars
    BY <1>2, <2>4 DEF TypeOK, Ended, vars
  <2> QED
    BY <1>2, <2>1, <2>2, <2>3, <2>4 DEF Next
<1> QED
  BY <1>1, <1>2, PTL DEF Spec

(***************************************************************************)
(* Ids                                                                     *)
(***************************************************************************)
\* What the id of a method with a name looks like, and those of other nodes.
MethodForm(id, name) ==
  /\ IsList(id)
  /\ \/ id[1] = FilePrefix /\ Len(id) = 6 /\ id[6] = name
     \/ /\ id[1] # FilePrefix
        /\ \E k \in DOMAIN id : /\ id[k] = Hash /\ id[k + 1] = name
                                /\ \A j \in 1..(k - 1) : id[j] # Hash

OtherForm(id) ==
  /\ IsList(id)
  /\ \/ id[1] = FilePrefix /\ Len(id) # 6
     \/ id[1] # FilePrefix /\ \A k \in DOMAIN id : id[k] # Hash

\* An id says whether it is a method's, and the method's name.
LEMMA FormsDiffer ==
  ASSUME NEW id, NEW a, MethodForm(id, a)
  PROVE  ~OtherForm(id) /\ \A b : MethodForm(id, b) => b = a
  <1>1. Len(id) \in Nat /\ DOMAIN id = 1..Len(id)
    BY ListDef DEF MethodForm
  <1>2. CASE id[1] = FilePrefix
    BY <1>2 DEF MethodForm, OtherForm
  <1>3. CASE id[1] # FilePrefix
    <2>1. PICK k \in DOMAIN id : /\ id[k] = Hash /\ id[k + 1] = a
                                 /\ \A j \in 1..(k - 1) : id[j] # Hash
      BY <1>3 DEF MethodForm
    <2>2. ~OtherForm(id)
      BY <1>3, <2>1 DEF OtherForm
    <2>3. ASSUME NEW b, MethodForm(id, b) PROVE b = a
      <3>1. PICK h \in DOMAIN id : /\ id[h] = Hash /\ id[h + 1] = b
                                   /\ \A j \in 1..(h - 1) : id[j] # Hash
        BY <1>3, <2>3 DEF MethodForm
      <3>2. h = k
        <4>1. ~ (h < k) /\ ~ (k < h)
          BY <1>1, <2>1, <3>1
        <4> QED BY <1>1, <4>1
      <3> QED BY <2>1, <3>1, <3>2
    <2> QED BY <2>2, <2>3
  <1> QED BY <1>2, <1>3

\* The id of a type is made of names, and what is made of it shows that.
Plain(t) ==
  IsList(t) /\ Len(t) >= 1 /\ \A i \in DOMAIN t : t[i] \notin {Hash, FilePrefix}

\* The name of a type in the package of a source is free of marks,
LEMMA InPackagePlain ==
  ASSUME NEW s, IsSource(s), NEW name \in {s.name, s.first.name}
  PROVE  Plain(Append(s.package, name))
  <1> DEFINE p == s.package
             T == ToSet(p) \cup {name}
             id == Append(p, name)
  <1>1. IsList(p) /\ p \in Seq(T) /\ name \in T
    BY SeqOver DEF IsSource
  <1>2. T \cap {Hash, FilePrefix} = {}
    BY DEF IsSource
  <1> HIDE DEF T
  <1>3. id \in Seq(T) /\ Len(id) = Len(p) + 1 /\ Len(p) \in Nat
    BY <1>1
  <1> HIDE DEF id
  <1>4. IsList(id) /\ ToSet(id) \subseteq T /\ Len(id) >= 1
    BY <1>3, ListOf
  <1>5. Plain(id)
    BY <1>2, <1>4 DEF Plain, ToSet
  <1> QED BY <1>5 DEF id

\* be it the one it declares or another one that stands in its text.
LEMMA TypeIdPlain == ASSUME NEW s, IsSource(s) PROVE Plain(TypeId(s)) /\ Plain(FirstId(s))
  BY InPackagePlain DEF TypeId, FirstId

\* A name without marks is no id of a method.
LEMMA PlainIsOther == ASSUME NEW t, Plain(t) PROVE OtherForm(t)
  <1>1. 1 \in DOMAIN t
    BY ListDef DEF Plain
  <1> QED BY <1>1 DEF Plain, OtherForm

\* Nor is the id of a field.
LEMMA FieldIdForm ==
  ASSUME NEW t, Plain(t), NEW name, name # Hash
  PROVE  OtherForm(Append(t, name))
  <1> DEFINE T == ToSet(t) \cup {name}
             id == Append(t, name)
             n == Len(t)
  <1>1. t \in Seq(T) /\ n \in Nat /\ n >= 1 /\ DOMAIN t = 1..n /\ name \in T
    BY SeqOver, ListDef DEF Plain
  <1> HIDE DEF T
  <1>2. id \in Seq(T) /\ DOMAIN id = 1..(n + 1) /\ id[n + 1] = name
        /\ \A i \in 1..n : id[i] = t[i]
    BY <1>1
  <1>3. IsList(id)
    BY <1>2, ListOf
  <1>4. 1 \in 1..n /\ \A i \in 1..(n + 1) : i = n + 1 \/ i \in 1..n
    BY <1>1
  <1> HIDE DEF id, n
  <1> QED BY <1>1, <1>2, <1>3, <1>4 DEF OtherForm, Plain, id, n

\* Where the parts of the id of a method are.
LEMMA MethodIdPlaces ==
  ASSUME NEW t, IsList(t), NEW name, NEW signature, IsList(signature), NEW id,
         id = MethodId(t, name, signature), NEW n, n = Len(t)
  PROVE  /\ IsList(id) /\ n \in Nat /\ {n + 1, n + 2} \subseteq DOMAIN id
         /\ \A j \in 1..n : j \in DOMAIN id /\ id[j] = t[j]
         /\ id[n + 1] = Hash /\ id[n + 2] = name
  <1> DEFINE mark == <<Hash, name>>
             u == t \o mark
             whole == u \o signature
  <1>1. IsList(t) /\ n \in Nat /\ DOMAIN t = 1..n
    BY ListDef
  <1>2. IsList(mark) /\ Len(mark) = 2 /\ mark[1] = Hash /\ mark[2] = name
    <2>1. mark \in Seq({Hash, name}) /\ Len(mark) = 2 /\ mark[1] = Hash /\ mark[2] = name
      OBVIOUS
    <2> QED BY <2>1, ListOf
  <1>3. /\ IsList(u) /\ Len(u) = n + 2 /\ \A j \in 1..n : u[j] = t[j]
        /\ u[n + 1] = Hash /\ u[n + 2] = name
    <2> HIDE DEF mark
    <2>1. 1 \in 1..Len(mark) /\ 2 \in 1..Len(mark)
      BY <1>2
    <2>2. /\ IsList(u) /\ Len(u) = Len(t) + Len(mark)
          /\ \A i \in 1..Len(t) : u[i] = t[i]
          /\ \A i \in 1..Len(mark) : u[Len(t) + i] = mark[i]
      <3>1. Joins(u, t, mark)
        BY ONLY <1>1, <1>2, ConcatPlaces
      <3> QED BY <3>1 DEF Joins
    <2> HIDE DEF u
    <2> QED BY <1>2, <2>1, <2>2
  <1>4. id = whole
    BY DEF MethodId
  <1> HIDE DEF u, mark
  <1>5. /\ IsList(whole) /\ 1..(n + 2) \subseteq DOMAIN whole
        /\ \A j \in 1..(n + 2) : whole[j] = u[j]
    <2>1. Joins(whole, u, signature)
      BY <1>3, ConcatPlaces
    <2> HIDE DEF whole
    <2>2. IsList(whole) /\ Len(whole) = Len(u) + Len(signature) /\ \A j \in 1..Len(u) : whole[j] = u[j]
      BY <2>1 DEF Joins
    <2>3. /\ DOMAIN whole = 1..Len(whole) /\ Len(whole) \in Nat
          /\ Len(signature) \in Nat
      BY <2>2, ListDef
    <2> QED BY <1>1, <1>3, <2>2, <2>3
  <1> HIDE DEF whole
  <1>6. \A j \in 1..n : j \in 1..(n + 2)
    BY <1>1
  <1>7. n + 1 \in 1..(n + 2) /\ n + 2 \in 1..(n + 2)
    BY <1>1
  <1> QED BY <1>1, <1>3, <1>4, <1>5, <1>6, <1>7

\* The id of a method is one.
LEMMA MethodIdForm ==
  ASSUME NEW t, Plain(t), NEW name, NEW signature, IsList(signature)
  PROVE  MethodForm(MethodId(t, name, signature), name)
  <1> DEFINE n == Len(t)
             id == MethodId(t, name, signature)
  <1>1. /\ IsList(t) /\ n \in Nat /\ n >= 1
        /\ \A j \in 1..n : t[j] # Hash /\ t[j] # FilePrefix
    BY ListDef DEF Plain
  <1>2. /\ IsList(id) /\ {n + 1, n + 2} \subseteq DOMAIN id /\ \A j \in 1..n : id[j] = t[j]
        /\ id[n + 1] = Hash /\ id[n + 2] = name
    BY <1>1, MethodIdPlaces
  <1> HIDE DEF n, id
  <1>3. 1 \in 1..n /\ (n + 1) - 1 = n /\ (n + 1) + 1 = n + 2
    BY <1>1
  <1>4. id[1] # FilePrefix /\ \A j \in 1..n : id[j] # Hash
    BY <1>1, <1>2, <1>3
  <1>5. id[n + 1] = Hash /\ id[(n + 1) + 1] = name /\ \A j \in 1..((n + 1) - 1) : id[j] # Hash
    BY <1>2, <1>3, <1>4
  <1>6. MethodForm(id, name)
    BY <1>2, <1>4, <1>5 DEF MethodForm
  <1> QED BY <1>6 DEF id

(***************************************************************************)
(* Envelopes                                                               *)
(***************************************************************************)
\* The ids of members of a file that has no package.
LEMMA FileForms ==
  ASSUME NEW path, NEW file, NEW name
  PROVE  /\ OtherForm(FileId(path, file))
         /\ OtherForm(Append(FileId(path, file), name))
         /\ MethodForm(MethodId(FileId(path, file), name, <<>>), name)
  <1> DEFINE T == {FilePrefix, path, Hash, file, name}
             id == FileId(path, file)
             method == MethodId(id, name, <<>>)
  <1>1. id \in Seq(T) /\ Len(id) = 4 /\ id[1] = FilePrefix
    BY DEF FileId
  <1>2. Append(id, name) \in Seq(T) /\ Len(Append(id, name)) = 5 /\ Append(id, name)[1] = FilePrefix
    BY DEF FileId
  <1> DEFINE mark == <<Hash, name>>
             u == id \o mark
  <1>3. method = u \o <<>>
    BY DEF MethodId
  <1>4. /\ IsList(method) /\ Len(method) = 6 /\ method[1] = FilePrefix /\ method[6] = name
    <2>1. mark \in Seq(T) /\ Len(mark) = 2 /\ mark[2] = name /\ 2 \in 1..2 /\ 1 \in 1..4
      OBVIOUS
    <2> HIDE DEF T, id, mark, method
    <2>2. IsList(id) /\ IsList(mark)
      BY <1>1, <2>1, ListOf
    <2>3. Joins(u, id, mark)
      BY <2>2, ConcatPlaces
    <2>4. IsList(u) /\ Len(u) = 6 /\ u[1] = FilePrefix /\ u[6] = name
      BY <1>1, <2>1, <2>3 DEF Joins
    <2> HIDE DEF u
    <2>5. u \in Seq(ToSet(u)) /\ <<>> \in Seq(ToSet(u))
      BY <2>4, ListDef
    <2>6. u \o <<>> = u
      BY <2>5
    <2> QED BY <1>3, <2>4, <2>6
  <1> HIDE DEF id, method
  <1>5. IsList(id) /\ IsList(Append(id, name)) /\ IsList(method)
    BY <1>1, <1>2, <1>4, ListOf
  <1> QED BY <1>1, <1>2, <1>4, <1>5 DEF OtherForm, MethodForm, id, method

\* What the graph is made from a field and a method of, of the type with an id.
GoodField(f, id) == OtherForm(f.id) /\ f.id = Append(id, f.name)

GoodMethod(m, id) ==
  /\ MethodForm(m.id, m.name) /\ IsList(m.parameters)
  /\ \E signature : IsList(signature) /\ m.id = MethodId(id, m.name, signature)
  /\ IsList(m.calls) /\ \A call \in ToSet(m.calls) : IsList(call) /\ call # <<>>

Members(id, fields, methods) ==
  /\ IsList(fields) /\ \A f \in ToSet(fields) : GoodField(f, id)
  /\ IsList(methods) /\ \A m \in ToSet(methods) : GoodMethod(m, id)

\* What an envelope is like. Only classes and interfaces make calls.
IsEnvelope(p) ==
  /\ p.kind \in Kinds /\ OtherForm(p.id)
  /\ IsList(p.imports) /\ IsList(p.implements) /\ IsList(p.extends_interfaces)
  /\ Members(p.id, p.fields, p.methods)
  /\ p.kind \notin {"class", "interface"} => \A m \in ToSet(p.methods) : m.calls = <<>>

\* What the Java process prints: its imports,
LEMMA AstImportList == ASSUME NEW s, IsSource(s) PROVE IsList(AstImports(s))
  <1> DEFINE f == [i \in DOMAIN s.imports |-> s.imports[i].path]
  <1>1. AstImports(s) = <<>> \o f
    BY DEF AstImports, Each
  <1>2. f = [i \in DOMAIN s.imports |-> f[i]] /\ IsList(s.imports)
    BY DEF IsSource
  <1> HIDE DEF f
  <1> QED BY <1>1, <1>2, EachList

\* and its fields and methods.
LEMMA AstMembers == ASSUME NEW s, IsSource(s) PROVE Members(TypeId(s), AstFields(s), AstMethods(s))
  <1>1. Plain(TypeId(s))
    BY TypeIdPlain
  <1>2. IsList(AstFields(s)) /\ \A f \in ToSet(AstFields(s)) : GoodField(f, TypeId(s))
    <2> DEFINE f == [i \in DOMAIN s.fields |-> AstField(s, s.fields[i])]
    <2>1. AstFields(s) = <<>> \o f
      BY DEF AstFields, Each
    <2>2. f = [i \in DOMAIN s.fields |-> f[i]] /\ IsList(s.fields)
      BY DEF IsSource
    <2>3. \A i \in DOMAIN s.fields : GoodField(f[i], TypeId(s))
      <3> SUFFICES ASSUME NEW i \in DOMAIN s.fields PROVE GoodField(f[i], TypeId(s))
        OBVIOUS
      <3>1. s.fields[i].name # Hash
        BY DEF IsSource, ToSet
      <3>2. f[i].id = Append(TypeId(s), s.fields[i].name) /\ f[i].name = s.fields[i].name
        BY DEF AstField
      <3> HIDE DEF f
      <3> QED BY <1>1, <3>1, <3>2, FieldIdForm DEF GoodField
    <2> HIDE DEF f
    <2>4. IsList(f) /\ AstFields(s) = f /\ DOMAIN f = DOMAIN s.fields
      BY <2>1, <2>2, EachList
    <2> QED BY <2>3, <2>4 DEF ToSet
  <1>3. IsList(AstMethods(s)) /\ \A m \in ToSet(AstMethods(s)) : GoodMethod(m, TypeId(s))
    <2> DEFINE f == [i \in DOMAIN s.methods |-> AstMethod(s, s.methods[i])]
    <2>1. AstMethods(s) = <<>> \o f
      BY DEF AstMethods, Each
    <2>2. f = [i \in DOMAIN s.methods |-> f[i]] /\ IsList(s.methods)
      BY DEF IsSource
    <2>3. \A i \in DOMAIN s.methods : GoodMethod(f[i], TypeId(s))
      <3> SUFFICES ASSUME NEW i \in DOMAIN s.methods PROVE GoodMethod(f[i], TypeId(s))
        OBVIOUS
      <3> DEFINE m == s.methods[i]
                 g == [k \in DOMAIN m.parameters |-> m.parameters[k].type]
                 signature == FlattenSeq(Each(m.parameters, LAMBDA p : p.type))
      <3>1. /\ IsList(m.parameters) /\ \A p \in ToSet(m.parameters) : IsList(p.type)
            /\ IsList(m.calls) /\ \A call \in ToSet(m.calls) : IsList(call) /\ call # <<>>
        BY DEF IsSource, ToSet
      <3>2. /\ f[i].id = MethodId(TypeId(s), m.name, signature) /\ f[i].name = m.name
            /\ f[i].parameters = m.parameters /\ f[i].calls = m.calls
        BY DEF AstMethod
      <3>3. signature = FlattenSeq(<<>> \o g)
        BY DEF Each
      <3>4. g = [k \in DOMAIN m.parameters |-> g[k]] /\ \A k \in DOMAIN m.parameters : IsList(g[k])
        BY <3>1 DEF ToSet
      <3> HIDE DEF f, m, signature, g
      <3>5. IsList(g) /\ <<>> \o g = g /\ \A k \in DOMAIN g : IsList(g[k])
        BY <3>1, <3>4, EachList
      <3>6. IsList(signature)
        BY <3>3, <3>5, FlattenList
      <3> QED BY <1>1, <3>1, <3>2, <3>6, MethodIdForm DEF GoodMethod
    <2> HIDE DEF f
    <2>4. IsList(f) /\ AstMethods(s) = f /\ DOMAIN f = DOMAIN s.methods
      BY <2>1, <2>2, EachList
    <2> QED BY <2>3, <2>4 DEF ToSet
  <1> QED BY <1>2, <1>3 DEF Members

\* An envelope without members.
LEMMA BlankGood ==
  ASSUME NEW id, OtherForm(id), NEW kind \in Kinds, NEW name, NEW mode
  PROVE  IsEnvelope(Blank(id, kind, name, mode))
  <1> DEFINE p == Blank(id, kind, name, mode)
  <1>1. /\ p.id = id /\ p.kind = kind /\ p.imports = <<>> /\ p.fields = <<>>
        /\ p.methods = <<>> /\ p.implements = <<>> /\ p.extends_interfaces = <<>>
    BY DEF Blank
  <1>2. IsList(<<>>) /\ ToSet(<<>>) = {}
    BY OneElement
  <1> HIDE DEF p
  <1>3. Members(p.id, p.fields, p.methods)
    BY <1>1, <1>2 DEF Members
  <1> QED BY <1>1, <1>2, <1>3 DEF IsEnvelope, p

\* What the Java process prints of a source, of whichever kind, is an envelope.
LEMMA AstGood == ASSUME NEW s, IsSource(s) PROVE IsEnvelope(Ast(s))
  <1> DEFINE a == AstBase(s)
             p == Ast(s)
  <1>1. /\ OtherForm(TypeId(s)) /\ IsList(AstImports(s)) /\ Members(TypeId(s), AstFields(s), AstMethods(s))
        /\ s.kind \in Kinds /\ IsList(s.implements) /\ (s.kind = "interface" => IsList(s.extends))
    BY TypeIdPlain, PlainIsOther, AstImportList, AstMembers DEF IsSource
  <1>2. IsList(<<>>) /\ ToSet(<<>>) = {}
    BY OneElement
  <1>3. /\ Members(TypeId(s), <<>>, <<>>) /\ Members(TypeId(s), <<>>, AstMethods(s))
    BY <1>1, <1>2 DEF Members
  <1>4. CASE s.kind = "class"
    <2>1. /\ p.id = TypeId(s) /\ p.kind = s.kind /\ p.imports = AstImports(s)
          /\ p.fields = AstFields(s) /\ p.methods = AstMethods(s)
          /\ p.implements = s.implements /\ p.extends_interfaces = <<>>
      BY <1>4 DEF Ast, AstClass, AstBase, Blank
    <2> HIDE DEF p
    <2> QED BY <1>1, <1>2, <1>4, <2>1 DEF IsEnvelope, p
  <1>5. CASE s.kind = "interface"
    <2>1. /\ p.id = TypeId(s) /\ p.kind = s.kind /\ p.imports = AstImports(s)
          /\ p.fields = <<>> /\ p.methods = AstMethods(s)
          /\ p.implements = <<>> /\ p.extends_interfaces = s.extends
      BY <1>5 DEF Ast, AstInterface, AstBase, Blank
    <2> HIDE DEF p
    <2> QED BY <1>1, <1>2, <1>3, <1>5, <2>1 DEF IsEnvelope, p
  <1>6. CASE s.kind \in {"enum", "record"}
    <2>1. /\ p.id = TypeId(s) /\ p.kind = s.kind /\ p.imports = AstImports(s)
          /\ p.fields = <<>> /\ p.methods = <<>>
          /\ p.implements = s.implements /\ p.extends_interfaces = <<>>
      BY <1>6 DEF Ast, AstEnum, AstRecord, AstBase, Blank
    <2> HIDE DEF p
    <2> QED BY <1>1, <1>2, <1>3, <1>6, <2>1 DEF IsEnvelope, p
  <1>7. CASE s.kind = "annotation_type"
    <2>1. /\ p.id = TypeId(s) /\ p.kind = s.kind /\ p.imports = AstImports(s)
          /\ p.fields = <<>> /\ p.methods = <<>>
          /\ p.implements = <<>> /\ p.extends_interfaces = <<>>
      BY <1>7 DEF Ast, AstAnnotationType, AstBase, Blank
    <2> HIDE DEF p
    <2> QED BY <1>1, <1>2, <1>3, <1>7, <2>1 DEF IsEnvelope, p
  <1> QED BY <1>1, <1>4, <1>5, <1>6, <1>7 DEF Kinds

\* What the regular expressions find: its imports,
LEMMA RegexImportList == ASSUME NEW s, IsSource(s) PROVE IsList(RegexImports(s))
  <1> DEFINE f == [i \in DOMAIN s.imports |->
                     s.imports[i].path \o (IF s.imports[i].star THEN <<"*">> ELSE <<>>)]
  <1>1. RegexImports(s) = <<>> \o f
    BY DEF RegexImports, Each
  <1>2. f = [i \in DOMAIN s.imports |-> f[i]] /\ IsList(s.imports)
    BY DEF IsSource
  <1> HIDE DEF f
  <1> QED BY <1>1, <1>2, EachList

\* The ids that the regular expressions give a type, and those of its members.
TypeForm(id) ==
  /\ OtherForm(id)
  /\ \A name : /\ name # Hash => OtherForm(Append(id, name))
               /\ MethodForm(MethodId(id, name, <<>>), name)

\* the id of its type, with a package or without one,
LEMMA TypeForms ==
  /\ \A path, file : TypeForm(FileId(path, file))
  /\ \A s : IsSource(s) => TypeForm(FirstId(s))
  <1>1. ASSUME NEW path, NEW file PROVE TypeForm(FileId(path, file))
    BY FileForms DEF TypeForm
  <1>2. ASSUME NEW s, IsSource(s) PROVE TypeForm(FirstId(s))
    <2>1. Plain(FirstId(s)) /\ IsList(<<>>)
      BY <1>2, TypeIdPlain, OneElement
    <2> QED BY <2>1, PlainIsOther, FieldIdForm, MethodIdForm DEF TypeForm
  <1> QED BY <1>1, <1>2

\* and the members they match.
LEMMA RegexMembers ==
  ASSUME NEW s, IsSource(s), NEW id, TypeForm(id)
  PROVE  /\ Members(id, RegexFields(s, id), RegexMethods(s, id))
         /\ \A m \in ToSet(RegexMethods(s, id)) : m.calls = <<>>
  <1>1. IsList(RegexFields(s, id)) /\ \A f \in ToSet(RegexFields(s, id)) : GoodField(f, id)
    <2> DEFINE k == PlainOnes(s.fields)
               f == [i \in DOMAIN k |-> RegexField(k[i], id)]
    <2>1. RegexFields(s, id) = <<>> \o f
      BY DEF RegexFields, Each
    <2>2. IsList(k) /\ ToSet(k) \subseteq ToSet(s.fields)
      <3>1. IsList(s.fields)
        BY DEF IsSource
      <3> QED BY <3>1, KeepList DEF PlainOnes
    <2> HIDE DEF k
    <2>3. \A i \in DOMAIN k : k[i].name # Hash /\ f[i].id = Append(id, k[i].name) /\ f[i].name = k[i].name
      BY <2>2 DEF IsSource, ToSet, RegexField
    <2>4. f = [i \in DOMAIN k |-> f[i]]
      OBVIOUS
    <2> HIDE DEF f
    <2>5. IsList(f) /\ RegexFields(s, id) = f /\ DOMAIN f = DOMAIN k
      BY <2>1, <2>2, <2>4, EachList
    <2>6. \A i \in DOMAIN k : GoodField(f[i], id)
      BY <2>3 DEF TypeForm, GoodField
    <2> QED BY <2>5, <2>6 DEF ToSet
  <1>2. /\ IsList(RegexMethods(s, id))
        /\ \A m \in ToSet(RegexMethods(s, id)) : GoodMethod(m, id) /\ m.calls = <<>>
    <2> DEFINE k == PlainOnes(s.methods)
               f == [i \in DOMAIN k |-> RegexMethod(k[i], id)]
    <2>1. RegexMethods(s, id) = <<>> \o f
      BY DEF RegexMethods, Each
    <2>2. IsList(k)
      <3>1. IsList(s.methods)
        BY DEF IsSource
      <3> QED BY <3>1, KeepList DEF PlainOnes
    <2> HIDE DEF k
    <2>3. \A i \in DOMAIN k : /\ f[i].id = MethodId(id, f[i].name, <<>>)
                              /\ f[i].parameters = <<>> /\ f[i].calls = <<>>
      BY DEF RegexMethod
    <2>4. f = [i \in DOMAIN k |-> f[i]]
      OBVIOUS
    <2> HIDE DEF f
    <2>5. IsList(f) /\ RegexMethods(s, id) = f /\ DOMAIN f = DOMAIN k
      BY <2>1, <2>2, <2>4, EachList
    <2>6. IsList(<<>>) /\ ToSet(<<>>) = {}
      BY OneElement
    <2>7. \A i \in DOMAIN k : GoodMethod(f[i], id)
      BY <2>3, <2>6 DEF TypeForm, GoodMethod
    <2> QED BY <2>3, <2>5, <2>7 DEF ToSet
  <1> QED BY <1>1, <1>2 DEF Members

\* What they find in a source, whatever it declares, is an envelope.
LEMMA RegexGood ==
  ASSUME NEW s, IsSource(s), NEW path, NEW stem
  PROVE  IsEnvelope(Regex(s, path, stem)) /\ IsEnvelope(EmptyEnvelope(path, stem))
  <1>1. IsEnvelope(EmptyEnvelope(path, stem))
    <2>1. OtherForm(FileId(path, stem)) /\ "class" \in Kinds
      BY FileForms DEF Kinds
    <2> QED BY <2>1, BlankGood DEF EmptyEnvelope
  <1>2. ASSUME NEW id, TypeForm(id) PROVE IsEnvelope(RegexEnvelope(s, id))
    <2> DEFINE p == RegexEnvelope(s, id)
    <2>1. /\ p.id = id /\ p.kind = s.first.kind /\ p.imports = RegexImports(s)
          /\ p.fields = RegexFields(s, id) /\ p.methods = RegexMethods(s, id)
          /\ p.implements = <<>> /\ p.extends_interfaces = <<>>
      BY DEF RegexEnvelope, Blank
    <2>2. s.first.kind \in Kinds /\ IsList(<<>>) /\ OtherForm(id)
      BY <1>2, OneElement DEF IsSource, TypeForm
    <2> HIDE DEF p
    <2> QED BY <1>2, <2>1, <2>2, RegexImportList, RegexMembers DEF IsEnvelope, p
  <1> QED BY <1>1, <1>2, TypeForms DEF Regex

\* Whatever becomes of a file, the graph builder gets an envelope.
LEMMA EnvelopeGood ==
  ASSUME NEW w, NEW f, IsSource(w.files[f].source), NEW mode \in Modes
  PROVE  IsEnvelope(Envelope(w, f, mode))
  BY AstGood, RegexGood DEF Envelope, Modes

(***************************************************************************)
(* Fragments                                                               *)
(***************************************************************************)
\* The id of a node says whether it is a method, and its name.
NodeForm(n) == IF n.kind = "method" THEN MethodForm(n.id, n.name) ELSE OtherForm(n.id)

IsPart(b) == IsList(b.nodes) /\ IsList(b.edges) /\ \A n \in ToSet(b.nodes) : NodeForm(n)

\* The calls of a list of methods are among some edges.
Calling(methods, edges) ==
  \A m \in ToSet(methods) : \A call \in ToSet(m.calls) :
    CallsUnresolvedEdge(m.id, call) \in ToSet(edges)

\* A fragment has a node for the type of its file, and the edge from the module.
HasType(b, p, module) ==
  /\ \E n \in ToSet(b.nodes) : n.id = p.id
  /\ ContainsEdge(module, p.id) \in ToSet(b.edges)

\* A list of one element or none.
LEMMA WhenList == ASSUME NEW c, NEW x PROVE IsList(When(c, x))
  BY OneElement DEF When

\* and of that element at most.
LEMMA WhenElements == ASSUME NEW c, NEW x PROVE ToSet(When(c, x)) \subseteq {x}
  BY OneElement DEF When

\* The nodes and edges of the fields of a type.
LEMMA FieldPartsGood ==
  ASSUME NEW p, IsEnvelope(p)
  PROVE  IsPart(FieldParts(p))
  <1> DEFINE fields == p.fields
             f == [i \in DOMAIN fields |-> FieldNode(fields[i])]
             g == [i \in DOMAIN fields |-> FieldEdges(fields[i], p.id)]
             b == FieldParts(p)
  <1>1. IsList(fields) /\ \A i \in DOMAIN fields : OtherForm(fields[i].id)
    BY DEF IsEnvelope, Members, GoodField, ToSet
  <1>2. b.nodes = <<>> \o f /\ b.edges = FlattenSeq(<<>> \o g)
    BY DEF FieldParts, Each
  <1>3. \A i \in DOMAIN fields : NodeForm(f[i])
    BY <1>1 DEF FieldNode, NodeForm
  <1>4. \A i \in DOMAIN fields : IsList(g[i])
    <2> SUFFICES ASSUME NEW i \in DOMAIN fields PROVE IsList(g[i])
      OBVIOUS
    <2> DEFINE s == <<ContainsEdge(p.id, fields[i].id)>>
               t == When(fields[i].is_autowired, AutowiresEdge(fields[i].id, fields[i].type))
    <2>1. g[i] = s \o t
      BY DEF FieldEdges
    <2>2. IsList(s) /\ IsList(t)
      BY OneElement, WhenList
    <2> HIDE DEF s, t, g
    <2> QED BY <2>1, <2>2, ConcatList
  <1>5. f = [i \in DOMAIN fields |-> f[i]] /\ g = [i \in DOMAIN fields |-> g[i]]
    OBVIOUS
  <1> HIDE DEF f, g, b, fields
  <1>6. IsList(f) /\ b.nodes = f /\ DOMAIN f = DOMAIN fields
    BY <1>1, <1>2, <1>5, EachList
  <1>7. IsList(g) /\ b.edges = FlattenSeq(g) /\ DOMAIN g = DOMAIN fields
    BY <1>1, <1>2, <1>5, EachList
  <1>8. IsList(b.edges)
    BY <1>4, <1>7, FlattenList
  <1> QED BY <1>3, <1>6, <1>8 DEF IsPart, ToSet, b

\* The edges of a method have its calls.
LEMMA MethodEdgesGood ==
  ASSUME NEW m, NEW class, GoodMethod(m, class)
  PROVE  /\ IsList(MethodEdges(m, class))
         /\ \A call \in ToSet(m.calls) :
              CallsUnresolvedEdge(m.id, call) \in ToSet(MethodEdges(m, class))
  <1> DEFINE calls == m.calls
             f == [i \in DOMAIN calls |-> CallsUnresolvedEdge(m.id, calls[i])]
             s == <<ContainsEdge(class, m.id)>>
             t == When(m.is_bean_factory, BeanFactoryEdge(m.id, m.return_type))
             edges == MethodEdges(m, class)
  <1>1. edges = (s \o t) \o CallEdges(m) /\ CallEdges(m) = <<>> \o f
    BY DEF MethodEdges, CallEdges, Each
  <1>2. f = [i \in DOMAIN calls |-> f[i]] /\ IsList(calls)
    BY DEF GoodMethod
  <1>3. \A i \in DOMAIN calls : f[i] = CallsUnresolvedEdge(m.id, calls[i])
    OBVIOUS
  <1>4. IsList(s) /\ IsList(t)
    BY OneElement, WhenList
  <1> HIDE DEF f, s, t, edges, calls
  <1>5. IsList(f) /\ CallEdges(m) = f /\ DOMAIN f = DOMAIN calls
    BY <1>1, <1>2, EachList
  <1>6. IsList(s \o t)
    BY <1>4, ConcatList
  <1>7. IsList(edges) /\ ToSet(f) \subseteq ToSet(edges)
    <2> DEFINE u == s \o t
    <2> HIDE DEF u
    <2>1. IsList(u) /\ edges = u \o f
      BY <1>1, <1>5, <1>6 DEF u
    <2> QED BY <1>5, <2>1, ConcatList
  <1>8. \A call \in ToSet(calls) : CallsUnresolvedEdge(m.id, call) \in ToSet(f)
    BY <1>3, <1>5 DEF ToSet
  <1> QED BY <1>7, <1>8 DEF edges, calls

\* The nodes and edges of the methods of a type.
LEMMA MethodPartsGood ==
  ASSUME NEW p, IsEnvelope(p)
  PROVE  IsPart(MethodParts(p)) /\ Calling(p.methods, MethodParts(p).edges)
  <1> DEFINE methods == p.methods
             f == [i \in DOMAIN methods |-> MethodNode(methods[i])]
             g == [i \in DOMAIN methods |-> MethodEdges(methods[i], p.id)]
             b == MethodParts(p)
  <1>1. IsList(methods) /\ \A i \in DOMAIN methods : GoodMethod(methods[i], p.id)
    BY DEF IsEnvelope, Members, ToSet
  <1>2. b.nodes = <<>> \o f /\ b.edges = FlattenSeq(<<>> \o g)
    BY DEF MethodParts, Each
  <1>3. \A i \in DOMAIN methods : NodeForm(f[i])
    BY <1>1 DEF MethodNode, NodeForm, GoodMethod
  <1>4. \A i \in DOMAIN methods :
          /\ IsList(g[i])
          /\ \A call \in ToSet(methods[i].calls) :
               CallsUnresolvedEdge(methods[i].id, call) \in ToSet(g[i])
    BY <1>1, MethodEdgesGood
  <1>5. f = [i \in DOMAIN methods |-> f[i]] /\ g = [i \in DOMAIN methods |-> g[i]]
    OBVIOUS
  <1> HIDE DEF f, g, b, methods
  <1>6. IsList(f) /\ b.nodes = f /\ DOMAIN f = DOMAIN methods
    BY <1>1, <1>2, <1>5, EachList
  <1>7. IsList(g) /\ b.edges = FlattenSeq(g) /\ DOMAIN g = DOMAIN methods
    BY <1>1, <1>2, <1>5, EachList
  <1>8. /\ IsList(b.edges)
        /\ \A i \in DOMAIN methods : ToSet(g[i]) \subseteq ToSet(b.edges)
    <2>1. /\ IsList(FlattenSeq(g))
          /\ ToSet(FlattenSeq(g)) = UNION {ToSet(g[i]) : i \in DOMAIN g}
      BY <1>4, <1>7, FlattenList
    <2> QED BY <1>7, <2>1
  <1>9. IsPart(b)
    BY <1>3, <1>6, <1>8 DEF IsPart, ToSet
  <1>10. Calling(methods, b.edges)
    <2> SUFFICES ASSUME NEW i \in DOMAIN methods, NEW call \in ToSet(methods[i].calls)
                 PROVE  CallsUnresolvedEdge(methods[i].id, call) \in ToSet(b.edges)
      BY DEF Calling, ToSet
    <2> QED BY <1>4, <1>8
  <1> QED BY <1>9, <1>10 DEF b, methods

\* What the builder makes of an envelope.
LEMMA BuildGood ==
  ASSUME NEW p, IsEnvelope(p), NEW module
  PROVE  LET b == Build(p, module)
         IN IsPart(b) /\ Calling(p.methods, b.edges) /\ HasType(b, p, module)
  <1> DEFINE fs == FieldParts(p)
             ms == MethodParts(p)
             contained == <<ContainsEdge(module, p.id)>>
             b == Build(p, module)
  <1>1. IsPart(fs) /\ IsPart(ms) /\ Calling(p.methods, ms.edges) /\ OtherForm(p.id)
    BY FieldPartsGood, MethodPartsGood DEF IsEnvelope
  <1>2. IsList(contained) /\ ToSet(contained) = {ContainsEdge(module, p.id)}
    BY OneElement
  <1>3. ASSUME NEW n PROVE IsList(<<n>>) /\ ToSet(<<n>>) = {n}
    BY OneElement
  <1> HIDE DEF fs, ms, contained
  <1>4. CASE p.kind = "class"
    <2> DEFINE n == ClassNode(p)
               u == <<n>> \o fs.nodes
               v == contained \o fs.edges
    <2>1. b.nodes = u \o ms.nodes /\ b.edges = v \o ms.edges
      BY <1>4 DEF Build, BuildClass, fs, ms, contained
    <2>2. NodeForm(n) /\ n.id = p.id
      BY <1>1 DEF NodeForm, ClassNode
    <2> HIDE DEF n, b
    <2>3. /\ IsList(u) /\ ToSet(u) = {n} \cup ToSet(fs.nodes)
          /\ IsList(v) /\ ToSet(contained) \subseteq ToSet(v)
      BY <1>1, <1>2, <1>3, ConcatList DEF IsPart
    <2> HIDE DEF u, v
    <2>4. /\ IsList(b.nodes) /\ ToSet(b.nodes) = ToSet(u) \cup ToSet(ms.nodes)
          /\ IsList(b.edges) /\ ToSet(b.edges) = ToSet(v) \cup ToSet(ms.edges)
      BY <1>1, <2>1, <2>3, ConcatList DEF IsPart
    <2>5. IsPart(b) /\ Calling(p.methods, b.edges)
      BY <1>1, <2>2, <2>3, <2>4 DEF IsPart, Calling
    <2>6. HasType(b, p, module)
      BY <1>2, <2>2, <2>3, <2>4 DEF HasType
    <2> QED BY <2>5, <2>6 DEF b
  <1>5. CASE p.kind = "interface"
    <2> DEFINE n == InterfaceNode(p)
    <2>1. b.nodes = <<n>> \o ms.nodes /\ b.edges = contained \o ms.edges
      BY <1>5 DEF Build, BuildInterface, ms, contained
    <2>2. NodeForm(n) /\ n.id = p.id
      BY <1>1 DEF NodeForm, InterfaceNode
    <2> HIDE DEF n, b
    <2>4. /\ IsList(b.nodes) /\ ToSet(b.nodes) = {n} \cup ToSet(ms.nodes)
          /\ IsList(b.edges) /\ ToSet(b.edges) = ToSet(contained) \cup ToSet(ms.edges)
      BY <1>1, <1>2, <1>3, <2>1, ConcatList DEF IsPart
    <2>5. IsPart(b) /\ Calling(p.methods, b.edges)
      BY <1>1, <2>2, <2>4 DEF IsPart, Calling
    <2>6. HasType(b, p, module)
      BY <1>2, <2>2, <2>4 DEF HasType
    <2> QED BY <2>5, <2>6 DEF b
  <1>6. CASE p.kind \in {"enum", "record", "annotation_type"}
    <2>1. PICK n : b = Alone(n, module) /\ n \in {EnumNode(p), RecordNode(p), AnnotationTypeNode(p)}
      BY <1>6 DEF Build, BuildEnum, BuildRecord, BuildAnnotationType
    <2>2. /\ b.nodes = <<n>> /\ b.edges = <<ContainsEdge(module, n.id)>>
          /\ NodeForm(n) /\ n.id = p.id
      BY <1>1, <2>1 DEF Alone, NodeForm, EnumNode, RecordNode, AnnotationTypeNode
    <2>3. \A m \in ToSet(p.methods) : m.calls = <<>>
      BY <1>6 DEF IsEnvelope
    <2>4. ToSet(<<>>) = {}
      BY OneElement
    <2> HIDE DEF b
    <2>5. IsPart(b) /\ Calling(p.methods, b.edges)
      BY <1>3, <2>2, <2>3, <2>4 DEF IsPart, Calling
    <2>6. HasType(b, p, module)
      BY <1>3, <2>2 DEF HasType
    <2> QED BY <2>5, <2>6 DEF b
  <1>7. p.kind \in Kinds
    BY DEF IsEnvelope
  <1> QED BY <1>4, <1>5, <1>6, <1>7 DEF Kinds

\* The node of the type of a file, and those of its members.
IsTypeNode(n, p) ==
  n.kind = p.kind /\ n.id = p.id /\ (p.kind = "class" => n.extraction_mode = ExtractionMode(p.mode))

IsMemberNode(n, p) ==
  \/ \E f \in ToSet(p.fields) : n = FieldNode(f)
  \/ \E m \in ToSet(p.methods) : n = MethodNode(m)

\* The edges of a file; a call comes from a method that has a node.
IsOwnEdge(e, nodes, p) ==
  \/ e.kind \in {"contains", "autowires", "bean_factory"}
  \/ \E m \in ToSet(p.methods) :
       MethodNode(m) \in nodes /\ \E call \in ToSet(m.calls) : e = CallsUnresolvedEdge(m.id, call)

\* A fragment has the node of the type first, and nothing of other files.
IsFragment(b, p) ==
  /\ 1 \in DOMAIN b.nodes /\ IsTypeNode(b.nodes[1], p)
  /\ \A i \in DOMAIN b.nodes : i = 1 \/ IsMemberNode(b.nodes[i], p)
  /\ \A e \in ToSet(b.edges) : IsOwnEdge(e, ToSet(b.nodes), p)

\* The nodes and edges of the fields.
LEMMA FieldPartsExact ==
  ASSUME NEW p, IsEnvelope(p)
  PROVE  /\ \A n \in ToSet(FieldParts(p).nodes) : IsMemberNode(n, p)
         /\ \A e \in ToSet(FieldParts(p).edges) : e.kind \in {"contains", "autowires"}
  <1> DEFINE fields == p.fields
             f == [i \in DOMAIN fields |-> FieldNode(fields[i])]
             g == [i \in DOMAIN fields |-> FieldEdges(fields[i], p.id)]
             b == FieldParts(p)
  <1>1. IsList(fields)
    BY DEF IsEnvelope, Members
  <1>2. b.nodes = <<>> \o f /\ b.edges = FlattenSeq(<<>> \o g)
    BY DEF FieldParts, Each
  <1>3. \A i \in DOMAIN fields : IsMemberNode(f[i], p)
    BY DEF IsMemberNode, ToSet
  <1>4. \A i \in DOMAIN fields : /\ IsList(g[i])
                                 /\ \A e \in ToSet(g[i]) : e.kind \in {"contains", "autowires"}
    <2> SUFFICES ASSUME NEW i \in DOMAIN fields
                 PROVE  IsList(g[i]) /\ \A e \in ToSet(g[i]) : e.kind \in {"contains", "autowires"}
      OBVIOUS
    <2> DEFINE c == ContainsEdge(p.id, fields[i].id)
               a == AutowiresEdge(fields[i].id, fields[i].type)
               s == <<c>>
               t == When(fields[i].is_autowired, a)
    <2>1. g[i] = s \o t
      BY DEF FieldEdges
    <2>2. c.kind = "contains" /\ a.kind = "autowires"
      BY DEF ContainsEdge, AutowiresEdge, Edge
    <2> HIDE DEF c, a
    <2>3. IsList(s) /\ IsList(t) /\ ToSet(s) = {c} /\ ToSet(t) \subseteq {a}
      BY OneElement, WhenList, WhenElements
    <2> HIDE DEF s, t, g
    <2> QED BY <2>1, <2>2, <2>3, ConcatList
  <1>5. f = [i \in DOMAIN fields |-> f[i]] /\ g = [i \in DOMAIN fields |-> g[i]]
    OBVIOUS
  <1> HIDE DEF f, g, b, fields
  <1>6. b.nodes = f /\ DOMAIN f = DOMAIN fields
    BY <1>1, <1>2, <1>5, EachList
  <1>7. IsList(g) /\ b.edges = FlattenSeq(g) /\ DOMAIN g = DOMAIN fields
    BY <1>1, <1>2, <1>5, EachList
  <1>8. ToSet(b.edges) = UNION {ToSet(g[i]) : i \in DOMAIN g}
    BY <1>4, <1>7, FlattenList
  <1>9. \A n \in ToSet(b.nodes) : IsMemberNode(n, p)
    BY <1>3, <1>6 DEF ToSet
  <1>10. \A e \in ToSet(b.edges) : e.kind \in {"contains", "autowires"}
    BY <1>4, <1>7, <1>8
  <1> QED BY <1>9, <1>10 DEF b

\* The edges of a method are its own and its calls.
LEMMA MethodEdgesExact ==
  ASSUME NEW m, NEW class, GoodMethod(m, class), NEW e \in ToSet(MethodEdges(m, class))
  PROVE  \/ e.kind \in {"contains", "bean_factory"}
         \/ \E call \in ToSet(m.calls) : e = CallsUnresolvedEdge(m.id, call)
  <1> DEFINE calls == m.calls
             f == [i \in DOMAIN calls |-> CallsUnresolvedEdge(m.id, calls[i])]
             c == ContainsEdge(class, m.id)
             a == BeanFactoryEdge(m.id, m.return_type)
             s == <<c>>
             t == When(m.is_bean_factory, a)
             u == s \o t
             edges == MethodEdges(m, class)
  <1>1. edges = u \o CallEdges(m) /\ CallEdges(m) = <<>> \o f
    BY DEF MethodEdges, CallEdges, Each
  <1>2. f = [i \in DOMAIN calls |-> f[i]] /\ IsList(calls)
    BY DEF GoodMethod
  <1>3. \A i \in DOMAIN calls : f[i] = CallsUnresolvedEdge(m.id, calls[i])
    OBVIOUS
  <1>4. c.kind = "contains" /\ a.kind = "bean_factory"
    BY DEF ContainsEdge, BeanFactoryEdge, Edge
  <1> HIDE DEF c, a
  <1>5. IsList(s) /\ IsList(t) /\ ToSet(s) = {c} /\ ToSet(t) \subseteq {a}
    BY OneElement, WhenList, WhenElements
  <1> HIDE DEF f, s, t, calls
  <1>6. IsList(f) /\ CallEdges(m) = f /\ DOMAIN f = DOMAIN calls
    BY <1>1, <1>2, EachList
  <1>7. IsList(u) /\ ToSet(u) = ToSet(s) \cup ToSet(t)
    BY <1>5, ConcatList
  <1> HIDE DEF u
  <1>8. ToSet(edges) = ToSet(u) \cup ToSet(f)
    <2> HIDE DEF edges
    <2> QED BY <1>1, <1>6, <1>7, ConcatList
  <1>9. \A x \in ToSet(f) : \E call \in ToSet(calls) : x = CallsUnresolvedEdge(m.id, call)
    BY <1>3, <1>6 DEF ToSet
  <1> QED BY <1>4, <1>5, <1>7, <1>8, <1>9 DEF calls

\* The nodes and edges of the methods.
LEMMA MethodPartsExact ==
  ASSUME NEW p, IsEnvelope(p)
  PROVE  LET b == MethodParts(p)
         IN /\ \A n \in ToSet(b.nodes) : IsMemberNode(n, p)
            /\ \A nodes : ToSet(b.nodes) \subseteq nodes =>
                 \A e \in ToSet(b.edges) : IsOwnEdge(e, nodes, p)
  <1> DEFINE methods == p.methods
             f == [i \in DOMAIN methods |-> MethodNode(methods[i])]
             g == [i \in DOMAIN methods |-> MethodEdges(methods[i], p.id)]
             b == MethodParts(p)
  <1>1. IsList(methods) /\ \A i \in DOMAIN methods : GoodMethod(methods[i], p.id)
    BY DEF IsEnvelope, Members, ToSet
  <1>2. b.nodes = <<>> \o f /\ b.edges = FlattenSeq(<<>> \o g)
    BY DEF MethodParts, Each
  <1>3. \A i \in DOMAIN methods : IsMemberNode(f[i], p) /\ f[i] = MethodNode(methods[i])
    BY DEF IsMemberNode, ToSet
  <1>4. \A i \in DOMAIN methods :
          /\ IsList(g[i])
          /\ \A e \in ToSet(g[i]) :
               \/ e.kind \in {"contains", "bean_factory"}
               \/ \E call \in ToSet(methods[i].calls) : e = CallsUnresolvedEdge(methods[i].id, call)
    BY <1>1, MethodEdgesGood, MethodEdgesExact
  <1>5. f = [i \in DOMAIN methods |-> f[i]] /\ g = [i \in DOMAIN methods |-> g[i]]
    OBVIOUS
  <1> HIDE DEF f, g, b
  <1>6. b.nodes = f /\ DOMAIN f = DOMAIN methods
    BY <1>1, <1>2, <1>5, EachList
  <1>7. IsList(g) /\ b.edges = FlattenSeq(g) /\ DOMAIN g = DOMAIN methods
    BY <1>1, <1>2, <1>5, EachList
  <1>8. ToSet(b.edges) = UNION {ToSet(g[i]) : i \in DOMAIN g}
    BY <1>4, <1>7, FlattenList
  <1>9. \A n \in ToSet(b.nodes) : IsMemberNode(n, p)
    BY <1>3, <1>6 DEF ToSet
  <1>10. ASSUME NEW nodes, ToSet(b.nodes) \subseteq nodes, NEW e \in ToSet(b.edges)
         PROVE  IsOwnEdge(e, nodes, p)
    <2>1. PICK i \in DOMAIN methods : e \in ToSet(g[i])
      BY <1>7, <1>8, <1>10
    <2>2. MethodNode(methods[i]) \in nodes /\ methods[i] \in ToSet(p.methods)
      BY <1>3, <1>6, <1>10 DEF ToSet
    <2>3. \/ e.kind \in {"contains", "bean_factory"}
          \/ \E call \in ToSet(methods[i].calls) : e = CallsUnresolvedEdge(methods[i].id, call)
      BY <1>4, <2>1
    <2> QED BY <2>2, <2>3 DEF IsOwnEdge
  <1> QED BY <1>9, <1>10 DEF b

\* The builder puts these in the fragment, and no more.
LEMMA BuildExact ==
  ASSUME NEW p, IsEnvelope(p), NEW module
  PROVE  IsFragment(Build(p, module), p)
  <1> DEFINE fs == FieldParts(p)
             ms == MethodParts(p)
             e == ContainsEdge(module, p.id)
             contained == <<e>>
             b == Build(p, module)
  <1>1. /\ IsList(fs.nodes) /\ IsList(fs.edges) /\ IsList(ms.nodes) /\ IsList(ms.edges)
        /\ \A n \in ToSet(fs.nodes) \cup ToSet(ms.nodes) : IsMemberNode(n, p)
        /\ \A nodes : \A x \in ToSet(fs.edges) : IsOwnEdge(x, nodes, p)
        /\ \A nodes : ToSet(ms.nodes) \subseteq nodes =>
             \A x \in ToSet(ms.edges) : IsOwnEdge(x, nodes, p)
    <2>1. IsList(fs.nodes) /\ IsList(fs.edges) /\ IsList(ms.nodes) /\ IsList(ms.edges)
      BY FieldPartsGood, MethodPartsGood DEF IsPart
    <2>2. /\ \A n \in ToSet(fs.nodes) : IsMemberNode(n, p)
          /\ \A x \in ToSet(fs.edges) : x.kind \in {"contains", "autowires"}
      BY FieldPartsExact
    <2>3. /\ \A n \in ToSet(ms.nodes) : IsMemberNode(n, p)
          /\ \A nodes : ToSet(ms.nodes) \subseteq nodes =>
               \A x \in ToSet(ms.edges) : IsOwnEdge(x, nodes, p)
      BY MethodPartsExact
    <2>4. \A nodes : \A x \in ToSet(fs.edges) : IsOwnEdge(x, nodes, p)
      BY <2>2 DEF IsOwnEdge
    <2> QED BY <2>1, <2>2, <2>3, <2>4
  <1>2. IsList(contained) /\ ToSet(contained) = {e} /\ \A nodes : IsOwnEdge(e, nodes, p)
    BY OneElement DEF IsOwnEdge, ContainsEdge, Edge
  <1> HIDE DEF fs, ms, contained, e
  <1>4. CASE p.kind = "class"
    <2> DEFINE n == ClassNode(p)
               s == fs.nodes \o ms.nodes
               h == <<n>>
               t == fs.edges \o ms.edges
    <2>1. b.nodes = (h \o fs.nodes) \o ms.nodes /\ b.edges = (contained \o fs.edges) \o ms.edges
      BY <1>4 DEF Build, BuildClass, fs, ms, contained, e
    <2>2. IsTypeNode(n, p) /\ IsList(h)
      BY <1>4, OneElement DEF IsTypeNode, ClassNode
    <2> HIDE DEF n, b
    <2>3. b.nodes = h \o s /\ b.edges = contained \o t
      <3>1. Associates(h, fs.nodes, ms.nodes) /\ Associates(contained, fs.edges, ms.edges)
        BY <1>1, <1>2, <2>2, ConcatAssoc
      <3> HIDE DEF h
      <3> QED BY <2>1, <3>1 DEF Associates
    <2>4. /\ IsList(s) /\ ToSet(s) = ToSet(fs.nodes) \cup ToSet(ms.nodes)
          /\ IsList(t) /\ ToSet(t) = ToSet(fs.edges) \cup ToSet(ms.edges)
      BY <1>1, ConcatList
    <2> HIDE DEF s, t
    <2>5. /\ 1 \in DOMAIN b.nodes /\ b.nodes[1] = n /\ ToSet(b.nodes) = {n} \cup ToSet(s)
          /\ \A i \in DOMAIN b.nodes : i = 1 \/ b.nodes[i] \in ToSet(s)
      <3>1. HasFirst(h \o s, n, s)
        BY <2>4, HeadFirst
      <3> HIDE DEF h
      <3> QED BY <2>3, <3>1 DEF HasFirst
    <2>6. ToSet(b.edges) = {e} \cup ToSet(t)
      BY <1>2, <2>3, <2>4, ConcatList
    <2>7. \A x \in ToSet(b.edges) : IsOwnEdge(x, ToSet(b.nodes), p)
      BY <1>1, <1>2, <2>4, <2>5, <2>6
    <2> QED BY <1>1, <2>2, <2>4, <2>5, <2>7 DEF IsFragment, b
  <1>5. CASE p.kind = "interface"
    <2> DEFINE n == InterfaceNode(p)
    <2>1. b.nodes = <<n>> \o ms.nodes /\ b.edges = contained \o ms.edges
      BY <1>5 DEF Build, BuildInterface, ms, contained, e
    <2>2. IsTypeNode(n, p)
      BY <1>5 DEF IsTypeNode, InterfaceNode
    <2> HIDE DEF n, b
    <2>5. /\ 1 \in DOMAIN b.nodes /\ b.nodes[1] = n /\ ToSet(b.nodes) = {n} \cup ToSet(ms.nodes)
          /\ \A i \in DOMAIN b.nodes : i = 1 \/ b.nodes[i] \in ToSet(ms.nodes)
      <3>1. HasFirst(<<n>> \o ms.nodes, n, ms.nodes)
        BY <1>1, HeadFirst
      <3> QED BY <2>1, <3>1 DEF HasFirst
    <2>6. ToSet(b.edges) = {e} \cup ToSet(ms.edges)
      BY <1>1, <1>2, <2>1, ConcatList
    <2>7. \A x \in ToSet(b.edges) : IsOwnEdge(x, ToSet(b.nodes), p)
      BY <1>1, <1>2, <2>5, <2>6
    <2> QED BY <1>1, <2>2, <2>5, <2>7 DEF IsFragment, b
  <1>6. CASE p.kind \in {"enum", "record", "annotation_type"}
    <2>1. PICK n : b = Alone(n, module) /\ IsTypeNode(n, p)
      BY <1>6 DEF Build, BuildEnum, BuildRecord, BuildAnnotationType, IsTypeNode,
         EnumNode, RecordNode, AnnotationTypeNode
    <2>2. b.nodes = <<n>> /\ b.edges = <<e>>
      BY <2>1 DEF Alone, IsTypeNode, e
    <2> HIDE DEF b
    <2>3. DOMAIN b.nodes = {1} /\ b.nodes[1] = n /\ ToSet(b.edges) = {e}
      <3>1. DOMAIN <<n>> = 1..1 /\ <<n>>[1] = n /\ 1..1 = {1}
        OBVIOUS
      <3> QED BY <2>2, <3>1, OneElement
    <2> QED BY <1>2, <2>1, <2>3 DEF IsFragment, b
  <1>7. p.kind \in Kinds
    BY DEF IsEnvelope
  <1> QED BY <1>4, <1>5, <1>6, <1>7 DEF Kinds

(***************************************************************************)
(* Lists of some elements                                                  *)
(***************************************************************************)
\* A list without elements is the empty list.
LEMMA EmptyList ==
  ASSUME NEW s, IsList(s)
  PROVE  /\ s = <<>> <=> ToSet(s) = {}
         /\ s # <<>> => Len(s) \in 1..Len(s) /\ Last(s) \in ToSet(s)
  <1>1. /\ Len(s) \in Nat /\ DOMAIN s = 1..Len(s) /\ s = [i \in 1..Len(s) |-> s[i]]
        /\ s \in Seq(ToSet(s))
    BY ListDef
  <1>2. ASSUME s # <<>> PROVE Len(s) \in 1..Len(s) /\ s[Len(s)] \in ToSet(s)
    <2>1. Len(s) # 0
      BY <1>1, <1>2
    <2>2. Len(s) \in 1..Len(s)
      BY <1>1, <2>1
    <2> QED BY <1>1, <2>2
  <1>3. ASSUME s = <<>> PROVE ToSet(s) = {}
    BY <1>3, OneElement
  <1> QED BY <1>2, <1>3 DEF Last

\* The elements of s at the places in a set.
Picked(s, S) ==
  LET k == Keep([i \in DOMAIN s |-> i], S)
  IN <<>> \o [i \in DOMAIN k |-> s[k[i]]]

\* They are just these elements.
LEMMA PickedSpec ==
  ASSUME NEW s, IsList(s), NEW S, S \subseteq DOMAIN s
  PROVE  IsList(Picked(s, S)) /\ ToSet(Picked(s, S)) = {s[i] : i \in S}
  <1> DEFINE places == [i \in DOMAIN s |-> i]
             k == Keep(places, S)
             f == [i \in DOMAIN k |-> s[k[i]]]
  <1>1. Picked(s, S) = <<>> \o f
    BY DEF Picked
  <1>2. places = [i \in DOMAIN s |-> places[i]] /\ ToSet(places) = DOMAIN s
    BY DEF ToSet
  <1> HIDE DEF places
  <1>3. IsList(places)
    BY <1>2, EachList
  <1>4. IsList(k) /\ ToSet(k) = S
    <2>1. DOMAIN s \cap S = S
      OBVIOUS
    <2> QED BY <1>2, <1>3, <2>1, KeepList
  <1> HIDE DEF k
  <1>5. f = [i \in DOMAIN k |-> f[i]] /\ \A i \in DOMAIN k : f[i] = s[k[i]]
    OBVIOUS
  <1> HIDE DEF f
  <1>6. IsList(f) /\ <<>> \o f = f /\ DOMAIN f = DOMAIN k
    BY <1>4, <1>5, EachList
  <1>7. ToSet(f) = {s[i] : i \in S}
    BY <1>4, <1>5, <1>6 DEF ToSet
  <1> QED BY <1>1, <1>6, <1>7

\* Of the places that have something in common the least.
LEMMA FirstPlace ==
  ASSUME NEW s, IsList(s), NEW S \in SUBSET DOMAIN s, S # {}
  PROVE  \E j \in S : \A h \in 1..(j - 1) : h \in DOMAIN s /\ h \notin S
  <1>1. DOMAIN s = 1..Len(s) /\ Len(s) \in Nat
    BY ListDef
  <1>2. S \in SUBSET Nat
    BY <1>1
  <1>3. PICK j \in S : \A h \in S : j <= h
    BY <1>2, LeastNumber
  <1>4. ASSUME NEW h \in 1..(j - 1) PROVE h \in DOMAIN s /\ h \notin S
    <2>1. h \in DOMAIN s /\ ~ (j <= h)
      BY <1>1
    <2> QED BY <1>3, <2>1
  <1> QED BY <1>4

\* FirstsOf loses no element.
LEMMA FirstsExact ==
  ASSUME NEW s, IsList(s)
  PROVE  IsList(FirstsOf(s)) /\ ToSet(FirstsOf(s)) = ToSet(s)
  <1> DEFINE new == {i \in DOMAIN s : \A j \in 1..(i - 1) : s[j] # s[i]}
  <1>1. FirstsOf(s) = Picked(s, new)
    BY DEF FirstsOf, Each, Picked
  <1>2. new \subseteq DOMAIN s
    OBVIOUS
  <1>3. ASSUME NEW i \in DOMAIN s PROVE \E j \in new : s[j] = s[i]
    <2> DEFINE same == {j \in DOMAIN s : s[j] = s[i]}
    <2>1. PICK j \in same : \A h \in 1..(j - 1) : h \in DOMAIN s /\ h \notin same
      <3>1. same \in SUBSET DOMAIN s /\ same # {}
        OBVIOUS
      <3> HIDE DEF same
      <3> QED BY <3>1, FirstPlace
    <2> QED BY <2>1
  <1> HIDE DEF new
  <1>4. IsList(Picked(s, new)) /\ ToSet(Picked(s, new)) = {s[i] : i \in new}
    BY <1>2, PickedSpec
  <1> QED BY <1>1, <1>2, <1>3, <1>4 DEF ToSet

(***************************************************************************)
(* Edges between files                                                     *)
(***************************************************************************)
\* What a file refers to is a list.
LEMMA ReferencesList ==
  ASSUME NEW p, IsEnvelope(p), NEW map
  PROVE  IsList(References(p, map))
  <1> DEFINE fields == [i \in DOMAIN p.fields |-> Lookup(map, p.fields[i].type)]
             Parameters(m) == [i \in DOMAIN m.parameters |-> Lookup(map, m.parameters[i].type)]
             methods == [i \in DOMAIN p.methods |->
                           <<Lookup(map, p.methods[i].return_type)>>
                             \o (<<>> \o Parameters(p.methods[i]))]
             super == When(p.superclass # <<>>, LookupOrText(map, p.superclass))
             implemented == [i \in DOMAIN p.implements |-> LookupOrText(map, p.implements[i])]
             extended == [i \in DOMAIN p.extends_interfaces |->
                            LookupOrText(map, p.extends_interfaces[i])]
  <1>1. References(p, map) = ((((p.imports \o (<<>> \o fields)) \o FlattenSeq(<<>> \o methods))
                               \o super) \o (<<>> \o implemented)) \o (<<>> \o extended)
    BY DEF References, Each
  <1>2. /\ IsList(p.imports) /\ IsList(p.implements) /\ IsList(p.extends_interfaces)
        /\ IsList(p.fields) /\ IsList(p.methods)
        /\ \A i \in DOMAIN p.methods : IsList(p.methods[i].parameters)
    BY DEF IsEnvelope, Members, GoodMethod, ToSet
  <1>3. \A i \in DOMAIN p.methods : IsList(methods[i])
    <2> SUFFICES ASSUME NEW i \in DOMAIN p.methods PROVE IsList(methods[i])
      OBVIOUS
    <2> DEFINE ps == p.methods[i].parameters
               g == [j \in DOMAIN ps |-> Lookup(map, ps[j].type)]
               result == <<Lookup(map, p.methods[i].return_type)>>
    <2>1. methods[i] = result \o (<<>> \o g)
      OBVIOUS
    <2>2. IsList(ps) /\ IsList(result) /\ g = [j \in DOMAIN ps |-> g[j]]
      BY <1>2, OneElement
    <2> HIDE DEF ps, g, result, methods
    <2>3. IsList(g) /\ <<>> \o g = g
      BY <2>2, EachList
    <2> QED BY <2>1, <2>2, <2>3, ConcatList
  <1>4. /\ fields = [i \in DOMAIN p.fields |-> fields[i]]
        /\ methods = [i \in DOMAIN p.methods |-> methods[i]]
        /\ implemented = [i \in DOMAIN p.implements |-> implemented[i]]
        /\ extended = [i \in DOMAIN p.extends_interfaces |-> extended[i]]
    OBVIOUS
  <1>5. IsList(super)
    BY WhenList
  <1> HIDE DEF fields, methods, implemented, extended, super
  <1>6. IsList(fields) /\ <<>> \o fields = fields
    BY <1>2, <1>4, EachList
  <1>7. IsList(implemented) /\ <<>> \o implemented = implemented
    BY <1>2, <1>4, EachList
  <1>8. IsList(extended) /\ <<>> \o extended = extended
    BY <1>2, <1>4, EachList
  <1>9. IsList(methods) /\ <<>> \o methods = methods /\ DOMAIN methods = DOMAIN p.methods
    BY <1>2, <1>4, EachList
  <1>10. IsList(FlattenSeq(methods))
    BY <1>3, <1>9, FlattenList
  <1> DEFINE a == p.imports \o fields
             b == a \o FlattenSeq(methods)
             c == b \o super
             d == c \o implemented
  <1>11. References(p, map) = d \o extended
    BY <1>1, <1>6, <1>7, <1>8, <1>9
  <1>12. IsList(a)
    BY <1>2, <1>6, ConcatList
  <1> HIDE DEF a
  <1>13. IsList(b)
    BY <1>10, <1>12, ConcatList
  <1> HIDE DEF b
  <1>14. IsList(c)
    BY <1>5, <1>13, ConcatList
  <1> HIDE DEF c
  <1>15. IsList(d)
    BY <1>7, <1>14, ConcatList
  <1> HIDE DEF d
  <1> QED BY <1>8, <1>11, <1>15, ConcatList

\* An edge that the assembler adds for a file.
AddsEdge(e, p, map, ids) ==
  \/ \E t \in ToSet(References(p, map)) : t \in ids \ {p.id} /\ e = DependsOnEdge(p.id, t)
  \/ /\ p.kind = "class"
     /\ \E f \in ToSet(p.fields) :
          LET target == Lookup(map, StripCollectionWrapper(f.type))
          IN f.relation # "none" /\ target \in ids /\ e = RelationEdge(p.id, target, f.relation)

\* It adds just these.
LEMMA AddedExact ==
  ASSUME NEW p, IsEnvelope(p), NEW map, NEW ids, NEW e
  PROVE  /\ IsList(DepEdges(p, map, ids) \o RelationEdges(p, map, ids))
         /\ e \in ToSet(DepEdges(p, map, ids) \o RelationEdges(p, map, ids)) <=> AddsEdge(e, p, map, ids)
  <1> DEFINE r == References(p, map)
             k == FirstsOf(Keep(r, ids \ {p.id}))
             f == [i \in DOMAIN k |-> DependsOnEdge(p.id, k[i])]
             Target(x) == Lookup(map, StripCollectionWrapper(x.type))
             related == {x \in ToSet(p.fields) : x.relation # "none" /\ Target(x) \in ids}
             l == Keep(p.fields, related)
             g == [i \in DOMAIN l |-> RelationEdge(p.id, Target(l[i]), l[i].relation)]
             deps == DepEdges(p, map, ids)
             rels == RelationEdges(p, map, ids)
  <1>1. deps = <<>> \o f /\ rels = (IF p.kind = "class" THEN FirstsOf(<<>> \o g) ELSE <<>>)
    BY DEF DepEdges, RelationEdges, Each
  <1>2. IsList(p.fields) /\ IsList(r)
    BY ReferencesList DEF IsEnvelope, Members
  <1>3. f = [i \in DOMAIN k |-> f[i]] /\ \A i \in DOMAIN k : f[i] = DependsOnEdge(p.id, k[i])
    OBVIOUS
  <1>4. g = [i \in DOMAIN l |-> g[i]]
        /\ \A i \in DOMAIN l : g[i] = RelationEdge(p.id, Target(l[i]), l[i].relation)
    OBVIOUS
  <1>5. \A x : x \in related <=> x \in ToSet(p.fields) /\ x.relation # "none" /\ Target(x) \in ids
    OBVIOUS
  <1>6. /\ (\E t \in ToSet(r) : t \in ids \ {p.id} /\ e = DependsOnEdge(p.id, t))
             \/ (p.kind = "class" /\ \E x \in ToSet(p.fields) :
                  x.relation # "none" /\ Target(x) \in ids /\ e = RelationEdge(p.id, Target(x), x.relation))
        <=> AddsEdge(e, p, map, ids)
    BY DEF AddsEdge
  <1> HIDE DEF r, f, g, related, Target, deps, rels
  <1>7. IsList(k) /\ ToSet(k) = ToSet(r) \cap (ids \ {p.id})
    <2>1. IsList(Keep(r, ids \ {p.id})) /\ ToSet(Keep(r, ids \ {p.id})) = ToSet(r) \cap (ids \ {p.id})
      BY <1>2, KeepList
    <2> QED BY <2>1, FirstsExact
  <1>8. IsList(l) /\ ToSet(l) = related
    <2>1. IsList(l) /\ ToSet(l) = ToSet(p.fields) \cap related
      BY <1>2, KeepList
    <2> QED BY <1>5, <2>1
  <1> HIDE DEF k, l
  <1>9. IsList(f) /\ deps = f /\ DOMAIN f = DOMAIN k
    BY <1>1, <1>3, <1>7, EachList
  <1>10. IsList(g) /\ <<>> \o g = g /\ DOMAIN g = DOMAIN l
    BY <1>4, <1>8, EachList
  <1>11. /\ IsList(rels)
         /\ p.kind = "class" => ToSet(rels) = ToSet(g)
         /\ p.kind # "class" => ToSet(rels) = {}
    BY <1>1, <1>10, FirstsExact, OneElement
  <1>12. e \in ToSet(deps) <=> \E t \in ToSet(r) : t \in ids \ {p.id} /\ e = DependsOnEdge(p.id, t)
    <2>1. e \in ToSet(f) <=> \E t \in ToSet(k) : e = DependsOnEdge(p.id, t)
      BY <1>3, <1>9 DEF ToSet
    <2> QED BY <1>7, <1>9, <2>1
  <1>13. e \in ToSet(g) <=> \E x \in related : e = RelationEdge(p.id, Target(x), x.relation)
    <2>1. e \in ToSet(g) <=> \E x \in ToSet(l) : e = RelationEdge(p.id, Target(x), x.relation)
      BY <1>4, <1>10 DEF ToSet
    <2> QED BY <1>8, <2>1
  <1>14. IsList(deps \o rels) /\ ToSet(deps \o rels) = ToSet(deps) \cup ToSet(rels)
    BY <1>7, <1>9, <1>11, ConcatList
  <1> QED BY <1>5, <1>6, <1>11, <1>12, <1>13, <1>14 DEF deps, rels

(***************************************************************************)
(* The corpus                                                              *)
(***************************************************************************)
\* What the loop of CorpusAnalyzer hands to the assembler.
IsCorpus(corpus) ==
  /\ IsList(corpus)
  /\ \A c \in ToSet(corpus) : /\ IsEnvelope(c.parsed) /\ IsPart(c.fragment)
                              /\ Calling(c.parsed.methods, c.fragment.edges)

\* All nodes of the fragments.
LEMMA AllNodesGood ==
  ASSUME NEW corpus, IsCorpus(corpus)
  PROVE  /\ IsList(AllNodes(corpus)) /\ \A n \in ToSet(AllNodes(corpus)) : NodeForm(n)
         /\ \A i \in DOMAIN corpus :
              ToSet(corpus[i].fragment.nodes) \subseteq ToSet(AllNodes(corpus))
         /\ \A x \in ToSet(AllNodes(corpus)) : \E c \in ToSet(corpus) : x \in ToSet(c.fragment.nodes)
  <1> DEFINE f == [i \in DOMAIN corpus |-> corpus[i].fragment.nodes]
  <1>1. AllNodes(corpus) = FlattenSeq(<<>> \o f)
    BY DEF AllNodes, Each
  <1>2. /\ IsList(corpus) /\ f = [i \in DOMAIN corpus |-> f[i]]
        /\ \A i \in DOMAIN corpus : /\ f[i] = corpus[i].fragment.nodes
                                    /\ IsList(f[i]) /\ \A n \in ToSet(f[i]) : NodeForm(n)
    BY DEF IsCorpus, IsPart, ToSet
  <1> HIDE DEF f
  <1>3. IsList(f) /\ <<>> \o f = f /\ DOMAIN f = DOMAIN corpus
    BY <1>2, EachList
  <1>4. /\ IsList(FlattenSeq(f))
        /\ ToSet(FlattenSeq(f)) = UNION {ToSet(f[i]) : i \in DOMAIN f}
    BY <1>2, <1>3, FlattenList
  <1>5. \A i \in DOMAIN corpus : ToSet(f[i]) \subseteq ToSet(FlattenSeq(f))
    BY <1>3, <1>4
  <1>6. \A x \in ToSet(FlattenSeq(f)) : \E c \in ToSet(corpus) : x \in ToSet(c.fragment.nodes)
    <2>1. \A i \in DOMAIN corpus : corpus[i] \in ToSet(corpus)
      BY DEF ToSet
    <2> QED BY <1>2, <1>3, <1>4, <2>1
  <1> QED BY <1>1, <1>2, <1>3, <1>4, <1>5, <1>6

\* All edges of the fragments.
LEMMA AllEdgesGood ==
  ASSUME NEW corpus, IsCorpus(corpus)
  PROVE  /\ IsList(AllEdges(corpus))
         /\ \A i \in DOMAIN corpus :
              ToSet(corpus[i].fragment.edges) \subseteq ToSet(AllEdges(corpus))
         /\ \A x \in ToSet(AllEdges(corpus)) : \E c \in ToSet(corpus) : x \in ToSet(c.fragment.edges)
  <1> DEFINE f == [i \in DOMAIN corpus |-> corpus[i].fragment.edges]
  <1>1. AllEdges(corpus) = FlattenSeq(<<>> \o f)
    BY DEF AllEdges, Each
  <1>2. /\ IsList(corpus) /\ f = [i \in DOMAIN corpus |-> f[i]]
        /\ \A i \in DOMAIN corpus : IsList(f[i]) /\ f[i] = corpus[i].fragment.edges
    BY DEF IsCorpus, IsPart, ToSet
  <1> HIDE DEF f
  <1>3. IsList(f) /\ <<>> \o f = f /\ DOMAIN f = DOMAIN corpus
    BY <1>2, EachList
  <1>4. /\ IsList(FlattenSeq(f))
        /\ ToSet(FlattenSeq(f)) = UNION {ToSet(f[i]) : i \in DOMAIN f}
    BY <1>2, <1>3, FlattenList
  <1>5. \A i \in DOMAIN corpus : ToSet(f[i]) \subseteq ToSet(FlattenSeq(f))
    BY <1>3, <1>4
  <1>6. \A x \in ToSet(FlattenSeq(f)) : \E c \in ToSet(corpus) : x \in ToSet(c.fragment.edges)
    <2>1. \A i \in DOMAIN corpus : corpus[i] \in ToSet(corpus)
      BY DEF ToSet
    <2> QED BY <1>2, <1>3, <1>4, <2>1
  <1> QED BY <1>1, <1>2, <1>3, <1>4, <1>5, <1>6

\* and all that are added.
LEMMA CrossEdgesExact ==
  ASSUME NEW corpus, IsCorpus(corpus), NEW ids
  PROVE  /\ IsList(CrossEdges(corpus, ids))
         /\ \A e : e \in ToSet(CrossEdges(corpus, ids)) <=>
              \E c \in ToSet(corpus) : AddsEdge(e, c.parsed, ImportMapOf(corpus, c.parsed.id), ids)
  <1> DEFINE Map(i) == ImportMapOf(corpus, corpus[i].parsed.id)
             f == [i \in DOMAIN corpus |-> DepEdges(corpus[i].parsed, Map(i), ids)
                                             \o RelationEdges(corpus[i].parsed, Map(i), ids)]
  <1>1. CrossEdges(corpus, ids) = FlattenSeq(<<>> \o f)
    BY DEF CrossEdges, Each
  <1>2. \A i \in DOMAIN corpus :
          /\ IsList(f[i])
          /\ \A e : e \in ToSet(f[i]) <=> AddsEdge(e, corpus[i].parsed, Map(i), ids)
    <2> SUFFICES ASSUME NEW i \in DOMAIN corpus
                 PROVE  /\ IsList(f[i])
                        /\ \A e : e \in ToSet(f[i]) <=> AddsEdge(e, corpus[i].parsed, Map(i), ids)
      OBVIOUS
    <2>1. f[i] = DepEdges(corpus[i].parsed, Map(i), ids) \o RelationEdges(corpus[i].parsed, Map(i), ids)
      OBVIOUS
    <2>2. IsEnvelope(corpus[i].parsed)
      BY DEF IsCorpus, ToSet
    <2> HIDE DEF f, Map
    <2> QED BY <2>1, <2>2, AddedExact
  <1>3. IsList(corpus) /\ f = [i \in DOMAIN corpus |-> f[i]]
    BY DEF IsCorpus
  <1> HIDE DEF f
  <1>4. IsList(f) /\ <<>> \o f = f /\ DOMAIN f = DOMAIN corpus
    BY <1>3, EachList
  <1>5. IsList(FlattenSeq(f)) /\ ToSet(FlattenSeq(f)) = UNION {ToSet(f[i]) : i \in DOMAIN f}
    BY <1>2, <1>4, FlattenList
  <1>6. ASSUME NEW e
        PROVE  e \in ToSet(FlattenSeq(f)) <=>
                 \E c \in ToSet(corpus) : AddsEdge(e, c.parsed, ImportMapOf(corpus, c.parsed.id), ids)
    <2>1. e \in ToSet(FlattenSeq(f)) <=> \E i \in DOMAIN corpus : AddsEdge(e, corpus[i].parsed, Map(i), ids)
      BY <1>2, <1>4, <1>5
    <2>2. \A c : c \in ToSet(corpus) <=> \E i \in DOMAIN corpus : c = corpus[i]
      BY DEF ToSet
    <2> QED BY <2>1, <2>2
  <1> QED BY <1>1, <1>4, <1>5, <1>6

(***************************************************************************)
(* Nodes                                                                   *)
(***************************************************************************)
\* The first node with an id.
WithId(nodes, id) == {n \in ToSet(nodes) : n.id = id}

FirstOf(nodes, id) == Keep(nodes, WithId(nodes, id))[1]

\* It is in the list, and no node before it has the id.
LEMMA FirstOfSpec ==
  ASSUME NEW nodes, IsList(nodes), NEW id \in NodeIds(nodes)
  PROVE  \E p \in DOMAIN nodes : /\ nodes[p].id = id /\ FirstOf(nodes, id) = nodes[p]
                                 /\ \A q \in 1..(p - 1) : q \in DOMAIN nodes /\ nodes[q].id # id
  <1> DEFINE S == WithId(nodes, id)
  <1>1. PICK i \in DOMAIN nodes : nodes[i].id = id
    BY DEF NodeIds
  <1>2. \A q \in DOMAIN nodes : nodes[q] \in S <=> nodes[q].id = id
    BY DEF WithId, ToSet
  <1>3. ToSet(nodes) \cap S # {}
    BY <1>1, <1>2 DEF ToSet
  <1>4. FirstOf(nodes, id) = Keep(nodes, S)[1]
    BY DEF FirstOf
  <1> HIDE DEF S
  <1>5. PICK p \in DOMAIN nodes : /\ nodes[p] \in S /\ Keep(nodes, S)[1] = nodes[p]
                                  /\ \A q \in 1..(p - 1) : nodes[q] \notin S
    BY <1>3, KeepFirst
  <1>6. \A q \in 1..(p - 1) : q \in DOMAIN nodes
    <2>1. DOMAIN nodes = 1..Len(nodes) /\ Len(nodes) \in Nat
      BY ListDef
    <2> QED BY <2>1
  <1> QED BY <1>2, <1>4, <1>5, <1>6

\* Deduplication leaves just the first node of every id.
LEMMA DedupExact ==
  ASSUME NEW nodes, IsList(nodes)
  PROVE  /\ ToSet(DedupNodes(nodes)) = {FirstOf(nodes, id) : id \in NodeIds(nodes)}
         /\ \A id \in NodeIds(nodes) : FirstOf(nodes, id).id = id /\ FirstOf(nodes, id) \in ToSet(nodes)
  <1> DEFINE new == {i \in DOMAIN nodes : \A j \in 1..(i - 1) : nodes[j].id # nodes[i].id}
  <1>1. DedupNodes(nodes) = Picked(nodes, new)
    BY DEF DedupNodes, Each, Picked
  <1>2. new \subseteq DOMAIN nodes
    OBVIOUS
  <1>3. ASSUME NEW id \in NodeIds(nodes)
        PROVE  /\ \E i \in new : FirstOf(nodes, id) = nodes[i]
               /\ FirstOf(nodes, id).id = id /\ FirstOf(nodes, id) \in ToSet(nodes)
    <2>1. PICK p \in DOMAIN nodes : /\ nodes[p].id = id /\ FirstOf(nodes, id) = nodes[p]
                                    /\ \A q \in 1..(p - 1) : q \in DOMAIN nodes /\ nodes[q].id # id
      BY FirstOfSpec
    <2> QED BY <2>1 DEF ToSet
  <1>4. ASSUME NEW i \in new
        PROVE  nodes[i].id \in NodeIds(nodes) /\ nodes[i] = FirstOf(nodes, nodes[i].id)
    <2>1. nodes[i].id \in NodeIds(nodes)
      BY DEF NodeIds
    <2>2. PICK p \in DOMAIN nodes : /\ nodes[p].id = nodes[i].id
                                    /\ FirstOf(nodes, nodes[i].id) = nodes[p]
                                    /\ \A q \in 1..(p - 1) : nodes[q].id # nodes[i].id
      BY <2>1, FirstOfSpec
    <2>3. p = i
      <3>1. DOMAIN nodes = 1..Len(nodes) /\ Len(nodes) \in Nat
        BY ListDef
      <3>2. ~ (p < i) /\ ~ (i < p)
        BY <2>2, <3>1
      <3> QED BY <3>1, <3>2
    <2> QED BY <2>1, <2>2, <2>3
  <1> HIDE DEF new
  <1>5. ToSet(Picked(nodes, new)) = {nodes[i] : i \in new}
    BY <1>2, PickedSpec
  <1> QED BY <1>1, <1>3, <1>4, <1>5

\* It loses no id, and adds no node.
LEMMA DedupSpec ==
  ASSUME NEW nodes, IsList(nodes)
  PROVE  /\ ToSet(DedupNodes(nodes)) \subseteq ToSet(nodes)
         /\ \A n \in ToSet(nodes) : \E d \in ToSet(DedupNodes(nodes)) : d.id = n.id
  <1>1. \A n \in ToSet(nodes) : n.id \in NodeIds(nodes)
    BY DEF NodeIds, ToSet
  <1> QED BY <1>1, DedupExact

\* ids is the list of the ids of the methods of a class with a name.
MethodIds(ids, nodes, class, name) ==
  /\ IsList(ids)
  /\ ToSet(ids) = {n.id : n \in {x \in ToSet(nodes) : /\ x.kind = "method" /\ BeforeHash(x.id) = class
                                                     /\ x.name = name}}

\* The methods of a name, as the assembler looks them up.
LEMMA MethodsNamedSpec ==
  ASSUME NEW nodes, IsList(nodes), NEW class, NEW name
  PROVE  MethodIds(MethodsNamed(nodes, class, name), nodes, class, name)
  <1> DEFINE named == {n \in ToSet(nodes) : n.kind = "method" /\ BeforeHash(n.id) = class
                                              /\ n.name = name}
             k == Keep(nodes, named)
             f == [i \in DOMAIN k |-> k[i].id]
  <1>1. MethodsNamed(nodes, class, name) = <<>> \o f
    BY DEF MethodsNamed, Each
  <1>2. IsList(k) /\ ToSet(k) = named
    <2>1. ToSet(nodes) \cap named = named
      OBVIOUS
    <2> HIDE DEF named
    <2> QED BY <2>1, KeepList
  <1>3. f = [i \in DOMAIN k |-> f[i]] /\ \A i \in DOMAIN k : f[i] = k[i].id
    OBVIOUS
  <1> HIDE DEF k, f, named
  <1>4. MethodsNamed(nodes, class, name) = f /\ IsList(f) /\ DOMAIN f = DOMAIN k
    BY <1>1, <1>2, <1>3, EachList
  <1>5. ToSet(f) = {n.id : n \in named}
    BY <1>2, <1>3, <1>4 DEF ToSet
  <1> QED BY <1>4, <1>5 DEF named, MethodIds

(***************************************************************************)
(* Calls                                                                   *)
(***************************************************************************)
LEMMA RemoveAtSpec ==
  ASSUME NEW T, NEW a \in Seq(T), NEW r \in 1..Len(a)
  PROVE  /\ RemoveAt(a, r) \in Seq(T) /\ Len(RemoveAt(a, r)) = Len(a) - 1
         /\ \A j \in 1..(r - 1) : RemoveAt(a, r)[j] = a[j]
         /\ \A j \in (r + 1)..Len(a) : RemoveAt(a, r)[j - 1] = a[j]
  <1> DEFINE N == Len(a)
             s == SubSeq(a, 1, r - 1)
             t == SubSeq(a, r + 1, N)
             b == s \o t
  <1>1. RemoveAt(a, r) = b
    BY DEF RemoveAt
  <1>2. N \in Nat /\ r \in Nat /\ 1 <= r /\ r <= N
    OBVIOUS
  <1>3. s \in Seq(T) /\ Len(s) = r - 1 /\ \A j \in 1..(r - 1) : s[j] = a[j]
    OBVIOUS
  <1>4. t \in Seq(T) /\ Len(t) = N - r /\ \A j \in 1..(N - r) : t[j] = a[r + j]
    OBVIOUS
  <1> HIDE DEF s, t, N
  <1>5. Joins(b, s, t) /\ b \in Seq(T)
    <2>1. IsList(s) /\ IsList(t)
      BY <1>3, <1>4, ListOf
    <2> QED BY <1>3, <1>4, <2>1, ConcatPlaces
  <1> HIDE DEF b
  <1>6. Len(b) = N - 1
    BY <1>2, <1>3, <1>4, <1>5 DEF Joins
  <1>7. \A j \in 1..(r - 1) : b[j] = a[j]
    BY <1>3, <1>5 DEF Joins
  <1>8. ASSUME NEW j \in (r + 1)..N PROVE b[j - 1] = a[j]
    <2>1. j - r \in 1..(N - r) /\ r + (j - r) = j /\ (r - 1) + (j - r) = j - 1
      BY <1>2
    <2>2. b[(r - 1) + (j - r)] = t[j - r]
      BY <1>3, <1>4, <1>5, <2>1 DEF Joins
    <2>3. t[j - r] = a[r + (j - r)]
      BY <1>4, <2>1
    <2> QED BY <2>1, <2>2, <2>3
  <1> QED BY <1>1, <1>5, <1>6, <1>7, <1>8 DEF N

\* a is what is left of s after the first n removals, which are at the places
\* r[1], r[2]...: every other element is there, in its place if no place
\* before it is gone yet, and nothing else.
LeftAfter(a, s, r, n) ==
  LET q == IF n = 0 THEN Len(s) + 1 ELSE r[n]
  IN /\ a \in Seq(ToSet(s))
     /\ \A i \in 1..Len(s) :
          (\A m \in 1..n : r[m] # i) =>
            \E j \in 1..Len(a) : a[j] = s[i] /\ (i < q => j = i) /\ (i > q => j >= q)
     /\ \A j \in 1..Len(a) :
          \E i \in 1..Len(s) : /\ a[j] = s[i] /\ \A m \in 1..n : r[m] # i
                               /\ (j < q => i = j) /\ (j >= q => i > q)

\* The places come from the last to the first.
Downward(r, N, K) ==
  r \in [1..K -> 1..N] /\ \A m, n \in 1..K : m < n => r[n] < r[m]

\* Removing the next place leaves the places before it.
LEMMA RemoveNext ==
  ASSUME NEW s, IsList(s), NEW K \in Nat, NEW r, Downward(r, Len(s), K),
         NEW n \in Nat, n + 1 <= K, NEW a, LeftAfter(a, s, r, n), NEW p, p = r[n + 1]
  PROVE  p \in 1..Len(a) /\ LeftAfter(RemoveAt(a, p), s, r, n + 1)
  <1> DEFINE N == Len(s)
             q == IF n = 0 THEN N + 1 ELSE r[n]
             b == RemoveAt(a, p)
  <1>1. N \in Nat /\ n + 1 \in 1..K
    BY ListDef
  <1>2. p \in 1..N /\ \A m \in 1..n : r[m] # p /\ r[m] > p
    BY <1>1 DEF Downward
  <1>3. p < q /\ q \in 1..(N + 1) /\ (n = 0 => q = N + 1) /\ (n # 0 => q = r[n])
    <2>1. CASE n = 0
      BY <1>1, <1>2, <2>1
    <2>2. CASE n # 0
      <3>1. n \in 1..n /\ n \in 1..K
        BY <1>1, <2>2
      <3>2. r[n] \in 1..N
        BY <3>1 DEF Downward
      <3> QED BY <1>1, <1>2, <2>2, <3>1, <3>2
    <2> QED BY <2>1, <2>2
  <1>4. /\ a \in Seq(ToSet(s))
        /\ \A i \in 1..N :
             (\A m \in 1..n : r[m] # i) =>
               \E j \in 1..Len(a) : a[j] = s[i] /\ (i < q => j = i) /\ (i > q => j >= q)
        /\ \A j \in 1..Len(a) :
             \E i \in 1..N : /\ a[j] = s[i] /\ \A m \in 1..n : r[m] # i
                            /\ (j < q => i = j) /\ (j >= q => i > q)
    BY DEF LeftAfter
  <1> HIDE DEF q, N
  <1>5. p \in 1..Len(a)
    BY <1>2, <1>3, <1>4
  <1>6. /\ b \in Seq(ToSet(s)) /\ Len(b) = Len(a) - 1
        /\ \A j \in 1..(p - 1) : b[j] = a[j]
        /\ \A j \in (p + 1)..Len(a) : b[j - 1] = a[j]
    <2>1. a \in Seq(ToSet(s))
      BY <1>4
    <2> QED BY ONLY <1>5, <2>1, RemoveAtSpec DEF b
  <1>7. Len(a) \in Nat
    BY <1>4
  <1> HIDE DEF b
  <1>8. ASSUME NEW i \in 1..N, \A m \in 1..(n + 1) : r[m] # i
        PROVE  \E j \in 1..Len(b) : b[j] = s[i] /\ (i < p => j = i) /\ (i > p => j >= p)
    <2>1. i # p /\ \A m \in 1..n : r[m] # i
      BY <1>1, <1>8
    <2>2. PICK j \in 1..Len(a) : a[j] = s[i] /\ (i < q => j = i) /\ (i > q => j >= q)
      BY <1>4, <2>1
    <2>3. i # q
      <3>1. n # 0 => n \in 1..n
        OBVIOUS
      <3> QED BY <1>1, <1>3, <2>1, <3>1
    <2>4. CASE i < p
      <3>1. j = i /\ j \in 1..(p - 1) /\ j \in 1..Len(b)
        <4> DEFINE m == Len(a)
                   k == Len(b)
        <4>1. p \in 1..m /\ k = m - 1 /\ m \in Nat
          BY <1>5, <1>6, <1>7
        <4>2. i \in Nat /\ 1 <= i /\ i < p /\ p < q /\ q \in Nat
          BY <1>1, <1>2, <1>3, <2>4
        <4> HIDE DEF m, k
        <4>3. i < q
          BY ONLY <4>1, <4>2
        <4>4. i \in 1..(p - 1) /\ i \in 1..k
          BY ONLY <4>1, <4>2
        <4> QED BY <2>2, <4>3, <4>4 DEF k
      <3> QED BY <1>2, <1>6, <2>2, <2>4, <3>1
    <2>5. CASE i > p
      <3>1. j > p
        BY <1>1, <1>2, <1>3, <2>2, <2>3, <2>5
      <3>2. j - 1 \in 1..Len(b) /\ j \in (p + 1)..Len(a) /\ j - 1 >= p
        BY <1>2, <1>6, <1>7, <3>1
      <3>3. b[j - 1] = s[i]
        BY <1>6, <2>2, <3>2
      <3> QED BY <1>2, <2>5, <3>2, <3>3
    <2> QED BY <1>2, <2>1, <2>4, <2>5
  <1>9. ASSUME NEW j \in 1..Len(b)
        PROVE  \E i \in 1..N : /\ b[j] = s[i] /\ \A m \in 1..(n + 1) : r[m] # i
                              /\ (j < p => i = j) /\ (j >= p => i > p)
    <2>0. p \in Nat /\ q \in Nat /\ \A m \in 1..(n + 1) : m = n + 1 \/ m \in 1..n
      BY <1>1, <1>2, <1>3
    <2>1. CASE j < p
      <3>1. j \in 1..(p - 1) /\ j \in 1..Len(a) /\ j < q
        <4> DEFINE m == Len(a)
                   k == Len(b)
        <4>1. k = m - 1 /\ m \in Nat /\ j \in 1..k /\ p < q
          BY <1>3, <1>6, <1>7
        <4> HIDE DEF m, k
        <4>2. j \in 1..(p - 1) /\ j \in 1..m /\ j < q
          BY ONLY <2>0, <2>1, <4>1
        <4> QED BY <4>2 DEF m
      <3>2. PICK i \in 1..N : /\ a[j] = s[i] /\ \A m \in 1..n : r[m] # i
                              /\ (j < q => i = j) /\ (j >= q => i > q)
        BY <1>4, <3>1
      <3>3. b[j] = a[j] /\ i = j /\ i # p /\ ~ (j >= p)
        BY <1>6, <2>0, <2>1, <3>1, <3>2
      <3> QED BY <2>0, <3>2, <3>3
    <2>2. CASE j >= p
      <3> DEFINE h == j + 1
      <3>1. h \in (p + 1)..Len(a) /\ h \in 1..Len(a) /\ h - 1 = j /\ ~ (j < p) /\ h > p
        BY <1>6, <1>7, <2>0, <2>2
      <3> HIDE DEF h
      <3>2. PICK i \in 1..N : /\ a[h] = s[i] /\ \A m \in 1..n : r[m] # i
                              /\ (h < q => i = h) /\ (h >= q => i > q)
        BY <1>4, <3>1
      <3>3. i > p
        <4>1. CASE h < q
          BY <2>0, <3>1, <3>2, <4>1
        <4>2. CASE h >= q
          BY <1>1, <1>3, <2>0, <3>2, <4>2
        <4> QED BY <2>0, <3>1, <4>1, <4>2
      <3>4. b[j] = a[h] /\ i # p
        BY <1>6, <2>0, <3>1, <3>3
      <3> QED BY <2>0, <3>1, <3>2, <3>3, <3>4
    <2> QED BY <2>0, <2>1, <2>2
  <1>10. n + 1 # 0
    OBVIOUS
  <1> QED BY <1>5, <1>6, <1>8, <1>9, <1>10 DEF LeftAfter, b, N

\* A row that begins with s and removes at the places r, when they are there,
\* removes at all of them.
LEMMA RemoveAll ==
  ASSUME NEW s, IsList(s), NEW K \in Nat, NEW r, Downward(r, Len(s), K), NEW f, f[0] = s,
         \A n \in 1..K : r[n] \in 1..Len(f[n - 1]) => f[n] = RemoveAt(f[n - 1], r[n])
  PROVE  /\ \A n \in 0..K : LeftAfter(f[n], s, r, n)
         /\ \A n \in 1..K : r[n] \in 1..Len(f[n - 1])
  <1> DEFINE Q == {n \in Nat : n <= K => LeftAfter(f[n], s, r, n)}
  <1>1. 0 \in Q
    <2>1. s \in Seq(ToSet(s)) /\ Len(s) \in Nat
      BY ListDef
    <2>2. LeftAfter(s, s, r, 0)
      BY <2>1 DEF LeftAfter
    <2> QED BY <2>2
  <1>2. ASSUME NEW n \in Nat, n \in Q, n + 1 <= K
        PROVE  r[n + 1] \in 1..Len(f[n]) /\ LeftAfter(f[n + 1], s, r, n + 1)
    <2> DEFINE a == f[n]
               p == r[n + 1]
    <2>1. LeftAfter(a, s, r, n)
      BY <1>2
    <2>2. n + 1 \in 1..K /\ (n + 1) - 1 = n
      BY <1>2
    <2>3. p \in 1..Len(a) => f[n + 1] = RemoveAt(a, p)
      BY <2>2
    <2>4. p = r[n + 1]
      OBVIOUS
    <2> HIDE DEF a, p
    <2>5. p \in 1..Len(a) /\ LeftAfter(RemoveAt(a, p), s, r, n + 1)
      BY <1>2, <2>1, <2>4, RemoveNext
    <2> QED BY <2>3, <2>5 DEF a, p
  <1>3. ASSUME NEW n \in Nat, n \in Q PROVE n + 1 \in Q
    BY <1>2, <1>3
  <1> HIDE DEF Q
  <1>4. Nat \subseteq Q
    BY <1>1, <1>3, InductionOverNat
  <1>5. \A n \in 0..K : LeftAfter(f[n], s, r, n)
    BY <1>4 DEF Q
  <1>6. ASSUME NEW n \in 1..K PROVE r[n] \in 1..Len(f[n - 1])
    <2>1. n - 1 \in Nat /\ (n - 1) + 1 = n
      OBVIOUS
    <2>2. n - 1 \in Q /\ (n - 1) + 1 <= K
      BY <1>4, <2>1
    <2>3. r[(n - 1) + 1] \in 1..Len(f[n - 1])
      BY ONLY <1>2, <2>1, <2>2
    <2> QED BY <2>1, <2>3
  <1> QED BY <1>5, <1>6

\* WithoutPlaces takes out what is at the places and nothing else.
LEMMA WithoutPlacesSpec ==
  ASSUME NEW s, IsList(s), NEW places, places \in Seq(1..Len(s)),
         \A i, j \in 1..Len(places) : i < j => places[i] < places[j]
  PROVE  /\ IsList(WithoutPlaces(s, places))
         /\ ToSet(WithoutPlaces(s, places)) = {s[i] : i \in DOMAIN s \ ToSet(places)}
  <1> DEFINE K == Len(places)
             N == Len(s)
             T == ToSet(s)
             V == Seq(T)
             r == Reverse(places)
             next == [n \in 1..K |-> [a \in V |-> IF r[n] \in 1..Len(a) THEN RemoveAt(a, r[n]) ELSE a]]
             Is(f) == f = [n \in 0..K |-> IF n = 0 THEN s ELSE RemoveAt(f[n - 1], Reverse(places)[n])]
             after == CHOOSE f : Is(f)
  <1>1. K \in Nat /\ N \in Nat /\ DOMAIN s = 1..N /\ s \in V
    BY ListDef
  <1>2. /\ r = [n \in 1..K |-> places[(K - n) + 1]]
        /\ \A n \in 1..K : (K - n) + 1 \in 1..K /\ places[(K - n) + 1] \in 1..N
    <2>1. \A n \in 1..K : (K - n) + 1 \in 1..K
      BY <1>1
    <2>2. \A n \in 1..K : places[n] \in 1..N
      OBVIOUS
    <2>3. r = [n \in 1..K |-> places[(K - n) + 1]]
      BY DEF Reverse
    <2> HIDE DEF K, N, r
    <2> QED BY <2>1, <2>2, <2>3
  <1>3. Downward(r, N, K)
    <2>1. ASSUME NEW m \in 1..K, NEW n \in 1..K, m < n PROVE r[n] < r[m]
      <3>1. (K - n) + 1 < (K - m) + 1
        BY <1>1, <2>1
      <3>2. r[n] = places[(K - n) + 1] /\ r[m] = places[(K - m) + 1]
        BY <1>2
      <3> HIDE DEF r
      <3> QED BY <1>2, <3>1, <3>2
    <2>2. r \in [1..K -> 1..N]
      <3> HIDE DEF r, K, N
      <3> QED BY <1>2
    <2> HIDE DEF r, K, N
    <2> QED BY <2>1, <2>2 DEF Downward
  <1>4. \A i \in 1..N : i \notin ToSet(places) <=> \A m \in 1..K : r[m] # i
    <2>1. DOMAIN places = 1..K /\ \A n \in 1..K : (K - ((K - n) + 1)) + 1 = n
      BY <1>1
    <2>2. \A n \in 1..K : r[(K - n) + 1] = places[n]
      BY <1>2, <2>1
    <2> HIDE DEF r, K
    <2> QED BY <1>2, <2>1, <2>2 DEF ToSet
  <1> HIDE DEF r
  <1>5. \E f : Is(f)
    <2>1. next \in [1..K -> [V -> V]]
      <3>1. ASSUME NEW n \in 1..K, NEW a \in V
            PROVE  (IF r[n] \in 1..Len(a) THEN RemoveAt(a, r[n]) ELSE a) \in V
        <4> DEFINE p == r[n]
        <4> HIDE DEF p, T
        <4>1. CASE p \in 1..Len(a)
          <5>1. RemoveAt(a, p) \in Seq(T)
            BY <4>1, RemoveAtSpec
          <5> QED BY <4>1, <5>1 DEF p
        <4> QED BY <4>1 DEF p
      <3> HIDE DEF V, K
      <3> QED BY <3>1
    <2>2. PICK g \in [0..K -> V] : g[0] = s /\ \A n \in 1..K : g[n] = next[n][g[n - 1]]
      <3> HIDE DEF next, K, V
      <3>1. \E f \in [0..K -> V] : Recurs(f, s, next, K)
        BY <1>1, <2>1, RecursionOverInterval
      <3> QED BY <3>1 DEF Recurs
    <2>3. ASSUME NEW n \in 1..K
          PROVE  g[n] = IF r[n] \in 1..Len(g[n - 1]) THEN RemoveAt(g[n - 1], r[n]) ELSE g[n - 1]
      <3>1. n - 1 \in 0..K
        BY <1>1
      <3>2. g[n - 1] \in V
        BY ONLY <3>1, g \in [0..K -> V]
      <3> QED BY <2>2, <3>2
    <2> HIDE DEF next, V, K, N
    <2>4. \A n \in 1..K : r[n] \in 1..Len(g[n - 1])
      BY <1>1, <1>3, <2>2, <2>3, RemoveAll DEF N
    <2>5. ASSUME NEW n \in 0..K
          PROVE  g[n] = IF n = 0 THEN s ELSE RemoveAt(g[n - 1], r[n])
      <3>1. n # 0 => n \in 1..K
        BY <1>1
      <3> QED BY <2>2, <2>3, <2>4, <3>1
    <2>6. Is(g)
      BY <2>5 DEF r
    <2> QED BY <2>6
  <1>6. Is(after)
    <2> HIDE DEF Is
    <2> QED BY <1>5
  <1>7. WithoutPlaces(s, places) = after[K]
    BY DEF WithoutPlaces
  <1> HIDE DEF after
  <1>8. after[0] = s /\ \A n \in 1..K : after[n] = RemoveAt(after[n - 1], r[n])
    <2>1. ASSUME NEW n \in 0..K
          PROVE  after[n] = IF n = 0 THEN s ELSE RemoveAt(after[n - 1], r[n])
      BY <1>6 DEF r
    <2>2. 0 \in 0..K /\ \A n \in 1..K : n \in 0..K /\ n # 0
      BY <1>1
    <2> QED BY <2>1, <2>2
  <1> HIDE DEF K, N
  <1>9. LeftAfter(after[K], s, r, K)
    <2>1. \A n \in 0..K : LeftAfter(after[n], s, r, n)
      BY <1>1, <1>3, <1>8, RemoveAll DEF N
    <2> QED BY <1>1, <2>1
  <1> DEFINE b == after[K]
             left == {s[i] : i \in DOMAIN s \ ToSet(places)}
  <1> HIDE DEF b
  <1>10. IsList(b) /\ DOMAIN b = 1..Len(b)
    <2>1. b \in Seq(T)
      BY <1>9 DEF LeftAfter, b
    <2> HIDE DEF T
    <2> QED BY <2>1, ListOf
  <1>11. ASSUME NEW i \in 1..N, i \notin ToSet(places) PROVE s[i] \in ToSet(b)
    <2>1. \E j \in 1..Len(b) : b[j] = s[i]
      BY <1>4, <1>9, <1>11 DEF LeftAfter, b, N
    <2> QED BY <1>10, <2>1 DEF ToSet
  <1>12. ASSUME NEW x \in ToSet(b) PROVE x \in left
    <2>1. PICK j \in 1..Len(b) : b[j] = x
      BY <1>10 DEF ToSet
    <2>2. PICK i \in 1..N : b[j] = s[i] /\ \A m \in 1..K : r[m] # i
      BY <1>9 DEF LeftAfter, b, N
    <2> QED BY <1>1, <1>4, <2>1, <2>2
  <1>13. left \subseteq ToSet(b)
    BY <1>1, <1>11
  <1> HIDE DEF left
  <1>14. ToSet(b) = left
    BY <1>12, <1>13
  <1> QED BY <1>7, <1>10, <1>14 DEF b, left

\* The candidates for a call are all the methods of its name in one class.
LEMMA CandidatesSpec ==
  ASSUME NEW e, NEW corpus, NEW nodes, IsList(nodes)
  PROVE  /\ IsList(Candidates(e, corpus, nodes))
         /\ Candidates(e, corpus, nodes) # <<>> =>
              \E type : MethodIds(Candidates(e, corpus, nodes), nodes, type, ParseCall(e.target).name)
  <1> DEFINE call == ParseCall(e.target)
             type == CalleeType(call.callee, e.source, nodes,
                                ImportMapOf(corpus, BeforeHash(e.source)))
  <1>1. Candidates(e, corpus, nodes)
          = IF type = NoType THEN <<>> ELSE MethodsNamed(nodes, type, call.name)
    BY DEF Candidates
  <1> DEFINE ids == MethodsNamed(nodes, type, call.name)
  <1>2. IsList(<<>>)
    BY OneElement
  <1> HIDE DEF type, call
  <1>3. MethodIds(ids, nodes, type, call.name)
    BY MethodsNamedSpec
  <1> HIDE DEF ids
  <1> QED BY <1>1, <1>2, <1>3 DEF MethodIds, ids, call

\* The edges that are resolved, numbered, in the order of the list.
LEMMA PromotedPlaces ==
  ASSUME NEW s, IsList(s), NEW S \in SUBSET (DOMAIN s), NEW k, k = Keep([i \in DOMAIN s |-> i], S)
  PROVE  /\ k \in Seq(1..Len(s)) /\ IsList(k) /\ ToSet(k) = S
         /\ \A i, j \in 1..Len(k) : i < j => k[i] < k[j]
  <1> DEFINE N == Len(s)
             D == 1..N
             t == [i \in DOMAIN s |-> i]
  <1>1. N \in Nat /\ DOMAIN s = D
    BY ListDef
  <1>2. t \in Seq(D) /\ Len(t) = N /\ ToSet(t) = D /\ \A i \in D : t[i] = i
    BY <1>1 DEF ToSet
  <1> HIDE DEF t, N
  <1>3. k \in Seq(D) /\ \E e : KeptBy(e, k, t, S, Len(t))
    <2> HIDE DEF D
    <2>1. k = Keep(t, S)
      BY DEF t
    <2> QED BY <1>2, <2>1, KeepSpec
  <1>4. IsList(k) /\ ToSet(k) = S
    <2>1. IsList(t)
      <3> HIDE DEF D
      <3> QED BY <1>2, ListOf
    <2>2. ToSet(t) \cap S = S
      BY <1>1, <1>2
    <2> QED BY <2>1, <2>2, KeepList DEF t
  <1>5. PICK e : KeptBy(e, k, t, S, N)
    BY <1>2, <1>3
  <1>6. ASSUME NEW i \in 1..Len(k), NEW j \in 1..Len(k), i < j PROVE k[i] < k[j]
    <2>1. e[i] \in D /\ e[j] \in D /\ e[i] < e[j] /\ k[i] = t[e[i]] /\ k[j] = t[e[j]]
      BY <1>5, <1>6 DEF KeptBy
    <2> QED BY <1>2, <2>1
  <1> QED BY <1>3, <1>4, <1>6 DEF N

\* An edge stands for a call that has candidates.
Promotes(e, corpus, nodes) == e.kind = "calls_unresolved" /\ Candidates(e, corpus, nodes) # <<>>

\* An edge stays, or it becomes one to each candidate.
Resolution(x, s, corpus, nodes) ==
  \/ x \in ToSet(s) /\ ~ Promotes(x, corpus, nodes)
  \/ \E e \in ToSet(s) : /\ Promotes(e, corpus, nodes)
                         /\ \E m \in ToSet(Candidates(e, corpus, nodes)) :
                              x = CallsResolvedEdge(e.source, m)

\* What the resolution of calls leaves and adds, and that it is all.
LEMMA ResolveCallsExact ==
  ASSUME NEW s, IsList(s), NEW corpus, NEW nodes, IsList(nodes), NEW x
  PROVE  x \in ToSet(ResolveCalls(s, corpus, nodes)) <=> Resolution(x, s, corpus, nodes)
  <1> DEFINE Found(i) == IF s[i].kind = "calls_unresolved"
                         THEN Candidates(s[i], corpus, nodes)
                         ELSE <<>>
             S == {i \in DOMAIN s : Found(i) # <<>>}
             k == Keep([i \in DOMAIN s |-> i], S)
             New(i) == [j \in DOMAIN Found(i) |-> CallsResolvedEdge(s[i].source, Found(i)[j])]
             f == [n \in DOMAIN k |-> <<>> \o New(k[n])]
             left == WithoutPlaces(s, k)
             more == FlattenSeq(f)
  <1>1. ResolveCalls(s, corpus, nodes) = left \o FlattenSeq(<<>> \o f)
    BY DEF ResolveCalls, Each
  <1>2. \A i : IsList(Found(i))
    BY CandidatesSpec, OneElement
  <1>3. ASSUME NEW i \in DOMAIN s
        PROVE  /\ i \in S <=> Promotes(s[i], corpus, nodes)
               /\ i \in S => Found(i) = Candidates(s[i], corpus, nodes)
    BY DEF Promotes
  <1>4. /\ k \in Seq(1..Len(s)) /\ IsList(k) /\ ToSet(k) = S
        /\ \A h, j \in 1..Len(k) : h < j => k[h] < k[j]
    <2>1. S \in SUBSET (DOMAIN s)
      OBVIOUS
    <2> HIDE DEF S
    <2> QED BY <2>1, PromotedPlaces
  <1>5. S \subseteq DOMAIN s
    OBVIOUS
  <1> HIDE DEF Found, S, k
  <1>6. \A n \in DOMAIN k : f[n] = New(k[n]) /\ IsList(f[n])
    <2> SUFFICES ASSUME NEW n \in DOMAIN k PROVE f[n] = New(k[n]) /\ IsList(f[n])
      OBVIOUS
    <2> DEFINE g == New(k[n])
    <2>1. f[n] = <<>> \o g /\ IsList(Found(k[n])) /\ g = [j \in DOMAIN Found(k[n]) |-> g[j]]
      BY <1>2
    <2> HIDE DEF g, f
    <2>2. IsList(g) /\ <<>> \o g = g
      BY <2>1, EachList
    <2> QED BY <2>1, <2>2 DEF g
  <1>7. f = [n \in DOMAIN k |-> f[n]]
    OBVIOUS
  <1> HIDE DEF f
  <1>8. IsList(f) /\ <<>> \o f = f /\ DOMAIN f = DOMAIN k
    BY <1>4, <1>7, EachList
  <1>9. IsList(more) /\ ToSet(more) = UNION {ToSet(f[n]) : n \in DOMAIN f}
    BY <1>6, <1>8, FlattenList
  <1>10. IsList(left) /\ ToSet(left) = {s[i] : i \in DOMAIN s \ S}
    <2> HIDE DEF New, more
    <2> QED BY <1>4, WithoutPlacesSpec
  <1>11. ASSUME NEW i
         PROVE  ToSet(New(i)) = {CallsResolvedEdge(s[i].source, m) : m \in ToSet(Found(i))}
    BY DEF ToSet
  <1> HIDE DEF left, more, New
  <1>12. ToSet(ResolveCalls(s, corpus, nodes)) = ToSet(left) \cup ToSet(more)
    BY <1>1, <1>8, <1>9, <1>10, ConcatList DEF more
  <1>13. x \in ToSet(left) <=> x \in ToSet(s) /\ ~ Promotes(x, corpus, nodes)
    BY <1>3, <1>10 DEF ToSet
  <1>14. x \in ToSet(more) <=> \E i \in S : x \in ToSet(New(i))
    <2>1. \A i \in S : \E n \in DOMAIN k : k[n] = i
      BY <1>4 DEF ToSet
    <2>2. \A n \in DOMAIN k : k[n] \in S
      BY <1>4 DEF ToSet
    <2> QED BY <1>6, <1>8, <1>9, <2>1, <2>2
  <1>15. (\E i \in S : x \in ToSet(New(i))) <=>
           \E e \in ToSet(s) : /\ Promotes(e, corpus, nodes)
                              /\ \E m \in ToSet(Candidates(e, corpus, nodes)) :
                                   x = CallsResolvedEdge(e.source, m)
    <2>1. ASSUME NEW i \in S, x \in ToSet(New(i))
          PROVE  \E e \in ToSet(s) : /\ Promotes(e, corpus, nodes)
                                    /\ \E m \in ToSet(Candidates(e, corpus, nodes)) :
                                         x = CallsResolvedEdge(e.source, m)
      <3>1. i \in DOMAIN s /\ s[i] \in ToSet(s) /\ Promotes(s[i], corpus, nodes)
        BY <1>3, <1>5 DEF ToSet
      <3>2. \E m \in ToSet(Candidates(s[i], corpus, nodes)) : x = CallsResolvedEdge(s[i].source, m)
        BY <1>3, <1>5, <1>11, <2>1
      <3> QED BY <3>1, <3>2
    <2>2. ASSUME NEW e \in ToSet(s), Promotes(e, corpus, nodes),
                 NEW m \in ToSet(Candidates(e, corpus, nodes)), x = CallsResolvedEdge(e.source, m)
          PROVE  \E i \in S : x \in ToSet(New(i))
      <3>1. PICK i \in DOMAIN s : s[i] = e
        BY DEF ToSet
      <3>2. i \in S /\ m \in ToSet(Found(i))
        BY <1>3, <2>2, <3>1
      <3> QED BY <1>11, <2>2, <3>1, <3>2
    <2> QED BY <2>1, <2>2
  <1> QED BY <1>12, <1>13, <1>14, <1>15 DEF Resolution

\* An edge stays; or it stands for a call, and becomes one to each candidate.
LEMMA ResolveCallsSpec ==
  ASSUME NEW s, IsList(s), NEW corpus, NEW nodes, IsList(nodes),
         NEW e \in ToSet(s)
  PROVE  LET left == ToSet(ResolveCalls(s, corpus, nodes))
         IN \/ e \in left
            \/ /\ e.kind = "calls_unresolved" /\ Candidates(e, corpus, nodes) # <<>>
               /\ \A m \in ToSet(Candidates(e, corpus, nodes)) :
                    CallsResolvedEdge(e.source, m) \in left
  BY ResolveCallsExact DEF Resolution, Promotes

\* The name of a call on a name is its last word.
LEMMA ParsedName ==
  ASSUME NEW call, IsList(call), ~Contains(call, "()")
  PROVE  ParseCall(call).name = Last(call)
  <1> DEFINE path == IF Len(call) > 1 /\ Head(call) = "this" THEN Tail(call) ELSE call
  <1>1. SelectInSeq(call, LAMBDA x : x = "()") = 0
    BY DEF SelectInSeq, Contains
  <1>2. ParseCall(call).name = Last(path)
    BY <1>1 DEF ParseCall
  <1>3. Last(path) = Last(call)
    <2>1. CASE Len(call) > 1
      <3>1. call \in Seq(ToSet(call)) /\ Len(call) \in Nat
        BY ListDef
      <3>2. Len(Tail(call)) = Len(call) - 1 /\ Tail(call)[Len(call) - 1] = call[Len(call)]
        BY <2>1, <3>1
      <3> QED BY <3>2 DEF Last
    <2>2. CASE ~ (Len(call) > 1)
      BY <2>2
    <2> QED BY <2>1, <2>2
  <1> QED BY <1>2, <1>3

\* In a graph that is assembled of a corpus, every call on a name has a trace.
LEMMA AssembleTraces ==
  ASSUME NEW corpus, IsCorpus(corpus), NEW c \in ToSet(corpus), NEW m \in ToSet(c.parsed.methods),
         NEW call \in ToSet(m.calls), ~Contains(call, "()")
  PROVE  HasTrace(Assemble(corpus), m.id, call)
  <1> DEFINE nodes == AllNodes(corpus)
             ids == NodeIds(nodes)
             own == AllEdges(corpus)
             cross == CrossEdges(corpus, ids)
             s == own \o cross
             e == CallsUnresolvedEdge(m.id, call)
             graph == Assemble(corpus)
  <1>1. graph.nodes = ToSet(DedupNodes(nodes)) /\ graph.edges = ToSet(ResolveCalls(s, corpus, nodes))
    BY DEF Assemble
  <1>2. /\ IsList(nodes) /\ (\A n \in ToSet(nodes) : NodeForm(n))
        /\ IsList(own) /\ IsList(cross)
    BY AllNodesGood, AllEdgesGood, CrossEdgesExact
  <1>0. e \in ToSet(own)
    <2>1. PICK i \in DOMAIN corpus : corpus[i] = c
      BY DEF ToSet
    <2>2. e \in ToSet(c.fragment.edges)
      BY DEF IsCorpus, Calling
    <2> QED BY <2>1, <2>2, AllEdgesGood
  <1>3. IsList(call) /\ e.source = m.id /\ e.target = call
    BY DEF IsCorpus, IsEnvelope, Members, GoodMethod, CallsUnresolvedEdge, Edge
  <1> HIDE DEF nodes, ids, own, cross, graph
  <1>4. IsList(s) /\ e \in ToSet(s)
    BY <1>0, <1>2, ConcatList
  <1> HIDE DEF s
  <1>5. CASE e \in graph.edges
    BY <1>5 DEF HasTrace, e, graph
  <1>6. CASE e \notin graph.edges
    <2> DEFINE candidates == Candidates(e, corpus, nodes)
    <2>0. IsList(candidates)
      BY <1>2, CandidatesSpec
    <2>1. /\ candidates # <<>>
          /\ \A id \in ToSet(candidates) : CallsResolvedEdge(m.id, id) \in graph.edges
      <3> HIDE DEF e
      <3> QED BY <1>1, <1>2, <1>3, <1>4, <1>6, ResolveCallsSpec
    <2>2. PICK type : MethodIds(candidates, nodes, type, Last(call))
      <3>1. ParseCall(e.target).name = Last(call)
        BY <1>3, ParsedName
      <3> HIDE DEF e
      <3>2. \E type : MethodIds(candidates, nodes, type, ParseCall(e.target).name)
        BY <1>2, <2>1, CandidatesSpec
      <3> QED BY <3>1, <3>2
    <2> HIDE DEF candidates, e
    <2>3. PICK id : id \in ToSet(candidates)
      <3>1. candidates \in Seq(ToSet(candidates)) /\ Len(candidates) \in Nat
            /\ DOMAIN candidates = 1..Len(candidates)
        BY <2>0, ListDef
      <3>2. Len(candidates) # 0
        BY <2>1, <3>1
      <3>3. 1 \in DOMAIN candidates
        BY <3>1, <3>2
      <3> QED BY <3>3 DEF ToSet
    <2>4. PICK x \in ToSet(nodes) : /\ x.id = id /\ x.kind = "method" /\ BeforeHash(x.id) = type
                                    /\ x.name = Last(call)
      BY <2>2, <2>3 DEF MethodIds
    <2>5. /\ graph.nodes \subseteq ToSet(nodes)
          /\ \A n \in ToSet(nodes) : \E d \in graph.nodes : d.id = n.id
      BY <1>1, <1>2, DedupSpec
    <2>6. PICK d \in graph.nodes : d.id = x.id
      BY <2>5
    <2>7. d.kind = "method" /\ d.name = Last(call)
      <3>1. MethodForm(x.id, Last(call)) /\ NodeForm(d)
        BY <1>2, <2>4, <2>5, <2>6 DEF NodeForm
      <3> QED BY <2>6, <3>1, FormsDiffer DEF NodeForm
    <2>8. \A n \in graph.nodes : n.kind = "method" /\ n.name = Last(call) /\ BeforeHash(n.id) = type
                                   => CallsResolvedEdge(m.id, n.id) \in graph.edges
      BY <2>1, <2>2, <2>5 DEF MethodIds
    <2>9. type = BeforeHash(d.id)
      BY <2>4, <2>6
    <2>10. HasTrace(graph, m.id, call)
      BY <2>7, <2>8, <2>9 DEF HasTrace
    <2> QED BY <2>10 DEF graph
  <1> QED BY <1>5, <1>6 DEF graph

\* The type of every file is in the graph, under the module of the file.
LEMMA AssembleHasType ==
  ASSUME NEW corpus, IsCorpus(corpus), NEW c \in ToSet(corpus), NEW module,
         HasType(c.fragment, c.parsed, module)
  PROVE  LET graph == Assemble(corpus)
         IN /\ \E n \in graph.nodes : n.id = c.parsed.id
            /\ ContainsEdge(module, c.parsed.id) \in graph.edges
  <1> DEFINE nodes == AllNodes(corpus)
             ids == NodeIds(nodes)
             own == AllEdges(corpus)
             cross == CrossEdges(corpus, ids)
             s == own \o cross
             e == ContainsEdge(module, c.parsed.id)
             graph == Assemble(corpus)
  <1>1. graph.nodes = ToSet(DedupNodes(nodes)) /\ graph.edges = ToSet(ResolveCalls(s, corpus, nodes))
    BY DEF Assemble
  <1>2. IsList(nodes) /\ IsList(own) /\ IsList(cross)
    BY AllNodesGood, AllEdgesGood, CrossEdgesExact
  <1>3. PICK i \in DOMAIN corpus : corpus[i] = c
    BY DEF ToSet
  <1>4. e \in ToSet(own) /\ \E n \in ToSet(nodes) : n.id = c.parsed.id
    BY <1>3, AllNodesGood, AllEdgesGood DEF HasType
  <1>5. e.kind # "calls_unresolved"
    BY DEF ContainsEdge, Edge
  <1> HIDE DEF nodes, ids, own, cross, graph, e
  <1>6. IsList(s) /\ e \in ToSet(s)
    BY <1>2, <1>4, ConcatList
  <1> HIDE DEF s
  <1>7. e \in graph.edges
    BY <1>1, <1>2, <1>5, <1>6, ResolveCallsSpec
  <1>8. \E n \in graph.nodes : n.id = c.parsed.id
    BY <1>1, <1>2, <1>4, DedupSpec
  <1> QED BY <1>7, <1>8 DEF graph, e

(***************************************************************************)
(* Files that have nothing in common                                       *)
(***************************************************************************)
\* An id starts with a name.
Begins(id, s) == DOMAIN s \subseteq DOMAIN id /\ \A i \in DOMAIN s : id[i] = s[i]

\* An id tells whose it is: it does not begin with two names that are apart.
LEMMA OneBeginning ==
  ASSUME NEW id, NEW s, NEW t, Begins(id, s), Begins(id, t)
  PROVE  ~Apart(s, t)
  BY DEF Begins, Apart

\* The ids of all nodes of a file begin with that of its type.
LEMMA NodeBegins ==
  ASSUME NEW p, IsEnvelope(p), NEW n, IsTypeNode(n, p) \/ IsMemberNode(n, p)
  PROVE  Begins(n.id, p.id)
  <1> DEFINE t == p.id
  <1>1. IsList(t) /\ \A s : Begins(s, s)
    BY DEF IsEnvelope, OtherForm, Begins
  <1>2. ASSUME NEW f \in ToSet(p.fields) PROVE Begins(f.id, t)
    <2>1. f.id = Append(t, f.name)
      BY DEF IsEnvelope, Members, GoodField
    <2> DEFINE T == ToSet(t) \cup {f.name}
               id == Append(t, f.name)
    <2>2. t \in Seq(T) /\ f.name \in T
      BY <1>1, SeqOver
    <2> HIDE DEF T, t
    <2>3. DOMAIN t \subseteq DOMAIN id /\ \A i \in DOMAIN t : id[i] = t[i]
      BY <2>2
    <2> QED BY <2>1, <2>3 DEF Begins
  <1>3. ASSUME NEW m \in ToSet(p.methods) PROVE Begins(m.id, t)
    <2>1. PICK signature : IsList(signature) /\ m.id = MethodId(t, m.name, signature)
      BY DEF IsEnvelope, Members, GoodMethod
    <2> DEFINE mark == <<Hash, m.name>>
               u == t \o mark
               id == u \o signature
    <2>2. IsList(mark)
      <3>1. mark \in Seq({Hash, m.name})
        OBVIOUS
      <3> QED BY <3>1, ListOf
    <2>3. m.id = id
      BY <2>1 DEF MethodId
    <2> HIDE DEF t, mark
    <2>4. Joins(u, t, mark)
      BY <1>1, <2>2, ConcatPlaces
    <2>5. IsList(u)
      BY <2>4 DEF Joins
    <2> HIDE DEF u
    <2>6. Joins(id, u, signature)
      BY <2>1, <2>5, ConcatPlaces
    <2> HIDE DEF id
    <2>7. Begins(id, u) /\ Begins(u, t)
      <3>1. \A i \in 1..Len(t) : i \in DOMAIN u /\ u[i] = t[i]
        BY <2>4 DEF Joins
      <3>2. \A i \in 1..Len(u) : i \in DOMAIN id /\ id[i] = u[i]
        BY <2>6 DEF Joins
      <3>3. DOMAIN t = 1..Len(t) /\ DOMAIN u = 1..Len(u)
        BY <2>4, <2>6 DEF Joins
      <3> QED BY <3>1, <3>2, <3>3 DEF Begins
    <2> QED BY <2>3, <2>7 DEF Begins
  <1>4. CASE IsTypeNode(n, p)
    BY <1>1, <1>4 DEF IsTypeNode
  <1>5. CASE IsMemberNode(n, p)
    BY <1>2, <1>3, <1>5 DEF IsMemberNode, FieldNode, MethodNode
  <1> QED BY <1>4, <1>5

\* The types of the files have different names, as have those below them.
Proper(corpus) ==
  /\ IsCorpus(corpus)
  /\ \A c \in ToSet(corpus) : IsFragment(c.fragment, c.parsed)
  /\ \A i, j \in DOMAIN corpus : i # j => Apart(corpus[i].parsed.id, corpus[j].parsed.id)

\* The nodes of a file bear its name.
LEMMA ProperNodes ==
  ASSUME NEW corpus, Proper(corpus), NEW c \in ToSet(corpus), NEW n \in ToSet(c.fragment.nodes)
  PROVE  Begins(n.id, c.parsed.id) /\ (IsTypeNode(n, c.parsed) \/ IsMemberNode(n, c.parsed))
  <1>1. IsEnvelope(c.parsed)
    BY DEF Proper, IsCorpus
  <1>2. PICK i \in DOMAIN c.fragment.nodes : c.fragment.nodes[i] = n
    BY DEF ToSet
  <1>3. IsTypeNode(n, c.parsed) \/ IsMemberNode(n, c.parsed)
    BY <1>2 DEF Proper, IsFragment
  <1> QED BY <1>1, <1>3, NodeBegins

\* A name belongs to one file.
LEMMA ProperOnce ==
  ASSUME NEW corpus, Proper(corpus), NEW c \in ToSet(corpus), NEW d \in ToSet(corpus),
         ~Apart(c.parsed.id, d.parsed.id)
  PROVE  c = d
  BY DEF Proper, ToSet

\* A set whose nodes are all of one file.
OfOneFile(corpus, S) ==
  \A c, d \in ToSet(corpus) :
    ToSet(c.fragment.nodes) \cap S # {} /\ ToSet(d.fragment.nodes) \cap S # {}
      => ~Apart(c.parsed.id, d.parsed.id)

\* What is looked up in such a set is looked up in that file.
LEMMA FromOneFile ==
  ASSUME NEW corpus, Proper(corpus), NEW S, OfOneFile(corpus, S),
         NEW c \in ToSet(corpus), ToSet(c.fragment.nodes) \cap S # {}
  PROVE  Keep(AllNodes(corpus), S) = Keep(c.fragment.nodes, S)
  <1> DEFINE f == [i \in DOMAIN corpus |-> corpus[i].fragment.nodes]
  <1>1. AllNodes(corpus) = FlattenSeq(<<>> \o f)
    BY DEF AllNodes, Each
  <1>2. /\ IsList(corpus) /\ f = [i \in DOMAIN corpus |-> f[i]]
        /\ \A i \in DOMAIN corpus : f[i] = corpus[i].fragment.nodes /\ IsList(f[i])
    BY DEF Proper, IsCorpus, IsPart, ToSet
  <1>3. PICK p \in DOMAIN corpus : corpus[p] = c
    BY DEF ToSet
  <1> HIDE DEF f
  <1>4. IsList(f) /\ <<>> \o f = f /\ DOMAIN f = DOMAIN corpus
    BY <1>2, EachList
  <1>5. ASSUME NEW i \in DOMAIN f, i # p PROVE ToSet(f[i]) \cap S = {}
    <2>1. Apart(corpus[i].parsed.id, corpus[p].parsed.id) /\ corpus[i] \in ToSet(corpus)
      BY <1>4, <1>5 DEF Proper, ToSet
    <2> QED BY <1>2, <1>3, <1>4, <2>1 DEF OfOneFile
  <1>6. Keep(FlattenSeq(f), S) = Keep(f[p], S)
    BY <1>2, <1>3, <1>4, <1>5, KeepFlat
  <1> QED BY <1>1, <1>2, <1>3, <1>4, <1>6

\* The same files in another order.
Reordered(a, b) == Proper(a) /\ Proper(b) /\ ToSet(a) = ToSet(b)

\* They have the same nodes and edges of their own.
LEMMA SameNodes ==
  ASSUME NEW a, NEW b, Reordered(a, b)
  PROVE  /\ ToSet(AllNodes(a)) = ToSet(AllNodes(b)) /\ NodeIds(AllNodes(a)) = NodeIds(AllNodes(b))
         /\ ToSet(AllEdges(a)) = ToSet(AllEdges(b))
  <1>1. ASSUME NEW u, NEW v, Reordered(u, v)
        PROVE  ToSet(AllNodes(u)) \subseteq ToSet(AllNodes(v)) /\ ToSet(AllEdges(u)) \subseteq ToSet(AllEdges(v))
    <2>1. IsCorpus(u) /\ IsCorpus(v) /\ ToSet(u) = ToSet(v)
      BY <1>1 DEF Reordered, Proper
    <2>2. ASSUME NEW x \in ToSet(AllNodes(u)) PROVE x \in ToSet(AllNodes(v))
      <3>1. PICK c \in ToSet(v) : x \in ToSet(c.fragment.nodes)
        BY <2>1, AllNodesGood
      <3>2. PICK i \in DOMAIN v : v[i] = c
        BY DEF ToSet
      <3> QED BY <2>1, <3>1, <3>2, AllNodesGood
    <2>3. ASSUME NEW x \in ToSet(AllEdges(u)) PROVE x \in ToSet(AllEdges(v))
      <3>1. PICK c \in ToSet(v) : x \in ToSet(c.fragment.edges)
        BY <2>1, AllEdgesGood
      <3>2. PICK i \in DOMAIN v : v[i] = c
        BY DEF ToSet
      <3> QED BY <2>1, <3>1, <3>2, AllEdgesGood
    <2> QED BY <2>2, <2>3
  <1>2. Reordered(b, a)
    BY DEF Reordered
  <1>3. ToSet(AllNodes(a)) = ToSet(AllNodes(b)) /\ ToSet(AllEdges(a)) = ToSet(AllEdges(b))
    BY <1>1, <1>2
  <1>4. ASSUME NEW s PROVE NodeIds(s) = {n.id : n \in ToSet(s)}
    BY DEF NodeIds, ToSet
  <1> QED BY <1>3, <1>4

\* What is looked up in one file is found in the same order.
LEMMA SameKept ==
  ASSUME NEW a, NEW b, Reordered(a, b), NEW S, OfOneFile(a, S)
  PROVE  Keep(AllNodes(a), S) = Keep(AllNodes(b), S)
  <1>1. Proper(a) /\ Proper(b) /\ IsCorpus(a) /\ IsCorpus(b) /\ ToSet(a) = ToSet(b) /\ OfOneFile(b, S)
    BY DEF Reordered, Proper, OfOneFile
  <1>2. CASE \E c \in ToSet(a) : ToSet(c.fragment.nodes) \cap S # {}
    BY <1>1, <1>2, FromOneFile
  <1>3. CASE \A c \in ToSet(a) : ToSet(c.fragment.nodes) \cap S = {}
    <2>1. /\ IsList(AllNodes(a)) /\ ToSet(AllNodes(a)) \cap S = {}
          /\ IsList(AllNodes(b)) /\ ToSet(AllNodes(b)) \cap S = {}
      BY <1>1, <1>3, AllNodesGood
    <2> QED BY <2>1, KeepNone
  <1> QED BY <1>2, <1>3

\* Nodes with one id are all of one file.
LEMMA SameIdOneFile ==
  ASSUME NEW corpus, Proper(corpus), NEW id, NEW S, \A n \in S : n.id = id
  PROVE  OfOneFile(corpus, S)
  <1> SUFFICES ASSUME NEW c \in ToSet(corpus), NEW d \in ToSet(corpus),
                      NEW m \in ToSet(c.fragment.nodes) \cap S, NEW n \in ToSet(d.fragment.nodes) \cap S
               PROVE  ~Apart(c.parsed.id, d.parsed.id)
    BY DEF OfOneFile
  <1>1. Begins(id, c.parsed.id) /\ Begins(id, d.parsed.id)
    <2>1. m.id = id /\ n.id = id
      OBVIOUS
    <2> QED BY <2>1, ProperNodes
  <1> QED BY <1>1, OneBeginning

\* The fields that the assembler looks for.
FieldsOf(nodes, class, name) ==
  {n \in ToSet(nodes) : n.kind = "field" /\ Front(n.id) = class /\ n.name = name}

\* They are all of one file, too.
LEMMA FieldsOneFile ==
  ASSUME NEW corpus, Proper(corpus), NEW nodes, NEW class, NEW name
  PROVE  OfOneFile(corpus, FieldsOf(nodes, class, name))
  <1> DEFINE S == FieldsOf(nodes, class, name)
  <1>1. ASSUME NEW c \in ToSet(corpus), NEW n \in ToSet(c.fragment.nodes) \cap S
        PROVE  c.parsed.id = class
    <2> DEFINE t == c.parsed.id
    <2>1. IsEnvelope(c.parsed) /\ IsList(t)
      BY DEF Proper, IsCorpus, IsEnvelope, OtherForm
    <2>2. n.kind = "field" /\ Front(n.id) = class
      BY DEF FieldsOf
    <2>3. IsMemberNode(n, c.parsed)
      <3>1. "field" \notin Kinds
        BY DEF Kinds
      <3> QED BY <2>1, <2>2, <3>1, ProperNodes DEF IsTypeNode, IsEnvelope
    <2>4. PICK f \in ToSet(c.parsed.fields) : n = FieldNode(f)
      BY <2>2, <2>3 DEF IsMemberNode, MethodNode
    <2>5. n.id = Append(t, f.name)
      BY <2>1, <2>4 DEF FieldNode, IsEnvelope, Members, GoodField
    <2> DEFINE T == ToSet(t) \cup {f.name}
    <2>6. t \in Seq(T) /\ f.name \in T
      BY <2>1, SeqOver
    <2> HIDE DEF T, t
    <2>7. Front(Append(t, f.name)) = t
      BY <2>6 DEF Front
    <2> QED BY <2>2, <2>5, <2>7 DEF t
  <1>2. ~Apart(class, class)
    BY DEF Apart
  <1> HIDE DEF S
  <1> QED BY <1>1, <1>2 DEF OfOneFile, S

\* So the variables that the assembler looks up do not depend on the order of
\* the files.
LEMMA SameVariables ==
  ASSUME NEW a, NEW b, Reordered(a, b), NEW class, NEW method, NEW name
  PROVE  /\ FieldsNamed(AllNodes(a), class, name) = FieldsNamed(AllNodes(b), class, name)
         /\ ParametersNamed(AllNodes(a), method, name) = ParametersNamed(AllNodes(b), method, name)
  <1> DEFINE s == AllNodes(a)
             t == AllNodes(b)
             K(nodes) == {n \in ToSet(nodes) : n.kind = "method" /\ n.id = method}
             P(known) == Keep(Last(known).parameters, {p \in ToSet(Last(known).parameters) : p.name = name})
  <1>1. Proper(a) /\ ToSet(s) = ToSet(t)
    BY SameNodes DEF Reordered
  <1>2. \A nodes : /\ FieldsNamed(nodes, class, name) = Keep(nodes, FieldsOf(nodes, class, name))
                   /\ ParametersNamed(nodes, method, name) = P(Keep(nodes, K(nodes)))
    BY DEF FieldsNamed, FieldsOf, ParametersNamed
  <1>3. K(s) = K(t) /\ FieldsOf(s, class, name) = FieldsOf(t, class, name)
    BY <1>1 DEF FieldsOf
  <1>4. \A n \in K(s) : n.id = method
    OBVIOUS
  <1> HIDE DEF K, P
  <1>5. OfOneFile(a, K(s)) /\ OfOneFile(a, FieldsOf(s, class, name))
    BY <1>1, <1>4, SameIdOneFile, FieldsOneFile
  <1>6. /\ Keep(s, K(s)) = Keep(t, K(s))
        /\ Keep(s, FieldsOf(s, class, name)) = Keep(t, FieldsOf(s, class, name))
    BY <1>5, SameKept
  <1> HIDE DEF s, t
  <1>7. /\ FieldsNamed(s, class, name) = FieldsNamed(t, class, name)
        /\ ParametersNamed(s, method, name) = ParametersNamed(t, method, name)
    BY <1>2, <1>3, <1>6
  <1> QED BY <1>7 DEF s, t

\* The imports of a file are those of its envelope.
OwnImports(id, map, corpus) ==
  \/ map = <<>> /\ \A c \in ToSet(corpus) : c.parsed.id # id
  \/ \E c \in ToSet(corpus) : c.parsed.id = id /\ map = ImportMap(c.parsed)

\* The assembler finds these.
LEMMA ImportsSpec ==
  ASSUME NEW corpus, Proper(corpus), NEW id
  PROVE  OwnImports(id, ImportMapOf(corpus, id), corpus)
  <1> DEFINE S == {c \in ToSet(corpus) : c.parsed.id = id}
             known == Keep(corpus, S)
  <1>1. IsList(corpus) /\ ToSet(corpus) \cap S = S
    BY DEF Proper, IsCorpus
  <1>2. ImportMapOf(corpus, id) = IF known = <<>> THEN <<>> ELSE ImportMap(Last(known).parsed)
    BY DEF ImportMapOf
  <1>3. \A c : c \in S <=> c \in ToSet(corpus) /\ c.parsed.id = id
    OBVIOUS
  <1> HIDE DEF S
  <1>4. IsList(known) /\ ToSet(known) = S
    BY <1>1, KeepList
  <1> HIDE DEF known
  <1>5. (known = <<>> <=> S = {}) /\ (known # <<>> => Last(known) \in S)
    BY <1>4, EmptyList
  <1> QED BY <1>2, <1>3, <1>5 DEF OwnImports

\* It finds the same in any order of the files.
LEMMA SameImports ==
  ASSUME NEW a, NEW b, Reordered(a, b), NEW id
  PROVE  ImportMapOf(a, id) = ImportMapOf(b, id)
  <1>1. OwnImports(id, ImportMapOf(a, id), a) /\ OwnImports(id, ImportMapOf(b, id), b)
    BY ImportsSpec DEF Reordered
  <1>2. ToSet(a) = ToSet(b)
    BY DEF Reordered
  <1>3. ASSUME NEW c \in ToSet(a), NEW d \in ToSet(a), c.parsed.id = id, d.parsed.id = id
        PROVE  c = d
    <2>1. ~Apart(c.parsed.id, d.parsed.id)
      BY <1>3 DEF Apart
    <2> QED BY <2>1, ProperOnce DEF Reordered
  <1> QED BY <1>1, <1>2, <1>3 DEF OwnImports

\* The candidates for a call are the same, up to their order.
LEMMA SameCandidates ==
  ASSUME NEW a, NEW b, Reordered(a, b), NEW e
  PROVE  /\ ToSet(Candidates(e, a, AllNodes(a))) = ToSet(Candidates(e, b, AllNodes(b)))
         /\ Candidates(e, a, AllNodes(a)) = <<>> <=> Candidates(e, b, AllNodes(b)) = <<>>
  <1> DEFINE call == ParseCall(e.target)
             Type(nodes, map) == CalleeType(call.callee, e.source, nodes, map)
             map == ImportMapOf(a, BeforeHash(e.source))
             s == AllNodes(a)
             t == AllNodes(b)
  <1>1. IsList(s) /\ IsList(t) /\ ToSet(s) = ToSet(t)
    BY AllNodesGood, SameNodes DEF Reordered, Proper
  <1>2. map = ImportMapOf(b, BeforeHash(e.source))
    BY SameImports
  <1>3. VariableType(call.callee, e.source, s) = VariableType(call.callee, e.source, t)
    <2> DEFINE u == FieldsNamed(s, BeforeHash(e.source), Head(call.callee))
               v == ParametersNamed(s, e.source, Head(call.callee))
    <2>1. /\ u = FieldsNamed(t, BeforeHash(e.source), Head(call.callee))
          /\ v = ParametersNamed(t, e.source, Head(call.callee))
      BY SameVariables
    <2> HIDE DEF call, s, t
    <2> QED BY <2>1 DEF VariableType
  <1>4. /\ Candidates(e, a, s) = IF Type(s, map) = NoType THEN <<>> ELSE MethodsNamed(s, Type(s, map), call.name)
        /\ Candidates(e, b, t) = IF Type(t, map) = NoType THEN <<>> ELSE MethodsNamed(t, Type(t, map), call.name)
    <2> HIDE DEF s, t
    <2> QED BY <1>2 DEF Candidates
  <1>5. Type(s, map) = Type(t, map)
    <2> HIDE DEF call, s, t, map
    <2> QED BY <1>3 DEF CalleeType
  <1> DEFINE type == Type(s, map)
  <1>6. /\ MethodIds(MethodsNamed(s, type, call.name), s, type, call.name)
        /\ MethodIds(MethodsNamed(t, type, call.name), t, type, call.name)
    <2> HIDE DEF s, t, type, call
    <2> QED BY <1>1, MethodsNamedSpec
  <1> HIDE DEF s, t, type, call, map, Type
  <1>7. /\ IsList(MethodsNamed(s, type, call.name)) /\ IsList(MethodsNamed(t, type, call.name))
        /\ ToSet(MethodsNamed(s, type, call.name)) = ToSet(MethodsNamed(t, type, call.name))
    BY <1>1, <1>6 DEF MethodIds
  <1>8. MethodsNamed(s, type, call.name) = <<>> <=> MethodsNamed(t, type, call.name) = <<>>
    BY <1>7, EmptyList
  <1>9. /\ ToSet(Candidates(e, a, s)) = ToSet(Candidates(e, b, t))
        /\ Candidates(e, a, s) = <<>> <=> Candidates(e, b, t) = <<>>
    BY <1>4, <1>5, <1>7, <1>8 DEF type
  <1> QED BY <1>9 DEF s, t

\* What the assembler makes of the files does not depend on their order.
LEMMA AssembleOrderFree ==
  ASSUME NEW a, NEW b, Reordered(a, b)
  PROVE  Assemble(a) = Assemble(b)
  <1> DEFINE Cross(c) == CrossEdges(c, NodeIds(AllNodes(c)))
             All(c) == AllEdges(c) \o Cross(c)
             Left(c) == ToSet(ResolveCalls(All(c), c, AllNodes(c)))
             Kept(c) == ToSet(DedupNodes(AllNodes(c)))
  <1>1. /\ ToSet(AllNodes(a)) = ToSet(AllNodes(b)) /\ NodeIds(AllNodes(a)) = NodeIds(AllNodes(b))
        /\ ToSet(AllEdges(a)) = ToSet(AllEdges(b))
    BY SameNodes
  <1>2. IsCorpus(a) /\ IsCorpus(b) /\ ToSet(a) = ToSet(b) /\ Proper(a)
    BY DEF Reordered, Proper
  <1>3. Kept(a) = Kept(b)
    <2>1. ASSUME NEW id PROVE FirstOf(AllNodes(a), id) = FirstOf(AllNodes(b), id)
      <3> DEFINE S == WithId(AllNodes(a), id)
      <3>1. S = WithId(AllNodes(b), id) /\ \A n \in S : n.id = id
        BY <1>1 DEF WithId
      <3>2. Keep(AllNodes(a), S) = Keep(AllNodes(b), S)
        <4> HIDE DEF S
        <4> QED BY <1>2, <3>1, SameIdOneFile, SameKept
      <3> QED BY <3>1, <3>2 DEF FirstOf
    <2>2. /\ Kept(a) = {FirstOf(AllNodes(a), id) : id \in NodeIds(AllNodes(a))}
          /\ Kept(b) = {FirstOf(AllNodes(b), id) : id \in NodeIds(AllNodes(b))}
      BY <1>2, AllNodesGood, DedupExact
    <2> HIDE DEF Kept
    <2> QED BY <1>1, <2>1, <2>2
  <1>4. ToSet(Cross(a)) = ToSet(Cross(b))
    <2> DEFINE ids == NodeIds(AllNodes(a))
    <2>1. /\ \A e : e \in ToSet(Cross(a)) <=>
                \E c \in ToSet(a) : AddsEdge(e, c.parsed, ImportMapOf(a, c.parsed.id), ids)
          /\ \A e : e \in ToSet(Cross(b)) <=>
                \E c \in ToSet(b) : AddsEdge(e, c.parsed, ImportMapOf(b, c.parsed.id), ids)
      BY <1>1, <1>2, CrossEdgesExact
    <2> HIDE DEF ids, Cross
    <2> QED BY <1>2, <2>1, SameImports
  <1>5. /\ IsList(All(a)) /\ IsList(All(b)) /\ ToSet(All(a)) = ToSet(All(b))
        /\ IsList(AllNodes(a)) /\ IsList(AllNodes(b))
    <2>1. /\ IsList(AllEdges(a)) /\ IsList(Cross(a)) /\ IsList(AllEdges(b)) /\ IsList(Cross(b))
          /\ IsList(AllNodes(a)) /\ IsList(AllNodes(b))
      BY <1>2, AllEdgesGood, AllNodesGood, CrossEdgesExact
    <2>2. ASSUME NEW c, IsList(AllEdges(c)), IsList(Cross(c))
          PROVE  IsList(All(c)) /\ ToSet(All(c)) = ToSet(AllEdges(c)) \cup ToSet(Cross(c))
      <3> DEFINE own == AllEdges(c)
                 cross == Cross(c)
      <3>1. All(c) = own \o cross /\ IsList(own) /\ IsList(cross)
        BY <2>2
      <3> HIDE DEF own, cross, All
      <3>2. IsList(own \o cross) /\ ToSet(own \o cross) = ToSet(own) \cup ToSet(cross)
        BY <3>1, ConcatList
      <3> QED BY <3>1, <3>2 DEF own, cross
    <2> HIDE DEF Cross, All
    <2> QED BY <1>1, <1>4, <2>1, <2>2
  <1> HIDE DEF All
  <1>6. Left(a) = Left(b)
    <2>1. \A x : /\ x \in Left(a) <=> Resolution(x, All(a), a, AllNodes(a))
                 /\ x \in Left(b) <=> Resolution(x, All(b), b, AllNodes(b))
      BY <1>5, ResolveCallsExact
    <2>2. ASSUME NEW e
          PROVE  /\ Promotes(e, a, AllNodes(a)) <=> Promotes(e, b, AllNodes(b))
                 /\ ToSet(Candidates(e, a, AllNodes(a))) = ToSet(Candidates(e, b, AllNodes(b)))
      BY SameCandidates DEF Promotes
    <2>3. ASSUME NEW x
          PROVE  Resolution(x, All(a), a, AllNodes(a)) <=> Resolution(x, All(b), b, AllNodes(b))
      BY <1>5, <2>2 DEF Resolution
    <2> HIDE DEF Left
    <2> QED BY <2>1, <2>3
  <1>7. ASSUME NEW c PROVE Assemble(c) = [nodes |-> Kept(c), edges |-> Left(c)]
    BY DEF Assemble, All
  <1> HIDE DEF Kept, Left
  <1> QED BY <1>3, <1>6, <1>7

(***************************************************************************)
(* Discovery                                                               *)
(***************************************************************************)
\* What the walk returns for d, when it returns g for the children of d.
Row(w, listing, g, d) ==
  When(w.build[d] \cap BuildFiles # {}, d)
    \o FlattenSeq(Each(listing[d], LAMBDA c :
         IF w.name[c] \in SkippedNames THEN <<>> ELSE g[c]))

IsWalk(f, w, listing) == f = [d \in DOMAIN w.children |-> Row(w, listing, f, d)]

\* The height of a directory is more than that of those in it.
IsHeight(height, w, N) ==
  LET D == DOMAIN w.children
  IN height \in [D -> 1..N] /\ \A d \in D : \A c \in w.children[d] : height[c] < height[d]

\* It is a list, of what may be returned for the children and d.
LEMMA RowList ==
  ASSUME NEW w, NEW listing, IsListing(w, listing), NEW d \in DOMAIN w.children, NEW g, NEW T,
         d \in T, \A c \in w.children[d] : IsList(g[c]) /\ ToSet(g[c]) \subseteq T
  PROVE  IsList(Row(w, listing, g, d)) /\ ToSet(Row(w, listing, g, d)) \subseteq T
  <1> DEFINE l == listing[d]
             own == When(w.build[d] \cap BuildFiles # {}, d)
             f == [i \in DOMAIN l |-> IF w.name[l[i]] \in SkippedNames THEN <<>> ELSE g[l[i]]]
  <1>1. Row(w, listing, g, d) = own \o FlattenSeq(<<>> \o f)
    BY DEF Row, Each
  <1>2. IsList(l) /\ \A i \in DOMAIN l : l[i] \in w.children[d]
    BY DEF IsListing, ToSet
  <1>3. IsList(own) /\ ToSet(own) \subseteq T /\ IsList(<<>>) /\ ToSet(<<>>) = {}
    BY OneElement DEF When
  <1>4. \A i \in DOMAIN l : IsList(f[i]) /\ ToSet(f[i]) \subseteq T
    BY <1>2, <1>3
  <1>5. f = [i \in DOMAIN l |-> f[i]]
    OBVIOUS
  <1> HIDE DEF l, own, f
  <1>6. IsList(f) /\ <<>> \o f = f /\ DOMAIN f = DOMAIN l
    BY <1>2, <1>5, EachList
  <1> DEFINE flat == FlattenSeq(f)
  <1>7. IsList(flat) /\ ToSet(flat) \subseteq T
    <2>1. IsList(flat) /\ ToSet(flat) = UNION {ToSet(f[i]) : i \in DOMAIN f}
      BY <1>4, <1>6, FlattenList
    <2> HIDE DEF flat
    <2> QED BY <1>4, <1>6, <2>1
  <1>8. Row(w, listing, g, d) = own \o flat
    BY <1>1, <1>6
  <1> HIDE DEF flat
  <1>9. IsList(own \o flat) /\ ToSet(own \o flat) = ToSet(own) \cup ToSet(flat)
    BY <1>3, <1>7, ConcatList
  <1> QED BY <1>3, <1>7, <1>8, <1>9

\* It only matters what the walk returns for the children of d.
LEMMA RowLocal ==
  ASSUME NEW w, NEW listing, IsListing(w, listing), NEW d \in DOMAIN w.children, NEW g, NEW h,
         \A c \in w.children[d] : g[c] = h[c]
  PROVE  Row(w, listing, g, d) = Row(w, listing, h, d)
  <1> DEFINE l == listing[d]
             f == [i \in DOMAIN l |-> IF w.name[l[i]] \in SkippedNames THEN <<>> ELSE g[l[i]]]
             e == [i \in DOMAIN l |-> IF w.name[l[i]] \in SkippedNames THEN <<>> ELSE h[l[i]]]
             own == When(w.build[d] \cap BuildFiles # {}, d)
  <1>1. Row(w, listing, g, d) = own \o FlattenSeq(<<>> \o f)
    BY DEF Row, Each
  <1>2. Row(w, listing, h, d) = own \o FlattenSeq(<<>> \o e)
    BY DEF Row, Each
  <1>3. f = e
    BY DEF IsListing, ToSet
  <1> HIDE DEF f, e
  <1> QED BY <1>1, <1>2, <1>3

\* A walk exists: what it returns for a directory of height n is settled after
\* n rounds.
LEMMA WalkExists ==
  ASSUME NEW w, NEW listing, IsListing(w, listing), NEW N \in Nat,
         NEW height, IsHeight(height, w, N),
         \A d \in DOMAIN w.children : w.children[d] \subseteq DOMAIN w.children
  PROVE  \E f : IsWalk(f, w, listing)
  <1> DEFINE D == DOMAIN w.children
             V == [D -> Seq(D)]
             M == N + 1
             none == [d \in D |-> <<>>]
             next == [n \in 1..M |-> [g \in V |-> [d \in D |-> Row(w, listing, g, d)]]]
  <1>1. next \in [1..M -> [V -> V]] /\ none \in V
    <2>1. ASSUME NEW g \in V, NEW d \in D PROVE Row(w, listing, g, d) \in Seq(D)
      <3>1. \A c \in w.children[d] : g[c] \in Seq(D)
        OBVIOUS
      <3>2. \A c \in w.children[d] : IsList(g[c]) /\ ToSet(g[c]) \subseteq D
        <4> HIDE DEF D
        <4> QED BY <3>1, ListOf
      <3>3. IsList(Row(w, listing, g, d)) /\ ToSet(Row(w, listing, g, d)) \subseteq D
        <4> DEFINE T == D
        <4>1. d \in T /\ \A c \in w.children[d] : IsList(g[c]) /\ ToSet(g[c]) \subseteq T
          BY <3>2
        <4> HIDE DEF T
        <4>2. IsList(Row(w, listing, g, d)) /\ ToSet(Row(w, listing, g, d)) \subseteq T
          BY <4>1, RowList
        <4> QED BY <4>2 DEF T
      <3> HIDE DEF D
      <3> QED BY <3>3, SeqOver
    <2>2. <<>> \in Seq(D)
      OBVIOUS
    <2> HIDE DEF D, M
    <2> QED BY <2>1, <2>2
  <1>2. PICK r \in [0..M -> V] : r[0] = none /\ \A n \in 1..M : r[n] = next[n][r[n - 1]]
    <2>0. M \in Nat
      OBVIOUS
    <2> HIDE DEF next, V, M, none
    <2>1. \E f \in [0..M -> V] : Recurs(f, none, next, M)
      BY <1>1, <2>0, RecursionOverInterval
    <2> QED BY <2>1 DEF Recurs
  <1>3. ASSUME NEW n \in 1..M PROVE r[n] = [d \in D |-> Row(w, listing, r[n - 1], d)]
    <2>1. n - 1 \in 0..M
      OBVIOUS
    <2>2. r[n - 1] \in V
      BY ONLY <2>1, r \in [0..M -> V]
    <2> HIDE DEF D, M, V
    <2> QED BY <1>2, <2>2
  <1>4. height \in [D -> 1..N] /\ \A d \in D : \A c \in w.children[d] : height[c] < height[d]
    BY DEF IsHeight
  <1> DEFINE Q == {n \in Nat : n <= N => \A d \in D : height[d] <= n => r[n + 1][d] = r[n][d]}
  <1>5. 0 \in Q
    <2>1. \A d \in D : ~ (height[d] <= 0)
      BY <1>4
    <2> QED BY <2>1
  <1>6. ASSUME NEW n \in Nat, n \in Q PROVE n + 1 \in Q
    <2> SUFFICES ASSUME n + 1 <= N, NEW d \in D, height[d] <= n + 1
                 PROVE  r[(n + 1) + 1][d] = r[n + 1][d]
      OBVIOUS
    <2>1. n + 1 \in 1..M /\ (n + 1) + 1 \in 1..M /\ (n + 1) - 1 = n /\ ((n + 1) + 1) - 1 = n + 1
      OBVIOUS
    <2>2. \A c \in w.children[d] : r[n + 1][c] = r[n][c]
      <3> SUFFICES ASSUME NEW c \in w.children[d] PROVE r[n + 1][c] = r[n][c]
        OBVIOUS
      <3>1. c \in D /\ height[c] < height[d]
        BY <1>4
      <3>2. height[c] \in Nat /\ height[d] \in Nat
        <4>1. \A e \in D : height[e] \in 1..N
          BY <1>4
        <4> HIDE DEF D
        <4>2. height[c] \in 1..N /\ height[d] \in 1..N
          BY <3>1, <4>1
        <4> QED BY ONLY <4>2, N \in Nat
      <3> DEFINE hc == height[c]
                 hd == height[d]
      <3>3. hc \in Nat /\ hd \in Nat /\ hc < hd /\ hd <= n + 1
        BY <3>1, <3>2
      <3> HIDE DEF hc, hd
      <3>4. hc <= n
        BY ONLY <3>3, n \in Nat
      <3>5. n <= N
        OBVIOUS
      <3> QED BY <1>6, <3>1, <3>4, <3>5 DEF hc
    <2>3. r[n + 1] = [e \in D |-> Row(w, listing, r[n], e)]
      BY <1>3, <2>1
    <2>4. r[(n + 1) + 1] = [e \in D |-> Row(w, listing, r[n + 1], e)]
      BY <1>3, <2>1
    <2> DEFINE g == r[n + 1]
               h == r[n]
    <2> HIDE DEF g, h
    <2>5. Row(w, listing, g, d) = Row(w, listing, h, d)
      BY <2>2, RowLocal DEF g, h
    <2> QED BY <2>3, <2>4, <2>5 DEF g, h
  <1> HIDE DEF Q
  <1>7. N \in Q
    BY <1>5, <1>6, InductionOverNat
  <1> DEFINE f == r[N]
  <1>8. r[N + 1] = r[N]
    <2>1. \A d \in D : r[N + 1][d] = r[N][d]
      BY <1>4, <1>7 DEF Q
    <2>2. N \in 0..M /\ N + 1 \in 0..M
      OBVIOUS
    <2>3. r[N] \in V /\ r[N + 1] \in V
      BY ONLY <2>2, r \in [0..M -> V]
    <2> HIDE DEF D
    <2> QED BY <2>1, <2>3
  <1>9. N + 1 \in 1..M /\ (N + 1) - 1 = N
    OBVIOUS
  <1>10. f = [d \in D |-> Row(w, listing, f, d)]
    BY <1>3, <1>8, <1>9
  <1> QED BY <1>10 DEF IsWalk

(***************************************************************************)
(* Trees                                                                   *)
(***************************************************************************)
\* The directories in and below d: those in every set that holds d and, with
\* a directory, those in it.
Closed(w, A) == \A x \in A : w.children[x] \subseteq A

Below(w, d) ==
  {e \in DOMAIN w.children : \A A \in SUBSET DOMAIN w.children : d \in A /\ Closed(w, A) => e \in A}

\* What makes the directories a tree.
LEMMA TreeFacts ==
  ASSUME NEW w, IsTree(w)
  PROVE  /\ w.root \in DOMAIN w.children
         /\ \A d \in DOMAIN w.children : w.children[d] \subseteq DOMAIN w.children /\ w.root \notin w.children[d]
         /\ \A d, e \in DOMAIN w.children : \A c \in w.children[d] : c \in w.children[e] => d = e
         /\ \A c \in DOMAIN w.children : c # w.root => \E d \in DOMAIN w.children : c \in w.children[d]
         /\ \E N \in Nat : \E height : IsHeight(height, w, N)
  <1> DEFINE D == DOMAIN w.children
  <1>1. /\ IsFiniteSet(D) /\ w.root \in D /\ UNION {w.children[d] : d \in D} = D \ {w.root}
        /\ \A d, e \in D : d # e => w.children[d] \cap w.children[e] = {}
    BY DEF IsTree
  <1>2. \E height : IsHeight(height, w, Cardinality(D))
    BY DEF IsTree, IsHeight
  <1>3. Cardinality(D) \in Nat
    BY <1>1, FS_CardinalityType
  <1>4. \A c \in D : c # w.root => \E d \in D : c \in w.children[d]
    BY <1>1
  <1>5. \A d \in D : w.children[d] \subseteq D /\ w.root \notin w.children[d]
    BY <1>1
  <1> QED BY <1>1, <1>2, <1>3, <1>4, <1>5

\* The directories below d are the least set that holds d and is closed.
LEMMA BelowLeast ==
  ASSUME NEW w, IsTree(w), NEW d \in DOMAIN w.children
  PROVE  /\ d \in Below(w, d) /\ Below(w, d) \subseteq DOMAIN w.children /\ Closed(w, Below(w, d))
         /\ \A A \in SUBSET DOMAIN w.children : d \in A /\ Closed(w, A) => Below(w, d) \subseteq A
  <1> DEFINE D == DOMAIN w.children
  <1>1. d \in Below(w, d) /\ Below(w, d) \subseteq D
    BY DEF Below
  <1>2. \A A \in SUBSET D : d \in A /\ Closed(w, A) => Below(w, d) \subseteq A
    BY DEF Below
  <1>3. ASSUME NEW x \in Below(w, d), NEW y \in w.children[x] PROVE y \in Below(w, d)
    <2>1. y \in D
      BY <1>1, TreeFacts
    <2>2. ASSUME NEW A \in SUBSET D, d \in A, Closed(w, A) PROVE y \in A
      BY <1>2, <2>2 DEF Closed
    <2> QED BY <2>1, <2>2 DEF Below
  <1> QED BY <1>1, <1>2, <1>3 DEF Closed

\* What is below d, and is not d, is in a directory below d.
LEMMA BelowBack ==
  ASSUME NEW w, IsTree(w), NEW d \in DOMAIN w.children, NEW x \in DOMAIN w.children,
         NEW y \in Below(w, d), y # d, y \in w.children[x]
  PROVE  x \in Below(w, d)
  <1> SUFFICES ASSUME x \notin Below(w, d) PROVE FALSE
    OBVIOUS
  <1> DEFINE A == Below(w, d) \ {y}
  <1>1. A \in SUBSET DOMAIN w.children /\ d \in A
    BY BelowLeast
  <1>2. ASSUME NEW z \in A, NEW u \in w.children[z] PROVE u \in A
    <2>1. u \in Below(w, d) /\ z \in DOMAIN w.children
      BY BelowLeast DEF Closed
    <2>2. u # y
      BY <2>1, TreeFacts
    <2> QED BY <2>1, <2>2
  <1>3. Closed(w, A)
    BY <1>2 DEF Closed
  <1>4. Below(w, d) \subseteq A
    BY <1>1, <1>3, BelowLeast
  <1> QED BY <1>4

\* None of them is higher than d.
LEMMA BelowHeight ==
  ASSUME NEW w, IsTree(w), NEW N \in Nat, NEW height, IsHeight(height, w, N),
         NEW d \in DOMAIN w.children
  PROVE  \A e \in Below(w, d) : height[e] <= height[d]
  <1> DEFINE D == DOMAIN w.children
             A == {e \in D : height[e] <= height[d]}
  <1>1. \A e \in D : height[e] \in Nat
    BY DEF IsHeight
  <1>2. A \in SUBSET D /\ d \in A
    BY <1>1
  <1>3. ASSUME NEW x \in A, NEW y \in w.children[x] PROVE y \in A
    <2>1. y \in D /\ height[y] < height[x]
      BY TreeFacts DEF IsHeight
    <2> QED BY <1>1, <2>1
  <1>4. Closed(w, A)
    BY <1>3 DEF Closed
  <1> HIDE DEF A
  <1>5. Below(w, d) \subseteq A
    BY <1>2, <1>4, BelowLeast
  <1> QED BY <1>5 DEF A

\* What is below d is d and what is below the directories in it, each apart.
LEMMA BelowSplit ==
  ASSUME NEW w, IsTree(w), NEW d \in DOMAIN w.children
  PROVE  /\ Below(w, d) = {d} \cup UNION {Below(w, c) : c \in w.children[d]}
         /\ \A c \in w.children[d] : d \notin Below(w, c)
         /\ \A b, c \in w.children[d] : b # c => Below(w, b) \cap Below(w, c) = {}
  <1> DEFINE D == DOMAIN w.children
             U == {d} \cup UNION {Below(w, c) : c \in w.children[d]}
  <1>1. w.children[d] \subseteq D
    BY TreeFacts
  <1>2. PICK N \in Nat : \E height : IsHeight(height, w, N)
    BY TreeFacts
  <1>3. PICK height : IsHeight(height, w, N)
    BY <1>2
  <1>4. ASSUME NEW c \in w.children[d] PROVE d \notin Below(w, c)
    <2>1. height[c] < height[d] /\ height[c] \in Nat /\ height[d] \in Nat
      BY <1>1, <1>3 DEF IsHeight
    <2>2. d \in Below(w, c) => height[d] <= height[c]
      BY <1>1, <1>3, BelowHeight
    <2> QED BY <2>1, <2>2
  <1>5. ASSUME NEW b \in w.children[d], NEW c \in w.children[d], b # c
        PROVE  Below(w, b) \cap Below(w, c) = {}
    <2> DEFINE A == Below(w, b) \ Below(w, c)
    <2>1. ASSUME NEW x \in D, NEW y \in w.children[x], y \in Below(w, b) \/ y = b, y \in Below(w, c),
                 x \in Below(w, b) \/ x = d, y # c
          PROVE  x \in Below(w, c)
      BY <1>1, <2>1, BelowBack
    <2>2. b \in A
      <3>1. b \in Below(w, b)
        BY <1>1, BelowLeast
      <3>2. b \in Below(w, c) => d \in Below(w, c)
        BY <1>1, <1>5, BelowBack
      <3> QED BY <1>4, <3>1, <3>2
    <2>3. ASSUME NEW x \in A, NEW y \in w.children[x] PROVE y \in A
      <3>1. x \in D /\ y \in Below(w, b)
        BY <1>1, BelowLeast DEF Closed
      <3>2. y # c
        <4>1. y = c => x = d
          BY <3>1, TreeFacts
        <4> QED BY <1>4, <4>1
      <3>3. y \in Below(w, c) => x \in Below(w, c)
        BY <1>1, <3>1, <3>2, BelowBack
      <3> QED BY <3>1, <3>3
    <2>4. A \in SUBSET D /\ Closed(w, A)
      BY <1>1, <2>3, BelowLeast DEF Closed
    <2>5. Below(w, b) \subseteq A
      BY <1>1, <2>2, <2>4, BelowLeast
    <2> QED BY <2>5
  <1>6. Below(w, d) \subseteq U
    <2>1. U \in SUBSET D
      BY <1>1, BelowLeast
    <2>2. ASSUME NEW x \in U, NEW y \in w.children[x] PROVE y \in U
      <3>1. CASE x = d
        BY <1>1, <3>1, BelowLeast
      <3>2. CASE x # d
        <4>1. PICK c \in w.children[d] : x \in Below(w, c)
          BY <3>2
        <4>2. y \in Below(w, c)
          BY <1>1, <4>1, BelowLeast DEF Closed
        <4> QED BY <4>2
      <3> QED BY <3>1, <3>2
    <2>3. Closed(w, U)
      BY <2>2 DEF Closed
    <2> HIDE DEF U
    <2>4. d \in U
      BY DEF U
    <2> QED BY <2>1, <2>3, <2>4, BelowLeast
  <1>7. U \subseteq Below(w, d)
    <2>1. ASSUME NEW c \in w.children[d] PROVE Below(w, c) \subseteq Below(w, d)
      <3>1. c \in Below(w, d) /\ Closed(w, Below(w, d)) /\ Below(w, d) \in SUBSET D
        BY BelowLeast DEF Closed
      <3> QED BY <1>1, <3>1, BelowLeast
    <2>2. d \in Below(w, d)
      BY BelowLeast
    <2> QED BY <2>1, <2>2
  <1> QED BY <1>4, <1>5, <1>6, <1>7

\* Everything is below the root.
LEMMA BelowRoot ==
  ASSUME NEW w, IsTree(w)
  PROVE  Below(w, w.root) = DOMAIN w.children
  <1> DEFINE D == DOMAIN w.children
             R == Below(w, w.root)
  <1>1. w.root \in D /\ R \subseteq D /\ w.root \in R /\ Closed(w, R)
    BY TreeFacts, BelowLeast
  <1>2. PICK N \in Nat : \E height : IsHeight(height, w, N)
    BY TreeFacts
  <1>3. PICK height : IsHeight(height, w, N)
    BY <1>2
  <1>4. height \in [D -> 1..N] /\ \A d \in D : \A c \in w.children[d] : height[c] < height[d]
    BY <1>3 DEF IsHeight
  <1> SUFFICES ASSUME NEW e \in D, e \notin R PROVE FALSE
    BY <1>1
  <1> HIDE DEF R
  <1> DEFINE T == {N - height[x] : x \in D \ R}
  <1>5. PICK n \in T : \A m \in T : n <= m
    <2>1. T \in SUBSET Nat /\ T # {}
      BY <1>4
    <2> HIDE DEF T
    <2> QED BY <2>1, LeastNumber
  <1>6. PICK x \in D \ R : n = N - height[x]
    OBVIOUS
  <1>7. PICK p \in D : x \in w.children[p]
    BY <1>1, TreeFacts
  <1>8. p \notin R
    BY <1>1, <1>6, <1>7 DEF Closed
  <1>9. N - height[p] \in T /\ height[x] < height[p]
    BY <1>4, <1>7, <1>8
  <1> QED BY <1>4, <1>5, <1>6, <1>9

\* The walk sees the root, and of the directories in one it sees those whose
\* names it does not skip.
LEMMA SightSpec ==
  ASSUME NEW w, IsTree(w)
  PROVE  /\ InSight(w, w.root)
         /\ \A d \in DOMAIN w.children : \A c \in w.children[d] :
              InSight(w, c) <=> w.name[c] \notin SkippedNames /\ InSight(w, d)
  <1> DEFINE D == DOMAIN w.children
             Open(A) == \A x \in A : \A c \in w.children[x] : w.name[c] \notin SkippedNames => c \in A
             R == {e \in D : \A A \in SUBSET D : w.root \in A /\ Open(A) => e \in A}
             Seen(f) == f = [e \in D |-> e = w.root \/ (w.name[e] \notin SkippedNames /\ f[Parent(w, e)])]
             f == [e \in D |-> e \in R]
             seen == CHOOSE g : Seen(g)
  <1>1. w.root \in R /\ R \subseteq D /\ Open(R)
    <2>1. w.root \in R
      BY TreeFacts
    <2>2. ASSUME NEW x \in R, NEW c \in w.children[x], w.name[c] \notin SkippedNames PROVE c \in R
      <3>1. c \in D
        BY TreeFacts
      <3> QED BY <2>2, <3>1
    <2> QED BY <2>1, <2>2
  <1>2. \A A \in SUBSET D : w.root \in A /\ Open(A) => R \subseteq A
    OBVIOUS
  <1>3. ASSUME NEW d \in D, NEW c \in w.children[d] PROVE Parent(w, c) = d /\ c \in D /\ c # w.root
    <2>1. \A e \in D : c \in w.children[e] <=> e = d
      BY TreeFacts
    <2>2. Parent(w, c) = d
      BY <2>1 DEF Parent
    <2> QED BY <2>2, TreeFacts
  <1> HIDE DEF R
  <1>4. ASSUME NEW d \in D, NEW c \in w.children[d]
        PROVE  c \in R <=> w.name[c] \notin SkippedNames /\ d \in R
    <2>1. w.name[c] \notin SkippedNames /\ d \in R => c \in R
      BY <1>1
    <2>2. ASSUME c \in R PROVE w.name[c] \notin SkippedNames /\ d \in R
      <3> SUFFICES ASSUME ~ (w.name[c] \notin SkippedNames /\ d \in R) PROVE FALSE
        OBVIOUS
      <3> DEFINE A == R \ {c}
      <3>1. A \in SUBSET D /\ w.root \in A
        BY <1>1, <1>3
      <3>2. ASSUME NEW x \in A, NEW b \in w.children[x], w.name[b] \notin SkippedNames PROVE b \in A
        <4>1. b \in R /\ x \in D
          BY <1>1, <3>2
        <4>2. b # c
          <5>1. b = c => x = d
            BY <1>3, <4>1
          <5> QED BY <3>2, <5>1
        <4> QED BY <4>1, <4>2
      <3>3. Open(A)
        BY <3>2
      <3> HIDE DEF A, Open
      <3>4. R \subseteq A
        BY <1>2, <3>1, <3>3
      <3> QED BY <2>2, <3>4 DEF A
    <2> QED BY <2>1, <2>2
  <1>5. ASSUME NEW e \in D
        PROVE  f[e] = (e = w.root \/ (w.name[e] \notin SkippedNames /\ f[Parent(w, e)]))
    <2>1. CASE e = w.root
      BY <1>1, <2>1
    <2>2. CASE e # w.root
      <3>1. PICK d \in D : e \in w.children[d]
        BY <2>2, TreeFacts
      <3>2. Parent(w, e) = d
        BY <1>3, <3>1
      <3>3. f[e] = (e \in R) /\ f[d] = (d \in R)
        OBVIOUS
      <3>4. e \in R <=> w.name[e] \notin SkippedNames /\ d \in R
        BY <1>4, <3>1
      <3> HIDE DEF f
      <3>5. (e \in R) = (w.name[e] \notin SkippedNames /\ d \in R)
        BY <3>4
      <3> QED BY <2>2, <3>2, <3>3, <3>5
    <2> QED BY <2>1, <2>2
  <1>6. Seen(f)
    <2>1. f = [e \in D |-> f[e]]
      OBVIOUS
    <2> HIDE DEF f
    <2> QED BY <1>5, <2>1
  <1>7. Seen(seen)
    <2> HIDE DEF Seen, f
    <2> QED BY <1>6
  <1>8. \A d : InSight(w, d) = seen[d]
    BY DEF InSight
  <1> HIDE DEF seen
  <1>9. \A e \in D : seen[e] = (e = w.root \/ (w.name[e] \notin SkippedNames /\ seen[Parent(w, e)]))
    BY <1>7
  <1>10. InSight(w, w.root)
    BY <1>1, <1>8, <1>9
  <1>11. ASSUME NEW d \in D, NEW c \in w.children[d]
         PROVE  InSight(w, c) <=> w.name[c] \notin SkippedNames /\ InSight(w, d)
    <2>1. c \in D /\ c # w.root /\ Parent(w, c) = d
      BY <1>3
    <2>2. seen[c] = (c = w.root \/ (w.name[c] \notin SkippedNames /\ seen[Parent(w, c)]))
      BY <1>9, <2>1
    <2>3. seen[c] = (w.name[c] \notin SkippedNames /\ seen[d])
      BY <2>1, <2>2
    <2> QED BY <1>8, <2>3
  <1> QED BY <1>10, <1>11

(***************************************************************************)
(* What the walk finds                                                     *)
(***************************************************************************)
\* The walk of d is d, if it is a module, and the walks of the children that
\* it does not skip, without repetitions when these are apart.
LEMMA RowSpec ==
  ASSUME NEW w, NEW listing, IsListing(w, listing), NEW d \in DOMAIN w.children, NEW g,
         \A c \in w.children[d] : IsList(g[c]) /\ IsInjective(g[c]) /\ d \notin ToSet(g[c]),
         \A b, c \in w.children[d] : b # c => ToSet(g[b]) \cap ToSet(g[c]) = {}
  PROVE  /\ IsList(Row(w, listing, g, d)) /\ IsInjective(Row(w, listing, g, d))
         /\ ToSet(Row(w, listing, g, d)) =
              {x \in {d} : w.build[d] \cap BuildFiles # {}}
                \cup UNION {ToSet(g[c]) : c \in {b \in w.children[d] : w.name[b] \notin SkippedNames}}
  <1> DEFINE l == listing[d]
             own == When(w.build[d] \cap BuildFiles # {}, d)
             f == [i \in DOMAIN l |-> IF w.name[l[i]] \in SkippedNames THEN <<>> ELSE g[l[i]]]
             Walked == {b \in w.children[d] : w.name[b] \notin SkippedNames}
  <1>1. Row(w, listing, g, d) = own \o FlattenSeq(<<>> \o f)
    BY DEF Row, Each
  <1>2. /\ IsList(l) /\ \A i \in DOMAIN l : l[i] \in w.children[d]
        /\ \A i, j \in DOMAIN l : l[i] = l[j] => i = j
        /\ \A c \in w.children[d] : \E i \in DOMAIN l : l[i] = c
    BY DEF IsListing, ToSet, IsInjective
  <1>3. /\ IsList(own) /\ IsInjective(own)
        /\ ToSet(own) = {x \in {d} : w.build[d] \cap BuildFiles # {}}
        /\ IsList(<<>>) /\ IsInjective(<<>>) /\ ToSet(<<>>) = {}
    <2>1. /\ IsList(<<d>>) /\ ToSet(<<d>>) = {d} /\ IsList(<<>>) /\ ToSet(<<>>) = {}
          /\ IsInjective(<<d>>) /\ IsInjective(<<>>)
      BY OneElement DEF IsInjective
    <2>2. CASE w.build[d] \cap BuildFiles # {}
      BY <2>1, <2>2 DEF When
    <2>3. CASE w.build[d] \cap BuildFiles = {}
      BY <2>1, <2>3 DEF When
    <2> QED BY <2>2, <2>3
  <1>4. \A i \in DOMAIN l : IsList(f[i]) /\ IsInjective(f[i]) /\ d \notin ToSet(f[i])
    BY <1>2, <1>3
  <1>5. \A i, j \in DOMAIN l : i # j => ToSet(f[i]) \cap ToSet(f[j]) = {}
    BY <1>2, <1>3
  <1>6. UNION {ToSet(f[i]) : i \in DOMAIN l} = UNION {ToSet(g[c]) : c \in Walked}
    <2>1. ASSUME NEW i \in DOMAIN l, NEW x \in ToSet(f[i]) PROVE \E c \in Walked : x \in ToSet(g[c])
      BY <1>2, <1>3, <2>1
    <2>2. ASSUME NEW c \in Walked, NEW x \in ToSet(g[c]) PROVE \E i \in DOMAIN l : x \in ToSet(f[i])
      <3>1. PICK i \in DOMAIN l : l[i] = c
        BY <1>2
      <3>2. f[i] = g[c]
        BY <3>1
      <3> HIDE DEF l, f
      <3> QED BY <2>2, <3>2
    <2> HIDE DEF l, f, Walked
    <2>3. UNION {ToSet(f[i]) : i \in DOMAIN l} \subseteq UNION {ToSet(g[c]) : c \in Walked}
      BY ONLY <2>1
    <2>4. UNION {ToSet(g[c]) : c \in Walked} \subseteq UNION {ToSet(f[i]) : i \in DOMAIN l}
      BY ONLY <2>2
    <2> QED BY ONLY <2>3, <2>4
  <1>7. f = [i \in DOMAIN l |-> f[i]]
    OBVIOUS
  <1> HIDE DEF l, own, f, Walked
  <1>8. IsList(f) /\ <<>> \o f = f /\ DOMAIN f = DOMAIN l
    BY <1>2, <1>7, EachList
  <1> DEFINE flat == FlattenSeq(f)
  <1>9. IsList(flat) /\ ToSet(flat) = UNION {ToSet(f[i]) : i \in DOMAIN f}
    BY <1>4, <1>8, FlattenList
  <1>10. IsInjective(flat)
    BY <1>4, <1>5, <1>8, FlattenDistinct
  <1>11. Row(w, listing, g, d) = own \o flat
    BY <1>1, <1>8
  <1> HIDE DEF flat
  <1>12. d \notin ToSet(flat)
    BY <1>4, <1>8, <1>9
  <1>13. IsList(own \o flat) /\ ToSet(own \o flat) = ToSet(own) \cup ToSet(flat)
    BY <1>3, <1>9, ConcatList
  <1>14. IsInjective(own \o flat)
    <2>1. ToSet(own) \cap ToSet(flat) = {}
      BY <1>3, <1>12
    <2> QED BY <1>3, <1>9, <1>10, <2>1, ConcatDistinct
  <1>15. ToSet(flat) = UNION {ToSet(g[c]) : c \in Walked}
    BY <1>6, <1>8, <1>9
  <1> QED BY <1>3, <1>11, <1>13, <1>14, <1>15 DEF Walked

\* Nothing is seen below what is not seen.
LEMMA NothingSeen ==
  ASSUME NEW w, IsTree(w), NEW d \in DOMAIN w.children, ~InSight(w, d)
  PROVE  \A e \in Below(w, d) : ~InSight(w, e)
  <1> DEFINE A == {e \in DOMAIN w.children : ~InSight(w, e)}
  <1>1. ASSUME NEW x \in A, NEW y \in w.children[x] PROVE y \in A
    BY SightSpec, TreeFacts
  <1>2. A \in SUBSET DOMAIN w.children /\ d \in A /\ Closed(w, A)
    BY <1>1 DEF Closed
  <1> HIDE DEF A
  <1>3. Below(w, d) \subseteq A
    BY <1>2, BelowLeast
  <1> QED BY <1>3 DEF A

\* The modules that are seen in and below d.
IsModule(w, e) == InSight(w, e) /\ w.build[e] \cap BuildFiles # {}

Walks(r, w, d) ==
  /\ IsList(r) /\ IsInjective(r) /\ ToSet(r) \subseteq Below(w, d)
  /\ InSight(w, d) => ToSet(r) = {e \in Below(w, d) : IsModule(w, e)}

\* If the walks of the children of d find their modules, so does that of d.
LEMMA WalkStep ==
  ASSUME NEW w, IsTree(w), NEW listing, IsListing(w, listing), NEW d \in DOMAIN w.children,
         NEW g, \A c \in w.children[d] : Walks(g[c], w, c)
  PROVE  Walks(Row(w, listing, g, d), w, d)
  <1> DEFINE r == Row(w, listing, g, d)
             C == w.children[d]
             own == {x \in {d} : w.build[d] \cap BuildFiles # {}}
             Walked == {b \in C : w.name[b] \notin SkippedNames}
  <1>1. C \subseteq DOMAIN w.children
    BY TreeFacts
  <1>2. /\ Below(w, d) = {d} \cup UNION {Below(w, c) : c \in C}
        /\ \A c \in C : d \notin Below(w, c)
        /\ \A b, c \in C : b # c => Below(w, b) \cap Below(w, c) = {}
    BY BelowSplit
  <1>3. \A c \in C : IsList(g[c]) /\ IsInjective(g[c]) /\ ToSet(g[c]) \subseteq Below(w, c)
    BY DEF Walks
  <1>4. \A c \in C : d \notin ToSet(g[c])
    BY <1>2, <1>3
  <1>5. \A b, c \in C : b # c => ToSet(g[b]) \cap ToSet(g[c]) = {}
    BY <1>2, <1>3
  <1>6. /\ IsList(r) /\ IsInjective(r)
        /\ ToSet(r) = own \cup UNION {ToSet(g[c]) : c \in Walked}
    BY <1>3, <1>4, <1>5, RowSpec
  <1> HIDE DEF r
  <1>7. ToSet(r) \subseteq Below(w, d)
    BY <1>2, <1>3, <1>6
  <1>8. ASSUME InSight(w, d) PROVE ToSet(r) = {e \in Below(w, d) : IsModule(w, e)}
    <2>1. ASSUME NEW c \in Walked PROVE ToSet(g[c]) = {e \in Below(w, c) : IsModule(w, e)}
      <3>1. InSight(w, c)
        BY <1>8, SightSpec
      <3> QED BY <3>1 DEF Walks
    <2>2. ASSUME NEW c \in C \ Walked PROVE \A e \in Below(w, c) : ~IsModule(w, e)
      <3>1. ~InSight(w, c)
        BY SightSpec
      <3> QED BY <1>1, <3>1, NothingSeen DEF IsModule
    <2>3. IsModule(w, d) <=> d \in own
      BY <1>8 DEF IsModule
    <2>4. own \subseteq {d} /\ Walked \subseteq C
      OBVIOUS
    <2> HIDE DEF own, Walked, C
    <2>5. ASSUME NEW e \in ToSet(r) PROVE e \in Below(w, d) /\ IsModule(w, e)
      <3>1. CASE e \in own
        BY <1>2, <2>3, <2>4, <3>1
      <3>2. CASE e \notin own
        <4>1. PICK c \in Walked : e \in ToSet(g[c])
          BY <1>6, <3>2
        <4> QED BY <1>2, <2>1, <2>4, <4>1
      <3> QED BY <3>1, <3>2
    <2>6. ASSUME NEW e \in Below(w, d), IsModule(w, e) PROVE e \in ToSet(r)
      <3>1. CASE e = d
        BY <1>6, <2>3, <2>6, <3>1
      <3>2. CASE e # d
        <4>1. PICK c \in C : e \in Below(w, c)
          BY <1>2, <3>2
        <4>2. c \in Walked
          BY <2>2, <2>6, <4>1
        <4> QED BY <1>6, <2>1, <2>6, <4>1, <4>2
      <3> QED BY <3>1, <3>2
    <2> QED BY <2>5, <2>6
  <1> QED BY <1>6, <1>7, <1>8 DEF Walks, r

\* The walk of a tree finds each module that is in sight, once.
LEMMA RootsSpec ==
  ASSUME NEW w, IsTree(w), NEW listing, IsListing(w, listing)
  PROVE  LET roots == FindModuleRoots(w, listing)
         IN /\ IsList(roots) /\ IsInjective(roots)
            /\ ToSet(roots) = {d \in DOMAIN w.children : IsModule(w, d)}
  <1> DEFINE D == DOMAIN w.children
             f == CHOOSE f : IsWalk(f, w, listing)
             roots == FindModuleRoots(w, listing)
  <1>1. w.root \in D /\ \A d \in D : w.children[d] \subseteq D
    BY TreeFacts
  <1>2. PICK N \in Nat : \E height : IsHeight(height, w, N)
    BY TreeFacts
  <1>3. PICK height : IsHeight(height, w, N)
    BY <1>2
  <1>4. roots = f[w.root]
    BY DEF FindModuleRoots, IsWalk, Row
  <1>5. IsWalk(f, w, listing)
    <2>1. \E g : IsWalk(g, w, listing)
      BY <1>1, <1>3, WalkExists
    <2> QED BY <2>1
  <1> HIDE DEF f, roots
  <1>6. \A d \in D : f[d] = Row(w, listing, f, d)
    BY <1>5 DEF IsWalk
  <1>7. \A d \in D : /\ height[d] \in Nat /\ 0 < height[d]
                     /\ \A c \in w.children[d] : height[c] < height[d]
    BY <1>3 DEF IsHeight
  <1> DEFINE Q == {n \in Nat : \A d \in D : height[d] <= n => Walks(f[d], w, d)}
  <1>8. 0 \in Q
    <2>1. \A d \in D : ~ (height[d] <= 0)
      BY <1>7
    <2> QED BY <2>1
  <1>9. ASSUME NEW n \in Nat, n \in Q PROVE n + 1 \in Q
    <2> SUFFICES ASSUME NEW d \in D, height[d] <= n + 1 PROVE Walks(f[d], w, d)
      OBVIOUS
    <2>1. ASSUME NEW c \in w.children[d] PROVE Walks(f[c], w, c)
      <3>1. c \in D
        BY <1>1
      <3> DEFINE hc == height[c]
                 hd == height[d]
      <3>2. hc \in Nat /\ hd \in Nat /\ hc < hd /\ hd <= n + 1
        BY <1>7, <3>1
      <3> HIDE DEF hc, hd
      <3>3. hc <= n
        BY ONLY <3>2, n \in Nat
      <3> QED BY <1>9, <3>1, <3>3 DEF hc
    <2> HIDE DEF Q
    <2>2. Walks(Row(w, listing, f, d), w, d)
      BY <2>1, WalkStep
    <2> QED BY <1>6, <2>2
  <1> HIDE DEF Q
  <1>10. height[w.root] \in Q
    <2>1. Nat \subseteq Q
      BY <1>8, <1>9, InductionOverNat
    <2> QED BY <1>1, <1>7, <2>1
  <1>11. Walks(roots, w, w.root)
    <2>1. \A d \in D : height[d] <= height[w.root] => Walks(f[d], w, d)
      BY <1>10 DEF Q
    <2>2. height[w.root] <= height[w.root]
      BY <1>1, <1>7
    <2> QED BY <1>1, <1>4, <2>1, <2>2
  <1>12. InSight(w, w.root) /\ Below(w, w.root) = D
    BY SightSpec, BelowRoot
  <1> QED BY <1>11, <1>12 DEF Walks, roots

(***************************************************************************)
(* The files of a module                                                   *)
(***************************************************************************)
\* What module d takes from a source root.
Taken(w, d, root) ==
  {i \in DOMAIN w.files : /\ w.files[i].dir = d /\ w.files[i].root = root
                          /\ ~w.files[i].ignored /\ w.files[i].area \notin w.ignores[d]}

\* Those are the files listed, once each.
LEMMA JavaFilesSpec ==
  ASSUME NEW w, IsList(w.files), NEW d, NEW root
  PROVE  LET files == ListJavaFiles(w, d, root)
         IN IsList(files) /\ IsInjective(files) /\ ToSet(files) = Taken(w, d, root)
  <1> DEFINE N == Len(w.files)
             t == [i \in DOMAIN w.files |-> i]
             S == Taken(w, d, root)
  <1>1. ListJavaFiles(w, d, root) = Keep(t, S)
    BY DEF ListJavaFiles, Taken
  <1>2. N \in Nat /\ DOMAIN w.files = 1..N
    BY ListDef
  <1>3. t = [n \in 1..N |-> n] /\ S \in SUBSET (1..N)
    BY <1>2 DEF Taken
  <1> HIDE DEF N, t, S
  <1> DEFINE k == Keep([n \in 1..N |-> n], S)
  <1>4. k \in Seq(S) /\ (\A i, j \in DOMAIN k : k[i] = k[j] => i = j) /\ {k[i] : i \in DOMAIN k} = S
    BY <1>2, <1>3, KeepNumbers
  <1>5. ListJavaFiles(w, d, root) = k
    BY <1>1, <1>3
  <1> HIDE DEF k
  <1>6. IsList(k)
    BY <1>4, ListOf
  <1> QED BY <1>4, <1>5, <1>6 DEF IsInjective, ToSet, S

\* A module has the files it takes from its Java source roots, once each.
JavaRoots == {"src/main/java", "src/test/java"}

Own(w, d) ==
  {i \in DOMAIN w.files : /\ w.files[i].dir = d /\ w.files[i].root \in JavaRoots
                          /\ ~w.files[i].ignored /\ w.files[i].area \notin w.ignores[d]}

\* Its two source roots have no file in common.
LEMMA ModuleSpec ==
  ASSUME NEW w, IsList(w.files), NEW d
  PROVE  LET files == Module(w, d).files
         IN IsList(files) /\ IsInjective(files) /\ ToSet(files) = Own(w, d)
  <1> DEFINE roots == FindSourceRoots(w, d)
             f == [i \in DOMAIN roots |-> ListJavaFiles(w, d, roots[i])]
             files == Module(w, d).files
             held == {w.files[i].root : i \in {j \in DOMAIN w.files : w.files[j].dir = d}}
  <1>1. files = FlattenSeq(<<>> \o f)
    BY DEF Module, Each
  <1>2. /\ IsList(roots) /\ IsInjective(roots)
        /\ ToSet(roots) = JavaRoots \cap held
    <2> DEFINE T == {"src/main/java", "src/test/java", "src/main/kotlin"}
               s == CandidateSourceRoots
               S == held \ {"src/main/kotlin"}
               k == Keep(s, S)
    <2>1. /\ s \in Seq(T) /\ \A i, j \in DOMAIN s : s[i] = s[j] => i = j
          /\ {s[i] : i \in DOMAIN s} = T
      BY DEF CandidateSourceRoots
    <2>2. roots = k
      BY DEF FindSourceRoots
    <2>3. T \cap S = JavaRoots \cap held
      BY DEF JavaRoots
    <2> HIDE DEF T, s, S, k, held
    <2>4. /\ k \in Seq(T) /\ \A i, j \in DOMAIN k : k[i] = k[j] => i = j
          /\ {k[i] : i \in DOMAIN k} = {s[i] : i \in DOMAIN s} \cap S
      BY <2>1, KeepDistinct DEF k
    <2>5. IsList(k)
      BY <2>4, ListOf
    <2> QED BY <2>1, <2>2, <2>3, <2>4, <2>5 DEF IsInjective, ToSet
  <1>3. \A i \in DOMAIN roots : IsList(f[i]) /\ IsInjective(f[i]) /\ ToSet(f[i]) = Taken(w, d, roots[i])
    BY JavaFilesSpec
  <1>4. f = [i \in DOMAIN roots |-> f[i]]
    OBVIOUS
  <1>5. \A r \in JavaRoots \ held : Taken(w, d, r) = {}
    BY DEF Taken
  <1> HIDE DEF roots, f, files, held
  <1>6. IsList(f) /\ <<>> \o f = f /\ DOMAIN f = DOMAIN roots
    BY <1>2, <1>4, EachList
  <1>7. /\ IsList(FlattenSeq(f))
        /\ ToSet(FlattenSeq(f)) = UNION {ToSet(f[i]) : i \in DOMAIN f}
    BY <1>3, <1>6, FlattenList
  <1>8. \A i, j \in DOMAIN f : i # j => ToSet(f[i]) \cap ToSet(f[j]) = {}
    <2>1. \A r, q : r # q => Taken(w, d, r) \cap Taken(w, d, q) = {}
      BY DEF Taken
    <2> QED BY <1>2, <1>3, <1>6, <2>1 DEF IsInjective
  <1>9. IsInjective(FlattenSeq(f))
    BY <1>3, <1>6, <1>8, FlattenDistinct
  <1>10. UNION {ToSet(f[i]) : i \in DOMAIN f} = Own(w, d)
    <2>1. ASSUME NEW i \in DOMAIN f, NEW x \in ToSet(f[i]) PROVE x \in Own(w, d)
      <3>1. roots[i] \in JavaRoots /\ x \in Taken(w, d, roots[i])
        BY <1>2, <1>3, <1>6 DEF ToSet
      <3> QED BY <3>1 DEF Taken, Own
    <2>2. ASSUME NEW x \in Own(w, d) PROVE \E i \in DOMAIN f : x \in ToSet(f[i])
      <3>1. x \in Taken(w, d, w.files[x].root) /\ w.files[x].root \in JavaRoots
        BY DEF Taken, Own
      <3>2. w.files[x].root \in ToSet(roots)
        BY <1>2, <1>5, <3>1
      <3>3. PICK i \in DOMAIN roots : roots[i] = w.files[x].root
        BY <3>2 DEF ToSet
      <3> QED BY <1>3, <1>6, <3>1, <3>3
    <2> QED BY <2>1, <2>2
  <1>11. files = FlattenSeq(f)
    BY <1>1, <1>6
  <1> QED BY <1>7, <1>9, <1>10, <1>11 DEF files

\* What discovery finds: every module in sight, once, with its files.
Finds(ms, w, dirs) ==
  /\ IsList(ms) /\ DOMAIN ms = DOMAIN dirs /\ \A i \in DOMAIN dirs : ms[i] = Module(w, dirs[i])
  /\ IsInjective(dirs) /\ ToSet(dirs) = {d \in DOMAIN w.children : IsModule(w, d)}

\* Whatever the order of the listing.
LEMMA DiscoverFinds ==
  ASSUME NEW w, IsWorld(w), NEW listing, IsListing(w, listing)
  PROVE  \E dirs : Finds(Discover(w, listing), w, dirs)
  <1> DEFINE dirs == FindModuleRoots(w, listing)
             f == [i \in DOMAIN dirs |-> Module(w, dirs[i])]
  <1>1. Discover(w, listing) = <<>> \o f
    BY DEF Discover, Each
  <1>2. /\ IsList(dirs) /\ IsInjective(dirs)
        /\ ToSet(dirs) = {d \in DOMAIN w.children : IsModule(w, d)}
    BY RootsSpec DEF IsWorld
  <1>3. f = [i \in DOMAIN dirs |-> f[i]] /\ \A i \in DOMAIN dirs : f[i] = Module(w, dirs[i])
    OBVIOUS
  <1> HIDE DEF dirs, f
  <1>4. IsList(f) /\ <<>> \o f = f /\ DOMAIN f = DOMAIN dirs
    BY <1>2, <1>3, EachList
  <1>5. Finds(f, w, dirs)
    BY <1>2, <1>3, <1>4 DEF Finds
  <1> QED BY <1>1, <1>4, <1>5

\* The files of a module, with it.
ModuleFiles(m) == [j \in DOMAIN m.files |-> [file |-> m.files[j], module |-> m.id]]

\* Each of its files once.
LEMMA ModuleFilesSpec ==
  ASSUME NEW w, IsList(w.files), NEW d
  PROVE  LET h == ModuleFiles(Module(w, d))
         IN /\ <<>> \o h = h /\ IsList(h) /\ IsInjective(h)
            /\ ToSet(h) = {[file |-> i, module |-> <<"mod:", w.name[d]>>] : i \in Own(w, d)}
  <1> DEFINE m == Module(w, d)
             s == m.files
             h == ModuleFiles(m)
             id == <<"mod:", w.name[d]>>
  <1>1. IsList(s) /\ IsInjective(s) /\ ToSet(s) = Own(w, d)
    BY ModuleSpec
  <1>2. m.id = id
    BY DEF Module
  <1> HIDE DEF m
  <1>3. h = [j \in DOMAIN s |-> h[j]] /\ \A j \in DOMAIN s : h[j] = [file |-> s[j], module |-> id]
    BY <1>2 DEF ModuleFiles
  <1> HIDE DEF s, h, id
  <1>4. IsList(h) /\ <<>> \o h = h /\ DOMAIN h = DOMAIN s
    BY <1>1, <1>3, EachList
  <1>5. IsInjective(h)
    BY <1>1, <1>3, <1>4 DEF IsInjective
  <1>6. ToSet(h) = {[file |-> i, module |-> id] : i \in Own(w, d)}
    BY <1>1, <1>3, <1>4 DEF ToSet
  <1> QED BY <1>4, <1>5, <1>6 DEF h, id, m

\* The list of all files has each one that belongs in the graph, once, with
\* the module that it lies in.
FilesOfWorld(xs, w) ==
  /\ IsList(xs) /\ \A i, j \in DOMAIN xs : xs[i].file = xs[j].file => i = j
  /\ {x.file : x \in ToSet(xs)} = {f \in DOMAIN w.files : Belongs(w, w.files[f])}
  /\ \A x \in ToSet(xs) : x.module = <<"mod:", w.name[w.files[x.file].dir]>>

\* Modules have no files in common, and each file belongs to one.
LEMMA FilesOfSpec ==
  ASSUME NEW w, IsWorld(w), NEW ms, NEW dirs, Finds(ms, w, dirs)
  PROVE  FilesOfWorld(FilesOf(ms), w)
  <1> DEFINE g == [i \in DOMAIN ms |-> <<>> \o ModuleFiles(ms[i])]
             Entry(i) == [file |-> i, module |-> <<"mod:", w.name[w.files[i].dir]>>]
             xs == FilesOf(ms)
  <1>1. xs = FlattenSeq(<<>> \o g)
    BY DEF FilesOf, Each, ModuleFiles
  <1>2. /\ IsList(ms) /\ DOMAIN ms = DOMAIN dirs /\ \A i \in DOMAIN dirs : ms[i] = Module(w, dirs[i])
        /\ \A i, j \in DOMAIN dirs : dirs[i] = dirs[j] => i = j
        /\ {dirs[i] : i \in DOMAIN dirs} = {d \in DOMAIN w.children : IsModule(w, d)}
    BY DEF Finds, IsInjective, ToSet
  <1>3. ASSUME NEW i \in DOMAIN dirs
        PROVE  IsList(g[i]) /\ IsInjective(g[i]) /\ ToSet(g[i]) = {Entry(x) : x \in Own(w, dirs[i])}
    <2> DEFINE d == dirs[i]
               h == ModuleFiles(Module(w, d))
    <2>1. g[i] = <<>> \o h
      BY <1>2
    <2>2. /\ <<>> \o h = h /\ IsList(h) /\ IsInjective(h)
          /\ ToSet(h) = {[file |-> x, module |-> <<"mod:", w.name[d]>>] : x \in Own(w, d)}
      BY ModuleFilesSpec DEF IsWorld
    <2>3. \A x \in Own(w, d) : w.files[x].dir = d
      BY DEF Own
    <2> HIDE DEF d, h, g
    <2> QED BY <2>1, <2>2, <2>3 DEF d
  <1>4. g = [i \in DOMAIN ms |-> g[i]]
    OBVIOUS
  <1> HIDE DEF g, xs
  <1>5. IsList(g) /\ <<>> \o g = g /\ DOMAIN g = DOMAIN dirs
    BY <1>2, <1>4, EachList
  <1>6. \A i, j \in DOMAIN g : i # j => ToSet(g[i]) \cap ToSet(g[j]) = {}
    <2> SUFFICES ASSUME NEW i \in DOMAIN g, NEW j \in DOMAIN g, i # j,
                        NEW x \in ToSet(g[i]), x \in ToSet(g[j])
                 PROVE  FALSE
      OBVIOUS
    <2>1. x.file \in Own(w, dirs[i]) /\ x.file \in Own(w, dirs[j])
      BY <1>3, <1>5
    <2> QED BY <1>2, <1>5, <2>1 DEF Own
  <1>7. /\ IsList(xs) /\ ToSet(xs) = UNION {ToSet(g[i]) : i \in DOMAIN g} /\ IsInjective(xs)
    BY <1>1, <1>3, <1>5, <1>6, FlattenList, FlattenDistinct
  <1>8. \A x \in ToSet(xs) : x = Entry(x.file) /\ \E i \in DOMAIN dirs : x.file \in Own(w, dirs[i])
    <2> SUFFICES ASSUME NEW x \in ToSet(xs)
                 PROVE  x = Entry(x.file) /\ \E i \in DOMAIN dirs : x.file \in Own(w, dirs[i])
      OBVIOUS
    <2>1. PICK i \in DOMAIN dirs : x \in ToSet(g[i])
      BY <1>5, <1>7
    <2>2. PICK k \in Own(w, dirs[i]) : x = Entry(k)
      BY <1>3, <2>1
    <2>3. x.file = k
      BY <2>2
    <2> QED BY <2>2, <2>3
  <1>9. \A i \in DOMAIN dirs : \A k \in Own(w, dirs[i]) : Entry(k) \in ToSet(xs)
    BY <1>3, <1>5, <1>7
  <1>10. ASSUME NEW k
         PROVE  (\E i \in DOMAIN dirs : k \in Own(w, dirs[i]))
                  <=> k \in DOMAIN w.files /\ Belongs(w, w.files[k])
    <2>1. Belongs(w, w.files[k]) <=>
            /\ IsModule(w, w.files[k].dir) /\ w.files[k].root \in JavaRoots
            /\ ~w.files[k].ignored /\ w.files[k].area \notin w.ignores[w.files[k].dir]
      BY DEF Belongs, IsModule, JavaRoots
    <2>2. k \in DOMAIN w.files => w.files[k].dir \in DOMAIN w.children
      BY DEF IsWorld, ToSet
    <2>3. ASSUME NEW i \in DOMAIN dirs, k \in Own(w, dirs[i])
          PROVE  k \in DOMAIN w.files /\ Belongs(w, w.files[k])
      <3>1. IsModule(w, dirs[i])
        BY <1>2
      <3> QED BY <2>1, <2>3, <3>1 DEF Own
    <2>4. ASSUME k \in DOMAIN w.files, Belongs(w, w.files[k])
          PROVE  \E i \in DOMAIN dirs : k \in Own(w, dirs[i])
      <3>1. PICK i \in DOMAIN dirs : dirs[i] = w.files[k].dir
        BY <1>2, <2>1, <2>2, <2>4
      <3>2. k \in Own(w, dirs[i])
        BY <2>1, <2>4, <3>1 DEF Own
      <3> QED BY <3>2
    <2> QED BY <2>3, <2>4
  <1>11. \A i, j \in DOMAIN xs : xs[i].file = xs[j].file => i = j
    <2>1. \A i \in DOMAIN xs : xs[i] \in ToSet(xs)
      BY DEF ToSet
    <2> SUFFICES ASSUME NEW i \in DOMAIN xs, NEW j \in DOMAIN xs, xs[i].file = xs[j].file PROVE i = j
      OBVIOUS
    <2>2. xs[i] = Entry(xs[i].file) /\ xs[j] = Entry(xs[j].file)
      BY <1>8, <2>1
    <2>3. xs[i] = xs[j]
      BY <2>2
    <2> QED BY <1>7, <2>3 DEF IsInjective
  <1>12. {x.file : x \in ToSet(xs)} = {f \in DOMAIN w.files : Belongs(w, w.files[f])}
    <2>1. ASSUME NEW x \in ToSet(xs) PROVE x.file \in DOMAIN w.files /\ Belongs(w, w.files[x.file])
      BY <1>8, <1>10
    <2>2. ASSUME NEW k \in DOMAIN w.files, Belongs(w, w.files[k]) PROVE \E x \in ToSet(xs) : x.file = k
      <3>1. Entry(k) \in ToSet(xs)
        BY <1>9, <1>10, <2>2
      <3> QED BY <3>1
    <2> QED BY <2>1, <2>2
  <1>13. \A x \in ToSet(xs) : x.module = <<"mod:", w.name[w.files[x.file].dir]>>
    <2> SUFFICES ASSUME NEW x \in ToSet(xs) PROVE x.module = <<"mod:", w.name[w.files[x.file].dir]>>
      OBVIOUS
    <2>1. x = Entry(x.file)
      BY <1>8
    <2>2. Entry(x.file).module = <<"mod:", w.name[w.files[x.file].dir]>>
      OBVIOUS
    <2> HIDE DEF Entry
    <2> QED BY <2>1, <2>2
  <1> QED BY <1>7, <1>11, <1>12, <1>13 DEF FilesOfWorld, xs

(***************************************************************************)
(* The run                                                                 *)
(***************************************************************************)
\* While the graph is made, what has been parsed are the files discovered,
\* from the first one on, and in the end all of them.
ParsesInOrder(ps, xs) ==
  /\ IsList(ps) /\ Len(ps) <= Len(xs)
  /\ \A i \in DOMAIN ps : \E mode \in Modes :
       ps[i] = [file |-> xs[i].file, module |-> xs[i].module, mode |-> mode]

Making == {"construct", "parse", "assemble", "write"}

FilesInv ==
  /\ world \in DOMAIN Worlds
  /\ stage \in {"acquire", "fetch", "discover"} => parsed = <<>>
  /\ stage \in Making => /\ FilesOfWorld(FilesOf(modules), Tree)
                         /\ ParsesInOrder(parsed, FilesOf(modules))
  /\ stage \in {"assemble", "write"} => Len(parsed) = Len(FilesOf(modules))

\* The next file is the next of the list.
LEMMA ParseNext ==
  ASSUME NEW ps, NEW xs, ParsesInOrder(ps, xs), IsList(xs), Len(ps) + 1 <= Len(xs),
         NEW mode \in Modes, NEW x,
         x = [file |-> xs[Len(ps) + 1].file, module |-> xs[Len(ps) + 1].module, mode |-> mode]
  PROVE  ParsesInOrder(Append(ps, x), xs)
  <1> DEFINE n == Len(ps)
             s == Append(ps, x)
  <1>1. IsList(ps) /\ n \in Nat /\ DOMAIN ps = 1..n /\ Len(xs) \in Nat
    BY ListDef DEF ParsesInOrder
  <1>2. /\ IsList(s) /\ Len(s) = n + 1 /\ DOMAIN s = 1..(n + 1) /\ s[n + 1] = x
        /\ \A i \in 1..n : s[i] = ps[i]
    <2> DEFINE T == ToSet(ps) \cup {x}
    <2>1. ps \in Seq(T) /\ x \in T
      BY <1>1, SeqOver
    <2> HIDE DEF T
    <2>2. /\ s \in Seq(T) /\ Len(s) = n + 1 /\ DOMAIN s = 1..(n + 1) /\ s[n + 1] = x
          /\ \A i \in 1..n : s[i] = ps[i]
      BY <1>1, <2>1
    <2> QED BY <2>2, ListOf
  <1> HIDE DEF s
  <1>3. ASSUME NEW i \in DOMAIN s
        PROVE  \E m \in Modes : s[i] = [file |-> xs[i].file, module |-> xs[i].module, mode |-> m]
    <2>1. CASE i \in 1..n
      BY <1>1, <1>2, <2>1 DEF ParsesInOrder
    <2>2. CASE i = n + 1
      BY <1>2, <2>2
    <2>3. i \in 1..n \/ i = n + 1
      BY <1>1, <1>2
    <2> QED BY <2>1, <2>2, <2>3
  <1> QED BY <1>2, <1>3 DEF ParsesInOrder, s

\* At first none is parsed.
LEMMA NothingParsed ==
  ASSUME NEW xs, IsList(xs)
  PROVE  ParsesInOrder(<<>>, xs)
  <1>1. IsList(<<>>) /\ Len(<<>>) = 0 /\ DOMAIN <<>> = {} /\ Len(xs) \in Nat
    BY OneElement, ListDef
  <1> QED BY <1>1 DEF ParsesInOrder

\* The body of the try block keeps this, and the acquirer parses nothing.
LEMMA FilesInvHolds == Spec => []FilesInv
<1>1. Init => FilesInv
  BY DEF Init, FilesInv, Making
<1>2. ASSUME FilesInv, [Next]_vars PROVE FilesInv'
  <2>1. CASE UNCHANGED <<world, modules, parsed>> /\ stage' \in {stage, "later", "cleanup", "ended"}
    BY <1>2, <2>1 DEF FilesInv, Tree, Making
  <2>2. CASE AcquireLocal \/ MakeTemp \/ Clone \/ Extract
    BY <1>2, <2>2 DEF FilesInv, Making, AcquireLocal, MakeTemp, Clone, Extract, GoTo
  <2>3. CASE Construct
    BY <1>2, <2>3 DEF FilesInv, Tree, Making, Construct, GoTo
  <2>4. CASE AllParsed
    BY <1>2, <2>4 DEF FilesInv, Tree, Making, AllParsed, GoTo
  <2>5. CASE AssembleGraph
    BY <1>2, <2>5 DEF FilesInv, Tree, Making, AssembleGraph, GoTo
  <2>6. CASE DiscoverSources
    <3>1. PICK listing \in Listings[world] : modules' = Discover(Tree, listing)
      BY <2>6 DEF DiscoverSources
    <3>2. world' = world /\ parsed' = <<>> /\ stage' = "construct"
      BY <1>2, <2>6 DEF DiscoverSources, GoTo, FilesInv
    <3>3. IsWorld(Tree) /\ IsListing(Tree, listing)
      BY <1>2, WorldsAssumption DEF FilesInv, Tree
    <3>4. PICK dirs : Finds(modules', Tree, dirs)
      BY <3>1, <3>3, DiscoverFinds
    <3>5. FilesOfWorld(FilesOf(modules'), Tree)
      BY <3>3, <3>4, FilesOfSpec
    <3>6. ParsesInOrder(<<>>, FilesOf(modules'))
      BY <3>5, NothingParsed DEF FilesOfWorld
    <3> QED BY <1>2, <3>2, <3>5, <3>6 DEF FilesInv, Tree, Making
  <2>7. CASE ParseFile
    <3> DEFINE xs == FilesOf(modules)
               next == Len(parsed) + 1
    <3>1. next <= Len(xs) /\ UNCHANGED <<world, modules, stage>> /\ stage = "parse"
      BY <2>7 DEF ParseFile
    <3>2. PICK mode \in Modes :
            parsed' = Append(parsed, [file |-> xs[next].file, module |-> xs[next].module,
                                      mode |-> mode])
      BY <2>7 DEF ParseFile
    <3>3. FilesOfWorld(xs, Tree) /\ IsList(xs) /\ ParsesInOrder(parsed, xs)
      BY <1>2, <3>1 DEF FilesInv, Making, FilesOfWorld
    <3>4. ParsesInOrder(parsed', xs)
      BY <3>1, <3>2, <3>3, ParseNext
    <3> QED BY <1>2, <3>1, <3>3, <3>4 DEF FilesInv, Tree, Making
  <2>8. \/ UNCHANGED <<world, modules, parsed>> /\ stage' \in {stage, "later", "cleanup", "ended"}
        \/ AcquireLocal \/ MakeTemp \/ Clone \/ Extract \/ Construct \/ AllParsed \/ AssembleGraph
        \/ DiscoverSources \/ ParseFile
    BY <1>2 DEF Next, Progress, Failure, Ended, vars, GoTo, End, Leave, WriteGraph, Later, Cleanup,
       Refuse, CloneFails, ExtractFails, AcquireRaises, BodyRaises, Interrupt, Kill
  <2> QED BY <2>1, <2>2, <2>3, <2>4, <2>5, <2>6, <2>7, <2>8
<1> QED BY <1>1, <1>2, PTL DEF Spec

IsEntry(c) == c = [file |-> c.file, module |-> c.module, mode |-> c.mode]

IsParsed(files, w) ==
  /\ IsList(files)
  /\ \A c \in ToSet(files) : IsEntry(c) /\ c.file \in DOMAIN w.files /\ c.mode \in Modes

\* When the graph is written, each file that belongs in it has been parsed,
\* once, under its own module.
LEMMA AllAreParsed ==
  ASSUME FilesInv, stage = "write"
  PROVE  /\ IsParsed(parsed, Tree)
         /\ {c.file : c \in ToSet(parsed)} = {f \in DOMAIN Tree.files : Belongs(Tree, Tree.files[f])}
         /\ \A i, j \in DOMAIN parsed : parsed[i].file = parsed[j].file => i = j
         /\ \A c \in ToSet(parsed) : c.module = <<"mod:", Tree.name[Tree.files[c.file].dir]>>
  <1> DEFINE xs == FilesOf(modules)
             ps == parsed
             B == {f \in DOMAIN Tree.files : Belongs(Tree, Tree.files[f])}
  <1>1. FilesOfWorld(xs, Tree) /\ ParsesInOrder(ps, xs) /\ Len(ps) = Len(xs)
    BY DEF FilesInv, Making
  <1> HIDE DEF xs, ps, B
  <1>2. DOMAIN ps = DOMAIN xs
    BY <1>1, ListDef DEF FilesOfWorld, ParsesInOrder
  <1>3. /\ IsList(ps) /\ \A i \in DOMAIN xs : /\ ps[i].file = xs[i].file /\ ps[i].module = xs[i].module
                                              /\ ps[i].mode \in Modes /\ IsEntry(ps[i])
    BY <1>1, <1>2 DEF ParsesInOrder, IsEntry
  <1>4. /\ {x.file : x \in ToSet(xs)} = B /\ \A i, j \in DOMAIN xs : xs[i].file = xs[j].file => i = j
        /\ \A x \in ToSet(xs) : x.module = <<"mod:", Tree.name[Tree.files[x.file].dir]>>
    BY <1>1 DEF FilesOfWorld, B
  <1>5. \A i \in DOMAIN xs : xs[i] \in ToSet(xs) /\ xs[i].file \in B
    BY <1>4 DEF ToSet
  <1>6. {c.file : c \in ToSet(ps)} = B
    <2>1. ASSUME NEW c \in ToSet(ps) PROVE c.file \in B
      BY <1>2, <1>3, <1>5 DEF ToSet
    <2>2. ASSUME NEW f \in B PROVE \E c \in ToSet(ps) : c.file = f
      <3>1. PICK i \in DOMAIN xs : xs[i].file = f
        BY <1>4 DEF ToSet
      <3> QED BY <1>2, <1>3, <3>1 DEF ToSet
    <2> QED BY <2>1, <2>2
  <1>7. \A c \in ToSet(ps) : /\ c.file \in B /\ c.mode \in Modes
                             /\ c.module = <<"mod:", Tree.name[Tree.files[c.file].dir]>>
    BY <1>2, <1>3, <1>4, <1>5 DEF ToSet
  <1>8. B \subseteq DOMAIN Tree.files
    BY DEF B
  <1>9. IsParsed(ps, Tree)
    <2>1. \A c \in ToSet(ps) : IsEntry(c)
      BY <1>2, <1>3 DEF ToSet
    <2> QED BY <1>3, <1>7, <1>8, <2>1 DEF IsParsed
  <1>10. \A i, j \in DOMAIN ps : ps[i].file = ps[j].file => i = j
    BY <1>2, <1>3, <1>4
  <1> QED BY <1>6, <1>7, <1>9, <1>10 DEF B, ps

\* Of every file parsed there is an envelope and the fragment made of it.
LEMMA FragmentsGood ==
  ASSUME NEW w, IsWorld(w), NEW files, IsParsed(files, w)
  PROVE  /\ IsCorpus(Fragments(w, files))
         /\ \A c \in ToSet(files) :
              \E x \in ToSet(Fragments(w, files)) :
                x.parsed = Envelope(w, c.file, c.mode) /\ HasType(x.fragment, x.parsed, c.module)
  <1> DEFINE P(c) == Envelope(w, c.file, c.mode)
             f == [i \in DOMAIN files |->
                     [parsed |-> P(files[i]), fragment |-> Build(P(files[i]), files[i].module)]]
  <1>1. Fragments(w, files) = <<>> \o f
    BY DEF Fragments, Each
  <1>2. IsList(files) /\ f = [i \in DOMAIN files |-> f[i]]
    BY DEF IsParsed
  <1>3. \A i \in DOMAIN files : /\ f[i].parsed = P(files[i])
                                /\ f[i].fragment = Build(f[i].parsed, files[i].module)
    OBVIOUS
  <1>4. \A i \in DOMAIN files : IsEnvelope(P(files[i]))
    <2> SUFFICES ASSUME NEW i \in DOMAIN files PROVE IsEnvelope(P(files[i]))
      OBVIOUS
    <2>1. files[i].file \in DOMAIN w.files /\ files[i].mode \in Modes
      BY DEF IsParsed, ToSet
    <2>2. IsSource(w.files[files[i].file].source)
      BY <2>1 DEF IsWorld, ToSet
    <2> QED BY <2>1, <2>2, EnvelopeGood
  <1> HIDE DEF f, P
  <1>5. IsList(f) /\ <<>> \o f = f /\ DOMAIN f = DOMAIN files
    BY <1>2, EachList
  <1>6. \A i \in DOMAIN files : /\ IsPart(f[i].fragment)
                                /\ Calling(f[i].parsed.methods, f[i].fragment.edges)
                                /\ HasType(f[i].fragment, f[i].parsed, files[i].module)
    BY <1>3, <1>4, BuildGood
  <1>7. IsCorpus(f)
    BY <1>3, <1>4, <1>5, <1>6 DEF IsCorpus, ToSet
  <1>8. \A i \in DOMAIN files : f[i] \in ToSet(f) /\ f[i].parsed = P(files[i])
    BY <1>3, <1>5 DEF ToSet
  <1> QED BY <1>1, <1>5, <1>6, <1>7, <1>8 DEF P, ToSet

\* No call on a name is lost while the places of resolved ones are taken out
\* of the list of edges: for any tree on disk, any order of listing and any
\* way its files parse, each is in the graph that is written as unresolved or
\* as edges to all methods of that name in one class.
THEOREM CallsAreTraced == Spec => []CallsTraced
<1>1. FilesInv => CallsTraced
  <2> SUFFICES ASSUME FilesInv, stage = "write", NEW c \in CallsMade, ~Contains(c[2], "()")
               PROVE  HasTrace(Graph, c[1], c[2])
    BY DEF CallsTraced
  <2>1. PICK d \in ToSet(parsed) : \E m \in ToSet(Envelope(Tree, d.file, d.mode).methods) :
          c \in {m.id} \X ToSet(m.calls)
    BY DEF CallsMade
  <2>2. PICK m \in ToSet(Envelope(Tree, d.file, d.mode).methods) : c \in {m.id} \X ToSet(m.calls)
    BY <2>1
  <2>3. c[1] = m.id /\ c[2] \in ToSet(m.calls)
    BY <2>2
  <2> DEFINE corpus == Fragments(Tree, parsed)
  <2>4. IsWorld(Tree) /\ IsParsed(parsed, Tree)
    BY WorldsAssumption, AllAreParsed DEF FilesInv, Tree
  <2>5. IsCorpus(corpus) /\ \E x \in ToSet(corpus) : x.parsed = Envelope(Tree, d.file, d.mode)
    BY <2>4, FragmentsGood
  <2>6. Graph = Assemble(corpus)
    BY DEF Graph
  <2> HIDE DEF corpus
  <2>7. PICK x \in ToSet(corpus) : x.parsed = Envelope(Tree, d.file, d.mode)
    BY <2>5
  <2>8. m \in ToSet(x.parsed.methods)
    BY <2>2, <2>7
  <2>9. HasTrace(Assemble(corpus), m.id, c[2])
    BY <2>3, <2>5, <2>8, AssembleTraces
  <2> QED BY <2>3, <2>6, <2>9
<1> QED BY <1>1, FilesInvHolds, PTL

\* Every file that belongs in the graph is in it, once and under its own
\* module, and no other: for any tree on disk and any patterns, any order of
\* listing and any way its files parse.
THEOREM FilesAreInTheGraph == Spec => []ModulesKeepTheirFiles
<1>1. FilesInv => ModulesKeepTheirFiles
  <2> SUFFICES ASSUME FilesInv, stage = "write"
               PROVE  ModulesKeepTheirFiles
    BY DEF ModulesKeepTheirFiles
  <2> DEFINE Id(c) == Envelope(Tree, c.file, c.mode).id
             Holder(c) == <<"mod:", Tree.name[Tree.files[c.file].dir]>>
             corpus == Fragments(Tree, parsed)
  <2>1. /\ IsParsed(parsed, Tree)
        /\ {c.file : c \in ToSet(parsed)} = {f \in DOMAIN Tree.files : Belongs(Tree, Tree.files[f])}
        /\ \A i, j \in DOMAIN parsed : parsed[i].file = parsed[j].file => i = j
        /\ \A c \in ToSet(parsed) : c.module = Holder(c)
    BY AllAreParsed
  <2>2. IsInjective(Each(parsed, LAMBDA c : c.file))
    <3> DEFINE f == [i \in DOMAIN parsed |-> parsed[i].file]
    <3>1. Each(parsed, LAMBDA c : c.file) = <<>> \o f
      BY DEF Each
    <3>2. IsInjective(f) /\ f = [i \in DOMAIN parsed |-> f[i]]
      BY <2>1 DEF IsInjective
    <3> HIDE DEF f
    <3>3. <<>> \o f = f
      BY <2>1, <3>2, EachList DEF IsParsed
    <3> QED BY <3>1, <3>2, <3>3
  <2>3. IsWorld(Tree)
    BY WorldsAssumption DEF FilesInv, Tree
  <2>4. Graph = Assemble(corpus)
    BY DEF Graph
  <2>5. IsCorpus(corpus) /\ \A c \in ToSet(parsed) :
          \E x \in ToSet(corpus) : x.parsed = Envelope(Tree, c.file, c.mode)
                                   /\ HasType(x.fragment, x.parsed, c.module)
    BY <2>1, <2>3, FragmentsGood
  <2> HIDE DEF corpus
  <2>6. ASSUME NEW c \in ToSet(parsed)
        PROVE  /\ \E n \in Graph.nodes : n.id = Id(c)
               /\ ContainsEdge(Holder(c), Id(c)) \in Graph.edges
    <3>1. PICK x \in ToSet(corpus) : /\ x.parsed = Envelope(Tree, c.file, c.mode)
                                     /\ HasType(x.fragment, x.parsed, c.module)
      BY <2>5
    <3>2. x.parsed.id = Id(c) /\ c.module = Holder(c)
      BY <2>1, <3>1
    <3>3. /\ \E n \in Assemble(corpus).nodes : n.id = x.parsed.id
          /\ ContainsEdge(c.module, x.parsed.id) \in Assemble(corpus).edges
      BY <2>5, <3>1, AssembleHasType
    <3> HIDE DEF Id, Holder
    <3> QED BY <2>4, <3>2, <3>3
  <2> QED BY <2>1, <2>2, <2>6 DEF ModulesKeepTheirFiles
<1> QED BY <1>1, FilesInvHolds, PTL

(***************************************************************************)
(* The corpus of a run                                                     *)
(***************************************************************************)
\* What the envelope of a file is called and where it is from.
LEMMA EnvelopeSays ==
  ASSUME NEW w, NEW f, NEW mode \in Modes, IsSource(w.files[f].source)
  PROVE  LET p == Envelope(w, f, mode)
             s == w.files[f].source
         IN /\ mode = "ast" => p.id = TypeId(s) /\ p.kind = s.kind /\ p.mode = "ast"
            /\ mode # "ast" => p.mode = "regex"
            /\ mode = "regex" /\ s.matched /\ s.first.name = s.name /\ s.package # <<>> =>
                 p.id = TypeId(s)
  <1> DEFINE p == Envelope(w, f, mode)
             s == w.files[f].source
             path == w.files[f].path
             stem == w.files[f].stem
  <1>1. CASE mode = "ast"
    <2>1. p = Ast(s) /\ s.kind \in Kinds
      BY <1>1 DEF Envelope, IsSource
    <2>2. p.id = TypeId(s) /\ p.kind = s.kind /\ p.mode = "ast"
      <3> HIDE DEF p, s
      <3> QED BY <2>1 DEF Ast, AstClass, AstInterface, AstEnum, AstRecord, AstAnnotationType,
                 AstBase, Blank, Kinds
    <2> QED BY <1>1, <2>2
  <1>2. CASE mode = "regex"
    <2>1. p = Regex(s, path, stem)
      BY <1>2 DEF Envelope
    <2>2. CASE ~s.matched
      <3>1. p.mode = "regex"
        BY <2>1, <2>2 DEF Regex, EmptyEnvelope, Blank
      <3> QED BY <1>2, <2>2, <3>1
    <2>3. CASE s.matched
      <3>1. PICK id : /\ p = RegexEnvelope(s, id)
                      /\ id = IF s.package = <<>> THEN FileId(path, s.first.name) ELSE FirstId(s)
        BY <2>1, <2>3 DEF Regex
      <3>2. p.id = id /\ p.mode = "regex"
        <4> HIDE DEF p, s
        <4> QED BY <3>1 DEF RegexEnvelope, Blank
      <3>3. s.first.name = s.name => FirstId(s) = TypeId(s)
        BY DEF FirstId, TypeId
      <3> HIDE DEF p
      <3> QED BY <1>2, <2>3, <3>1, <3>2, <3>3 DEF p
    <2> QED BY <2>2, <2>3
  <1>3. CASE mode = "unreadable"
    <2>1. p = EmptyEnvelope(path, stem)
      BY <1>3 DEF Envelope
    <2>2. p.mode = "regex"
      BY <2>1 DEF EmptyEnvelope, Blank
    <2> QED BY <1>3, <2>2
  <1> QED BY <1>1, <1>2, <1>3 DEF Modes

\* Files that belong in the graph, once each, as the dispatcher parses them.
Settled(files, w) ==
  /\ IsParsed(files, w)
  /\ \A i, j \in DOMAIN files : files[i].file = files[j].file => i = j
  /\ \A c \in ToSet(files) : /\ Belongs(w, w.files[c.file])
                             /\ c.mode = "ast" => w.files[c.file].source.declares

\* What the loop of CorpusAnalyzer collects of a file.
Part(w, c) ==
  [parsed |-> Envelope(w, c.file, c.mode), fragment |-> Build(Envelope(w, c.file, c.mode), c.module)]

\* It is collected in the order of the files.
LEMMA FragmentsAre ==
  ASSUME NEW w, NEW files, IsList(files)
  PROVE  /\ DOMAIN Fragments(w, files) = DOMAIN files
         /\ \A i \in DOMAIN files : Fragments(w, files)[i] = Part(w, files[i])
         /\ ToSet(Fragments(w, files)) = {Part(w, c) : c \in ToSet(files)}
  <1> DEFINE f == [i \in DOMAIN files |-> Part(w, files[i])]
  <1>1. Fragments(w, files) = <<>> \o f
    BY DEF Fragments, Each, Part
  <1>2. f = [i \in DOMAIN files |-> f[i]] /\ \A i \in DOMAIN files : f[i] = Part(w, files[i])
    OBVIOUS
  <1> HIDE DEF f
  <1>3. <<>> \o f = f /\ DOMAIN f = DOMAIN files
    BY <1>2, EachList
  <1>4. ToSet(f) = {Part(w, c) : c \in ToSet(files)}
    BY <1>2, <1>3 DEF ToSet
  <1> QED BY <1>1, <1>2, <1>3, <1>4

\* The fragments of files that came out under different names can be told
\* from each other.
LEMMA FragmentsProper ==
  ASSUME NEW w, IsWorld(w), NEW files, Settled(files, w), NamesApart(w, files)
  PROVE  Proper(Fragments(w, files))
  <1> DEFINE corpus == Fragments(w, files)
  <1>1. IsCorpus(corpus) /\ IsParsed(files, w)
    BY FragmentsGood DEF Settled
  <1>2. /\ DOMAIN corpus = DOMAIN files /\ ToSet(corpus) = {Part(w, c) : c \in ToSet(files)}
        /\ \A i \in DOMAIN files : corpus[i] = Part(w, files[i])
    BY <1>1, FragmentsAre DEF IsParsed
  <1> HIDE DEF corpus
  <1>3. ASSUME NEW c \in ToSet(files)
        PROVE  /\ Part(w, c).parsed = Envelope(w, c.file, c.mode)
               /\ IsFragment(Part(w, c).fragment, Part(w, c).parsed)
    <2>1. /\ Part(w, c).parsed = Envelope(w, c.file, c.mode)
          /\ Part(w, c).fragment = Build(Envelope(w, c.file, c.mode), c.module)
      BY DEF Part
    <2>2. IsEnvelope(Part(w, c).parsed)
      BY <1>1, <1>2 DEF IsCorpus
    <2> QED BY <2>1, <2>2, BuildExact
  <1>4. ASSUME NEW i \in DOMAIN corpus, NEW j \in DOMAIN corpus, i # j
        PROVE  Apart(corpus[i].parsed.id, corpus[j].parsed.id)
    <2>1. /\ files[i] \in ToSet(files) /\ files[j] \in ToSet(files)
          /\ files[i].file # files[j].file
      BY <1>2, <1>4 DEF Settled, ToSet
    <2>2. Apart(Envelope(w, files[i].file, files[i].mode).id, Envelope(w, files[j].file, files[j].mode).id)
      BY <2>1 DEF NamesApart
    <2> QED BY <1>2, <1>3, <1>4, <2>1, <2>2
  <1>5. Proper(corpus)
    BY <1>1, <1>2, <1>3, <1>4 DEF Proper
  <1> QED BY <1>5 DEF corpus

\* The files in the order of their paths are the same files.
LEMMA SortedSettled ==
  ASSUME NEW w, IsWorld(w), NEW ps, Settled(ps, w), NEW sorted,
         sorted = FlattenSeq([f \in DOMAIN w.files |-> Keep(ps, {c \in ToSet(ps) : c.file = f})])
  PROVE  Settled(sorted, w) /\ ToSet(sorted) = ToSet(ps)
  <1> DEFINE S(f) == {c \in ToSet(ps) : c.file = f}
             ss == [f \in DOMAIN w.files |-> Keep(ps, S(f))]
  <1>1. /\ IsList(ps) /\ ps \in Seq(ToSet(ps)) /\ IsList(w.files)
        /\ \A c \in ToSet(ps) : c.file \in DOMAIN w.files
    BY ListDef DEF Settled, IsParsed, IsWorld
  <1>2. \A i, j \in DOMAIN ps : ps[i] = ps[j] => i = j
    BY DEF Settled
  <1>3. ss = [f \in DOMAIN w.files |-> ss[f]] /\ \A f \in DOMAIN w.files : ss[f] = Keep(ps, S(f))
    OBVIOUS
  <1>4. \A f : \A c : c \in S(f) <=> c \in ToSet(ps) /\ c.file = f
    OBVIOUS
  <1>5. sorted = FlattenSeq(ss)
    OBVIOUS
  <1> HIDE DEF S, ss
  <1>6. IsList(ss) /\ DOMAIN ss = DOMAIN w.files
    BY <1>1, <1>3, EachList
  <1>7. ASSUME NEW f \in DOMAIN ss
        PROVE  IsList(ss[f]) /\ ToSet(ss[f]) = S(f) /\ IsInjective(ss[f])
    <2> DEFINE T == S(f)
    <2>0. ss[f] = Keep(ps, T)
      BY <1>3, <1>6
    <2>1. IsList(ss[f]) /\ ToSet(ss[f]) = ToSet(ps) \cap S(f)
      <3>1. IsList(Keep(ps, T)) /\ ToSet(Keep(ps, T)) = ToSet(ps) \cap T
        <4> HIDE DEF T
        <4> QED BY <1>1, KeepList
      <3> QED BY <2>0, <3>1
    <2>2. \A i, j \in DOMAIN ss[f] : ss[f][i] = ss[f][j] => i = j
      <3>1. ss[f] = Keep(ps, S(f))
        BY <1>3, <1>6
      <3> QED BY <1>1, <1>2, <3>1, KeepDistinct
    <2> QED BY <1>4, <2>1, <2>2 DEF IsInjective
  <1>8. \A f, g \in DOMAIN ss : f # g => ToSet(ss[f]) \cap ToSet(ss[g]) = {}
    BY <1>4, <1>7
  <1>9. /\ IsList(sorted) /\ IsInjective(sorted)
        /\ ToSet(sorted) = UNION {ToSet(ss[f]) : f \in DOMAIN ss}
    BY <1>5, <1>6, <1>7, <1>8, FlattenList, FlattenDistinct
  <1>10. ToSet(sorted) = ToSet(ps)
    <2>1. ASSUME NEW c \in ToSet(sorted) PROVE c \in ToSet(ps)
      BY <1>4, <1>7, <1>9
    <2>2. ASSUME NEW c \in ToSet(ps) PROVE c \in ToSet(sorted)
      <3>1. c.file \in DOMAIN ss /\ c \in S(c.file)
        BY <1>1, <1>4, <1>6
      <3> QED BY <1>7, <1>9, <3>1
    <2> QED BY <2>1, <2>2
  <1>11. ASSUME NEW i \in DOMAIN sorted, NEW j \in DOMAIN sorted, sorted[i].file = sorted[j].file
         PROVE  i = j
    <2>1. sorted[i] \in ToSet(ps) /\ sorted[j] \in ToSet(ps)
      BY <1>10 DEF ToSet
    <2>2. sorted[i] = sorted[j]
      BY <1>11, <2>1 DEF Settled, ToSet
    <2> QED BY <1>9, <2>2 DEF IsInjective
  <1> QED BY <1>9, <1>10, <1>11 DEF Settled, IsParsed

\* The Java process parses no file that declares no type.
ModesInv == \A i \in DOMAIN parsed : parsed[i].mode = "ast" => Declares(parsed[i].file)

\* No other step parses a file.
LEMMA ModesInvHolds == Spec => []ModesInv
<1>1. Init => ModesInv
  BY OneElement DEF Init, ModesInv
<1>2. ASSUME FilesInv, ModesInv, [Next]_vars PROVE ModesInv'
  <2>1. CASE UNCHANGED <<world, parsed>>
    BY <1>2, <2>1 DEF ModesInv, Declares, Tree
  <2>2. CASE ParseFile
    <3> DEFINE xs == FilesOf(modules)
               next == Len(parsed) + 1
    <3>1. stage = "parse" /\ world' = world
      BY <2>2 DEF ParseFile
    <3>2. PICK x : parsed' = Append(parsed, x) /\ (x.mode = "ast" => Declares(x.file))
      <4>1. PICK mode \in Modes :
              /\ mode = "ast" => Tree.files[xs[next].file].source.declares
              /\ parsed' = Append(parsed, [file |-> xs[next].file, module |-> xs[next].module,
                                           mode |-> mode])
        BY <2>2 DEF ParseFile
      <4> QED BY <4>1 DEF Declares
    <3>3. IsList(parsed)
      BY <1>2, <3>1 DEF FilesInv, Making, ParsesInOrder
    <3> DEFINE T == ToSet(parsed) \cup {x}
    <3>4. parsed \in Seq(T) /\ x \in T
      BY <3>3, SeqOver
    <3> HIDE DEF T
    <3>5. \A i \in DOMAIN parsed' : parsed'[i] = x \/ (i \in DOMAIN parsed /\ parsed'[i] = parsed[i])
      BY <3>2, <3>4
    <3>6. \A f : Declares(f)' <=> Declares(f)
      BY <3>1 DEF Declares, Tree
    <3> QED BY <1>2, <3>2, <3>5, <3>6 DEF ModesInv
  <2>3. UNCHANGED <<world, parsed>> \/ ParseFile
    BY <1>2 DEF Next, Progress, Failure, Ended, vars, WriteGraph, Later, Cleanup, Refuse, CloneFails,
       ExtractFails, AcquireRaises, BodyRaises, Interrupt, Kill, AcquireLocal, MakeTemp, Clone, Extract,
       DiscoverSources, Construct, AllParsed, AssembleGraph
  <2> QED BY <2>1, <2>2, <2>3
<1> QED BY <1>1, <1>2, FilesInvHolds, PTL DEF Spec

\* When the graph is written, that is what has been parsed.
LEMMA ParsedSettled ==
  ASSUME FilesInv, ModesInv, stage = "write"
  PROVE  IsWorld(Tree) /\ Settled(parsed, Tree)
  <1>1. IsWorld(Tree)
    BY WorldsAssumption DEF FilesInv, Tree
  <1>2. /\ IsParsed(parsed, Tree)
        /\ \A c \in ToSet(parsed) : Belongs(Tree, Tree.files[c.file])
        /\ \A i, j \in DOMAIN parsed : parsed[i].file = parsed[j].file => i = j
    BY AllAreParsed
  <1>3. \A c \in ToSet(parsed) : c.mode = "ast" => Tree.files[c.file].source.declares
    BY DEF ModesInv, Declares, ToSet
  <1> QED BY <1>1, <1>2, <1>3 DEF Settled

\* The graph is the same in whatever order the operating system lists the
\* directories, of any tree of which no two files come out under one name: what
\* the assembler looks up in its lists, and which of two nodes it keeps, is
\* told by one file alone.
THEOREM GraphIsOrderFree == Spec => []OrderIndependent
<1>1. FilesInv /\ ModesInv => OrderIndependent
  <2> SUFFICES ASSUME FilesInv, ModesInv, stage = "write", NamesApart(Tree, parsed)
               PROVE  OrderIndependent
    BY DEF OrderIndependent
  <2> DEFINE sorted == FlattenSeq([f \in DOMAIN Tree.files |->
                                     Keep(parsed, {c \in ToSet(parsed) : c.file = f})])
             a == Fragments(Tree, parsed)
             b == Fragments(Tree, sorted)
  <2>1. IsWorld(Tree) /\ Settled(parsed, Tree)
    BY ParsedSettled
  <2>2. OrderIndependent <=> Assemble(a) = Assemble(b)
    BY DEF OrderIndependent, Graph
  <2>3. Settled(sorted, Tree) /\ ToSet(sorted) = ToSet(parsed)
    BY <2>1, SortedSettled
  <2> HIDE DEF sorted
  <2>4. ToSet(a) = ToSet(b)
    <3>1. IsList(parsed) /\ IsList(sorted)
      BY <2>1, <2>3 DEF Settled, IsParsed
    <3>2. ToSet(a) = {Part(Tree, c) : c \in ToSet(parsed)}
      BY <3>1, FragmentsAre
    <3>3. ToSet(b) = {Part(Tree, c) : c \in ToSet(sorted)}
      BY <3>1, FragmentsAre
    <3> HIDE DEF a, b
    <3> QED BY <2>3, <3>2, <3>3
  <2>5. Proper(a) /\ Proper(b)
    <3>1. NamesApart(Tree, sorted)
      BY <2>3 DEF NamesApart
    <3> QED BY <2>1, <2>3, <3>1, FragmentsProper
  <2> HIDE DEF a, b
  <2>6. Assemble(a) = Assemble(b)
    BY <2>4, <2>5, AssembleOrderFree DEF Reordered
  <2> QED BY <2>2, <2>6
<1> QED BY <1>1, FilesInvHolds, ModesInvHolds, PTL

(***************************************************************************)
(* References between files                                                *)
(***************************************************************************)
\* The edges that the assembler adds are a file's own, and of two kinds.
LEMMA AddedEdgesKind ==
  ASSUME NEW e, NEW p, NEW map, NEW ids, AddsEdge(e, p, map, ids)
  PROVE  e.kind \in {"depends_on", "relation"} /\ e.source = p.id /\ e.target \in ids
  BY DEF AddsEdge, DependsOnEdge, RelationEdge, Edge

\* Whether one is added depends on the other nodes of the graph by its target.
LEMMA AddedForTarget ==
  ASSUME NEW e, NEW p, NEW map, NEW ids, NEW more, e.target \in more,
         AddsEdge(e, p, map, ids)
  PROVE  AddsEdge(e, p, map, more)
  BY DEF AddsEdge, DependsOnEdge, RelationEdge, Edge

\* A file's names are told by its own imports.
LEMMA OwnImportMap ==
  ASSUME NEW corpus, Proper(corpus), NEW c \in ToSet(corpus)
  PROVE  ImportMapOf(corpus, c.parsed.id) = ImportMap(c.parsed)
  <1>1. OwnImports(c.parsed.id, ImportMapOf(corpus, c.parsed.id), corpus)
    BY ImportsSpec
  <1>2. PICK d \in ToSet(corpus) : /\ d.parsed.id = c.parsed.id
                                   /\ ImportMapOf(corpus, c.parsed.id) = ImportMap(d.parsed)
    BY <1>1 DEF OwnImports
  <1>3. ~Apart(d.parsed.id, c.parsed.id)
    BY <1>2 DEF Apart
  <1>4. d = c
    BY <1>3, ProperOnce
  <1> QED BY <1>2, <1>4

\* What the assembler has gathered before it resolves calls.
Gathered(corpus) == AllEdges(corpus) \o CrossEdges(corpus, NodeIds(AllNodes(corpus)))

\* These are the edges that are left or resolved; they are those of the files
\* and the references between them.
LEMMA AssembledEdges ==
  ASSUME NEW corpus, Proper(corpus)
  PROVE  /\ IsList(AllNodes(corpus)) /\ IsList(Gathered(corpus))
         /\ \A e : e \in Assemble(corpus).edges
                     <=> Resolution(e, Gathered(corpus), corpus, AllNodes(corpus))
         /\ \A e : e \in ToSet(Gathered(corpus)) <=>
              \/ e \in ToSet(AllEdges(corpus))
              \/ \E c \in ToSet(corpus) :
                   AddsEdge(e, c.parsed, ImportMap(c.parsed), NodeIds(AllNodes(corpus)))
         /\ \A e \in ToSet(AllEdges(corpus)) :
              \E c \in ToSet(corpus) : IsOwnEdge(e, ToSet(c.fragment.nodes), c.parsed)
  <1> DEFINE nodes == AllNodes(corpus)
             ids == NodeIds(nodes)
             own == AllEdges(corpus)
             cross == CrossEdges(corpus, ids)
             s == own \o cross
  <1>1. IsCorpus(corpus)
    BY DEF Proper
  <1>2. IsList(nodes) /\ IsList(own) /\ IsList(cross)
    BY <1>1, AllNodesGood, AllEdgesGood, CrossEdgesExact
  <1>3. \A e : e \in ToSet(cross) <=>
          \E c \in ToSet(corpus) : AddsEdge(e, c.parsed, ImportMapOf(corpus, c.parsed.id), ids)
    BY <1>1, CrossEdgesExact
  <1>4. \A e : e \in ToSet(cross) <=>
          \E c \in ToSet(corpus) : AddsEdge(e, c.parsed, ImportMap(c.parsed), ids)
    <2> HIDE DEF ids, cross
    <2> QED BY <1>3, OwnImportMap
  <1>5. \A e \in ToSet(own) :
          \E c \in ToSet(corpus) : IsOwnEdge(e, ToSet(c.fragment.nodes), c.parsed)
    BY <1>1, AllEdgesGood DEF Proper, IsFragment
  <1>6. Gathered(corpus) = s /\ Assemble(corpus).edges = ToSet(ResolveCalls(s, corpus, nodes))
    BY DEF Gathered, Assemble
  <1> HIDE DEF own, cross, nodes, ids
  <1>7. IsList(s) /\ ToSet(s) = ToSet(own) \cup ToSet(cross)
    BY <1>2, ConcatList
  <1> HIDE DEF s
  <1>8. \A e : e \in ToSet(ResolveCalls(s, corpus, nodes)) <=> Resolution(e, s, corpus, nodes)
    BY <1>2, <1>7, ResolveCallsExact
  <1> QED BY <1>2, <1>4, <1>5, <1>6, <1>7, <1>8 DEF own, nodes, ids

\* The references of a file to others, in the graph.
LEMMA OwnReferences ==
  ASSUME NEW corpus, Proper(corpus), NEW c \in ToSet(corpus), NEW e, e.source = c.parsed.id,
         e.kind \in {"depends_on", "relation"}
  PROVE  e \in Assemble(corpus).edges
           <=> AddsEdge(e, c.parsed, ImportMap(c.parsed), NodeIds(AllNodes(corpus)))
  <1> DEFINE ids == NodeIds(AllNodes(corpus))
  <1>1. ~Promotes(e, corpus, AllNodes(corpus))
    BY DEF Promotes
  <1>2. \A m, x : e # CallsResolvedEdge(x, m)
    BY DEF CallsResolvedEdge, Edge
  <1>3. e \in Assemble(corpus).edges <=> e \in ToSet(Gathered(corpus))
    BY <1>1, <1>2, AssembledEdges DEF Resolution
  <1>4. e \notin ToSet(AllEdges(corpus))
    <2> SUFFICES ASSUME e \in ToSet(AllEdges(corpus)) PROVE FALSE
      OBVIOUS
    <2>1. PICK d \in ToSet(corpus) : IsOwnEdge(e, ToSet(d.fragment.nodes), d.parsed)
      BY AssembledEdges
    <2> QED BY <2>1 DEF IsOwnEdge, CallsUnresolvedEdge, Edge
  <1>5. ASSUME NEW d \in ToSet(corpus), AddsEdge(e, d.parsed, ImportMap(d.parsed), ids)
        PROVE  d = c
    <2>1. d.parsed.id = c.parsed.id
      BY <1>5, AddedEdgesKind
    <2>2. ~Apart(d.parsed.id, c.parsed.id)
      BY <2>1 DEF Apart
    <2> QED BY <2>2, ProperOnce
  <1> QED BY <1>3, <1>4, <1>5, AssembledEdges

\* The type of a file has a node.
LEMMA TypeHasNode ==
  ASSUME NEW corpus, Proper(corpus), NEW c \in ToSet(corpus)
  PROVE  c.parsed.id \in NodeIds(AllNodes(corpus))
  <1>1. PICK i \in DOMAIN corpus : corpus[i] = c
    BY DEF ToSet
  <1>2. 1 \in DOMAIN c.fragment.nodes /\ c.fragment.nodes[1].id = c.parsed.id
    BY DEF Proper, IsFragment, IsTypeNode
  <1>3. c.fragment.nodes[1] \in ToSet(AllNodes(corpus))
    <2>1. c.fragment.nodes[1] \in ToSet(c.fragment.nodes)
      BY <1>2 DEF ToSet
    <2> QED BY <1>1, <2>1, AllNodesGood DEF Proper
  <1> QED BY <1>2, <1>3 DEF NodeIds, ToSet

\* The same file, parsed by the Java process if that can be.
UpgradedFile(w, c) == IF w.files[c.file].source.declares THEN [c EXCEPT !.mode = "ast"] ELSE c

\* The files remain what they are.
\* The same files remain, each once.
LEMMA UpgradedSettled ==
  ASSUME NEW w, NEW ps, Settled(ps, w), NEW full, full = Each(ps, LAMBDA c : UpgradedFile(w, c))
  PROVE  Settled(full, w) /\ ToSet(full) = {UpgradedFile(w, c) : c \in ToSet(ps)}
  <1> DEFINE f == [i \in DOMAIN ps |-> UpgradedFile(w, ps[i])]
  <1>1. full = <<>> \o f /\ IsList(ps)
    BY DEF Each, Settled, IsParsed
  <1>2. f = [i \in DOMAIN ps |-> f[i]] /\ \A i \in DOMAIN ps : f[i] = UpgradedFile(w, ps[i])
    OBVIOUS
  <1> HIDE DEF f
  <1>3. full = f /\ IsList(f) /\ DOMAIN f = DOMAIN ps
    BY <1>1, <1>2, EachList
  <1>4. ToSet(full) = {UpgradedFile(w, c) : c \in ToSet(ps)}
    BY <1>2, <1>3 DEF ToSet
  <1>5. ASSUME NEW c \in ToSet(ps)
        PROVE  LET u == UpgradedFile(w, c)
               IN /\ IsEntry(u) /\ u.file = c.file /\ u.module = c.module /\ u.mode \in Modes
                  /\ u.mode = "ast" => w.files[c.file].source.declares
    <2>1. IsEntry(c) /\ c.mode \in Modes /\ (c.mode = "ast" => w.files[c.file].source.declares)
      BY DEF Settled, IsParsed
    <2>2. c = [file |-> c.file, module |-> c.module, mode |-> c.mode]
      BY <2>1 DEF IsEntry
    <2>3. CASE w.files[c.file].source.declares
      <3>1. UpgradedFile(w, c) = [file |-> c.file, module |-> c.module, mode |-> "ast"]
        BY <2>2, <2>3 DEF UpgradedFile
      <3> QED BY <2>3, <3>1 DEF IsEntry, Modes
    <2>4. CASE ~w.files[c.file].source.declares
      BY <2>1, <2>4 DEF UpgradedFile
    <2> QED BY <2>3, <2>4
  <1>6. ASSUME NEW x \in ToSet(full)
        PROVE  /\ IsEntry(x) /\ x.file \in DOMAIN w.files /\ x.mode \in Modes
               /\ Belongs(w, w.files[x.file])
               /\ x.mode = "ast" => w.files[x.file].source.declares
    <2>1. PICK c \in ToSet(ps) : x = UpgradedFile(w, c)
      BY <1>4
    <2>2. c.file \in DOMAIN w.files /\ Belongs(w, w.files[c.file])
      BY DEF Settled, IsParsed
    <2>3. /\ IsEntry(x) /\ x.file = c.file /\ x.mode \in Modes
          /\ x.mode = "ast" => w.files[c.file].source.declares
      BY <1>5, <2>1
    <2> QED BY <2>2, <2>3
  <1>7. ASSUME NEW i \in DOMAIN full, NEW j \in DOMAIN full, full[i].file = full[j].file
        PROVE  i = j
    <2>1. ASSUME NEW k \in DOMAIN full PROVE k \in DOMAIN ps /\ full[k].file = ps[k].file
      <3>1. k \in DOMAIN ps /\ full[k] = UpgradedFile(w, ps[k])
        BY <1>2, <1>3
      <3>2. ps[k] \in ToSet(ps)
        BY <3>1 DEF ToSet
      <3> QED BY <1>5, <3>1, <3>2
    <2> QED BY <1>7, <2>1 DEF Settled
  <1>8. Settled(full, w)
    BY <1>3, <1>6, <1>7 DEF Settled, IsParsed
  <1> QED BY <1>4, <1>8

\* The corpus of a run: proper, and what is in it.
LEMMA RunCorpus ==
  ASSUME NEW w, IsWorld(w), NEW files, Settled(files, w), NamesApart(w, files)
  PROVE  /\ Proper(Fragments(w, files))
         /\ ToSet(Fragments(w, files)) = {Part(w, c) : c \in ToSet(files)}
         /\ \A c \in ToSet(files) : /\ IsSource(w.files[c.file].source) /\ c.mode \in Modes
                                    /\ c.mode = "ast" => w.files[c.file].source.declares
  <1>1. Proper(Fragments(w, files))
    BY FragmentsProper
  <1>2. IsList(files)
    BY DEF Settled, IsParsed
  <1>3. ToSet(Fragments(w, files)) = {Part(w, c) : c \in ToSet(files)}
    BY <1>2, FragmentsAre
  <1>4. \A c \in ToSet(files) : /\ IsSource(w.files[c.file].source) /\ c.mode \in Modes
                                /\ c.mode = "ast" => w.files[c.file].source.declares
    BY DEF Settled, IsParsed, IsWorld, ToSet
  <1> QED BY <1>1, <1>3, <1>4

\* A type that was read under its full name has a node, in this graph as in
\* the one of the files that were all parsed.
LEMMA ReadTypesHaveNodes ==
  ASSUME NEW w, IsWorld(w), NEW files, Settled(files, w), NamesApart(w, files),
         NEW c \in ToSet(files), w.files[c.file].source.package # <<>>,
         \/ c.mode = "ast"
         \/ /\ c.mode = "regex" /\ w.files[c.file].source.matched
            /\ w.files[c.file].source.first.name = w.files[c.file].source.name
  PROVE  TypeId(w.files[c.file].source) \in NodeIds(AllNodes(Fragments(w, files)))
  <1> DEFINE corpus == Fragments(w, files)
             p == Envelope(w, c.file, c.mode)
  <1>1. /\ Proper(corpus) /\ Part(w, c) \in ToSet(corpus)
        /\ IsSource(w.files[c.file].source) /\ c.mode \in Modes
    BY RunCorpus
  <1>2. p.id = TypeId(w.files[c.file].source)
    BY <1>1, EnvelopeSays DEF Modes
  <1>3. Part(w, c).parsed = p
    BY DEF Part
  <1> HIDE DEF corpus, p
  <1>4. Part(w, c).parsed.id \in NodeIds(AllNodes(corpus))
    BY <1>1, TypeHasNode
  <1> QED BY <1>2, <1>3, <1>4 DEF corpus

\* That the Java process fails on a file costs the other files no reference:
\* a type the regular expressions read under its own full name is depended
\* upon as if it had been parsed, in any tree of which no two files come out
\* under one name. Of a type that they take for another nothing is said.
THEOREM DegradationStaysLocal == Spec => []DegradationIsLocal
<1>1. FilesInv /\ ModesInv => DegradationIsLocal
  <2> SUFFICES ASSUME FilesInv, ModesInv, stage = "write",
                      NamesApart(Tree, parsed), NamesApart(Tree, Upgraded)
               PROVE  DegradationIsLocal
    BY DEF DegradationIsLocal
  <2> DEFINE full == Each(parsed, LAMBDA c : UpgradedFile(Tree, c))
             a == Fragments(Tree, parsed)
             b == Fragments(Tree, full)
             Source(c) == Tree.files[c.file].source
             Read == {c \in ToSet(parsed) : WasRead(c)}
             Named == {TypeId(Source(c)) : c \in {r \in Read : Source(r).package # <<>>}}
             TypeEdges(edges, id) == {e \in edges : /\ e.kind \in {"depends_on", "relation"}
                                                    /\ e.source = id /\ e.target \in Named}
  <2>1. IsWorld(Tree) /\ Settled(parsed, Tree)
    BY ParsedSettled
  <2>2. Settled(full, Tree) /\ ToSet(full) = {UpgradedFile(Tree, c) : c \in ToSet(parsed)}
    BY <2>1, UpgradedSettled
  <2>3. Graph = Assemble(a) /\ FullGraph = Assemble(b) /\ NamesApart(Tree, full)
    <3>1. Upgraded = full
      BY DEF Upgraded, UpgradedFile, Declares
    <3> QED BY <3>1 DEF Graph, FullGraph
  <2> HIDE DEF full
  <2>4. /\ Proper(a) /\ ToSet(a) = {Part(Tree, c) : c \in ToSet(parsed)}
        /\ Proper(b) /\ ToSet(b) = {Part(Tree, c) : c \in ToSet(full)}
        /\ \A c \in ToSet(parsed) : /\ IsSource(Source(c)) /\ c.mode \in Modes
                                    /\ c.mode = "ast" => Source(c).declares
    BY <2>1, <2>2, <2>3, RunCorpus
  <2>5. ASSUME NEW id \in Named
        PROVE  id \in NodeIds(AllNodes(a)) /\ id \in NodeIds(AllNodes(b))
    <3>1. PICK c \in ToSet(parsed) :
            /\ Source(c).declares /\ Source(c).package # <<>> /\ id = TypeId(Source(c))
            /\ \/ c.mode = "ast"
               \/ c.mode = "regex" /\ Source(c).matched /\ Source(c).first.name = Source(c).name
      BY <2>4 DEF WasRead
    <3>2. id \in NodeIds(AllNodes(a))
      BY <2>1, <3>1, ReadTypesHaveNodes
    <3> DEFINE u == UpgradedFile(Tree, c)
    <3>3. u \in ToSet(full) /\ u.file = c.file /\ u.mode = "ast"
      <4>1. c = [file |-> c.file, module |-> c.module, mode |-> c.mode]
        BY <2>1 DEF Settled, IsParsed, IsEntry
      <4>2. u = [file |-> c.file, module |-> c.module, mode |-> "ast"]
        BY <3>1, <4>1 DEF UpgradedFile
      <4> QED BY <2>2, <4>2
    <3> HIDE DEF u
    <3>4. id \in NodeIds(AllNodes(b))
      BY <2>1, <2>2, <2>3, <3>1, <3>3, ReadTypesHaveNodes
    <3> QED BY <3>2, <3>4
  <2>6. ASSUME NEW c \in ToSet(parsed), c.mode = "ast"
        PROVE  LET id == TypeId(Source(c))
               IN TypeEdges(Graph.edges, id) = TypeEdges(FullGraph.edges, id)
    <3> DEFINE x == Part(Tree, c)
               id == TypeId(Source(c))
    <3>1. c \in ToSet(full)
      <4>1. c = [file |-> c.file, module |-> c.module, mode |-> "ast"] /\ Source(c).declares
        BY <2>1, <2>4, <2>6 DEF Settled, IsParsed, IsEntry
      <4>2. UpgradedFile(Tree, c) = c
        BY <4>1 DEF UpgradedFile
      <4> QED BY <2>2, <4>2
    <3>2. x \in ToSet(a) /\ x \in ToSet(b)
      BY <2>4, <3>1
    <3>3. x.parsed.id = id
      <4>1. Envelope(Tree, c.file, "ast").id = id
        BY <2>4, <2>6, EnvelopeSays DEF Modes
      <4> QED BY <2>6, <4>1 DEF Part
    <3> HIDE DEF a, b, x, id, Named
    <3>4. ASSUME NEW e, e.kind \in {"depends_on", "relation"}, e.source = id, e.target \in Named
          PROVE  e \in Graph.edges <=> e \in FullGraph.edges
      <4> DEFINE map == ImportMap(x.parsed)
                 ids == NodeIds(AllNodes(a))
                 more == NodeIds(AllNodes(b))
      <4>1. /\ e \in Assemble(a).edges <=> AddsEdge(e, x.parsed, map, ids)
            /\ e \in Assemble(b).edges <=> AddsEdge(e, x.parsed, map, more)
        BY <2>4, <3>2, <3>3, <3>4, OwnReferences
      <4>2. e.target \in ids /\ e.target \in more
        BY <2>5, <3>4
      <4> HIDE DEF map, ids, more
      <4> QED BY <2>3, <4>1, <4>2, AddedForTarget
    <3>5. TypeEdges(Graph.edges, id) = TypeEdges(FullGraph.edges, id)
      BY <3>4
    <3> QED BY <3>5 DEF id
  <2> HIDE DEF full, a, b
  <2> QED BY <2>6 DEF DegradationIsLocal, Declares
<1> QED BY <1>1, FilesInvHolds, ModesInvHolds, PTL

(***************************************************************************)
(* The checks of the graph                                                 *)
(***************************************************************************)
\* The id of a method gives away the class, when that has a name.
LEMMA ClassOfMethod ==
  ASSUME NEW t, Plain(t), NEW name, NEW signature, IsList(signature)
  PROVE  BeforeHash(MethodId(t, name, signature)) = t
  <1> DEFINE id == MethodId(t, name, signature)
             n == Len(t)
             I == {i \in 1..Len(id) : id[i] = Hash}
  <1>1. /\ IsList(id) /\ n \in Nat /\ {n + 1, n + 2} \subseteq DOMAIN id
        /\ \A j \in 1..n : j \in DOMAIN id /\ id[j] = t[j]
        /\ id[n + 1] = Hash
    BY MethodIdPlaces DEF Plain
  <1>2. /\ t = [j \in 1..n |-> t[j]] /\ DOMAIN t = 1..n
        /\ \A j \in 1..n : t[j] # Hash
    BY ListDef DEF Plain
  <1>3. SelectInSeq(id, LAMBDA x : x = Hash) = IF I # {} THEN Min(I) ELSE 0
    BY DEF SelectInSeq
  <1> HIDE DEF id, n
  <1>4. DOMAIN id = 1..Len(id) /\ Len(id) \in Nat /\ id \in Seq(ToSet(id))
    BY <1>1, ListDef
  <1>5. n + 1 \in I /\ \A i \in I : n + 1 <= i
    <2>1. ASSUME NEW i \in I, i <= n PROVE FALSE
      <3>1. i \in 1..n /\ id[i] = Hash
        BY <2>1
      <3> QED BY <1>1, <1>2, <3>1
    <2>2. n + 1 \in I
      BY <1>1, <1>4
    <2> QED BY <1>1, <2>1, <2>2
  <1>6. Min(I) = n + 1
    <2>1. \A i \in I : i \in Nat
      BY <1>4
    <2> HIDE DEF I
    <2>2. \A x \in I : (\A y \in I : x <= y) <=> x = n + 1
      BY <1>1, <1>5, <2>1
    <2> QED BY <1>5, <2>2 DEF Min
  <1>7. BeforeHash(id) = SubSeq(id, 1, (n + 1) - 1)
    <2> HIDE DEF I
    <2>1. I # {} /\ n + 1 # 0
      BY <1>1, <1>5
    <2> QED BY <1>3, <1>6, <2>1 DEF BeforeHash
  <1>8. SubSeq(id, 1, n) = t
    <2>1. n <= Len(id)
      BY <1>1, <1>4
    <2>2. SubSeq(id, 1, n) = [j \in 1..n |-> id[j]]
      BY <1>1, <1>4, <2>1
    <2>3. [j \in 1..n |-> id[j]] = [j \in 1..n |-> t[j]]
      BY <1>1
    <2> QED BY <1>2, <2>2, <2>3
  <1>9. (n + 1) - 1 = n
    BY <1>1
  <1> QED BY <1>7, <1>8, <1>9 DEF id

\* The nodes of the graph that is assembled: the first with each id.
LEMMA AssembledNodes ==
  ASSUME NEW corpus, Proper(corpus)
  PROVE  LET graph == Assemble(corpus)
         IN /\ Ids(graph.nodes) = NodeIds(AllNodes(corpus))
            /\ \A m, n \in graph.nodes : m.id = n.id => m = n
            /\ \A n \in graph.nodes :
                 \E c \in ToSet(corpus) : /\ n \in ToSet(c.fragment.nodes)
                                          /\ IsTypeNode(n, c.parsed) \/ IsMemberNode(n, c.parsed)
            /\ \A c \in ToSet(corpus) : \E n \in graph.nodes : IsTypeNode(n, c.parsed)
            /\ IsFiniteSet(graph.nodes)
  <1> DEFINE nodes == AllNodes(corpus)
             graph == Assemble(corpus)
  <1>1. IsCorpus(corpus) /\ IsList(nodes)
    BY AllNodesGood DEF Proper
  <1>2. graph.nodes = ToSet(DedupNodes(nodes))
    BY DEF Assemble
  <1>3. \A x \in ToSet(nodes) : \E c \in ToSet(corpus) : x \in ToSet(c.fragment.nodes)
    BY <1>1, AllNodesGood
  <1>4. ASSUME NEW c \in ToSet(corpus)
        PROVE  /\ c.parsed.id \in NodeIds(nodes)
               /\ IsTypeNode(FirstOf(nodes, c.parsed.id), c.parsed)
    <2> DEFINE own == c.fragment.nodes
               S == WithId(nodes, c.parsed.id)
    <2>1. 1 \in DOMAIN own /\ IsTypeNode(own[1], c.parsed) /\ IsList(own)
      BY DEF Proper, IsFragment, IsCorpus, IsPart
    <2>2. c.parsed.id \in NodeIds(nodes)
      BY TypeHasNode
    <2>3. own[1] \in S /\ own[1] \in ToSet(own)
      <3>1. PICK i \in DOMAIN corpus : corpus[i] = c
        BY DEF ToSet
      <3>2. own[1] \in ToSet(own)
        BY <2>1 DEF ToSet
      <3>3. own[1] \in ToSet(nodes)
        BY <1>1, <3>1, <3>2, AllNodesGood
      <3> QED BY <2>1, <3>2, <3>3 DEF WithId, IsTypeNode
    <2>4. \A n \in S : n.id = c.parsed.id
      BY DEF WithId
    <2>5. FirstOf(nodes, c.parsed.id) = Keep(nodes, S)[1]
      BY DEF FirstOf
    <2> HIDE DEF S
    <2>6. Keep(nodes, S) = Keep(c.fragment.nodes, S)
      <3>1. OfOneFile(corpus, S)
        BY <2>4, SameIdOneFile
      <3> QED BY <2>3, <3>1, FromOneFile
    <2> HIDE DEF own
    <2>7. PICK p \in DOMAIN own : Keep(own, S)[1] = own[p] /\ \A q \in 1..(p - 1) : own[q] \notin S
      BY <2>1, <2>3, KeepFirst
    <2>8. p = 1
      <3>1. DOMAIN own = 1..Len(own) /\ Len(own) \in Nat
        BY <2>1, ListDef
      <3>2. ~(p > 1)
        BY <2>3, <2>7, <3>1
      <3> QED BY <3>1, <3>2
    <2> QED BY <2>1, <2>2, <2>5, <2>6, <2>7, <2>8 DEF own
  <1>5. \A n \in ToSet(nodes) : n.id \in NodeIds(nodes)
    BY DEF NodeIds, ToSet
  <1> HIDE DEF nodes, graph
  <1>6. /\ graph.nodes = {FirstOf(nodes, id) : id \in NodeIds(nodes)}
        /\ \A id \in NodeIds(nodes) : FirstOf(nodes, id).id = id /\ FirstOf(nodes, id) \in ToSet(nodes)
    BY <1>1, <1>2, DedupExact
  <1>7. Ids(graph.nodes) = NodeIds(nodes)
    BY <1>6 DEF Ids
  <1>8. IsFiniteSet(graph.nodes)
    <2>1. IsFiniteSet(ToSet(nodes))
      <3>1. /\ nodes \in [1..Len(nodes) -> ToSet(nodes)] /\ Len(nodes) \in Nat
            /\ DOMAIN nodes = 1..Len(nodes)
        BY <1>1, ListDef
      <3>2. nodes \in Surjection(1..Len(nodes), ToSet(nodes))
        BY <3>1 DEF Surjection, ToSet
      <3>3. IsFiniteSet(1..Len(nodes))
        BY <3>1, FS_Interval
      <3> QED BY <3>2, <3>3, FS_Surjection
    <2>2. graph.nodes \in SUBSET ToSet(nodes)
      BY <1>6
    <2> QED BY <2>1, <2>2, FS_Subset
  <1>9. ASSUME NEW n \in graph.nodes
        PROVE  \E c \in ToSet(corpus) : /\ n \in ToSet(c.fragment.nodes)
                                        /\ IsTypeNode(n, c.parsed) \/ IsMemberNode(n, c.parsed)
    <2>1. PICK c \in ToSet(corpus) : n \in ToSet(c.fragment.nodes)
      BY <1>3, <1>6
    <2> QED BY <2>1, ProperNodes
  <1>10. \A m, n \in graph.nodes : m.id = n.id => m = n
    BY <1>6
  <1>11. \A c \in ToSet(corpus) : \E n \in graph.nodes : IsTypeNode(n, c.parsed)
    BY <1>4, <1>6
  <1> QED BY <1>7, <1>8, <1>9, <1>10, <1>11 DEF graph, nodes

\* A call was made by a method of some file.
IsMadeIn(e, corpus) ==
  \E c \in ToSet(corpus) : \E m \in ToSet(c.parsed.methods) :
    /\ MethodNode(m) \in ToSet(c.fragment.nodes)
    /\ \E call \in ToSet(m.calls) : e = CallsUnresolvedEdge(m.id, call)

\* Every call that the assembler has gathered was.
LEMMA CallsAreMade ==
  ASSUME NEW corpus, Proper(corpus), NEW e \in ToSet(Gathered(corpus)), e.kind = "calls_unresolved"
  PROVE  IsMadeIn(e, corpus)
  <1>1. \A c \in ToSet(corpus) : \A map, ids : ~AddsEdge(e, c.parsed, map, ids)
    BY AddedEdgesKind
  <1>2. e \in ToSet(AllEdges(corpus))
    BY <1>1, AssembledEdges
  <1>3. PICK c \in ToSet(corpus) : IsOwnEdge(e, ToSet(c.fragment.nodes), c.parsed)
    BY <1>2, AssembledEdges
  <1> QED BY <1>3 DEF IsOwnEdge, IsMadeIn

\* No other edges have the kind of a resolved call.
LEMMA OnlyCallsResolve ==
  ASSUME NEW corpus, Proper(corpus), NEW e \in ToSet(Gathered(corpus))
  PROVE  e.kind # "calls_resolved"
  <1> SUFFICES ASSUME e.kind = "calls_resolved" PROVE FALSE
    OBVIOUS
  <1>1. \A c \in ToSet(corpus) : \A map, ids : ~AddsEdge(e, c.parsed, map, ids)
    BY AddedEdgesKind
  <1>2. e \in ToSet(AllEdges(corpus))
    BY <1>1, AssembledEdges
  <1>3. PICK c \in ToSet(corpus) : IsOwnEdge(e, ToSet(c.fragment.nodes), c.parsed)
    BY <1>2, AssembledEdges
  <1> QED BY <1>3 DEF IsOwnEdge, CallsUnresolvedEdge, Edge

\* Both ends of a resolved call have nodes.
LEMMA ResolvedHasEnds ==
  ASSUME NEW corpus, Proper(corpus), NEW e \in Assemble(corpus).edges, e.kind = "calls_resolved"
  PROVE  {e.source, e.target} \subseteq Ids(Assemble(corpus).nodes)
  <1> DEFINE nodes == AllNodes(corpus)
  <1>1. IsList(nodes) /\ Ids(Assemble(corpus).nodes) = NodeIds(nodes)
    BY AssembledEdges, AssembledNodes
  <1>2. PICK x \in ToSet(Gathered(corpus)) :
          /\ Promotes(x, corpus, nodes)
          /\ \E m \in ToSet(Candidates(x, corpus, nodes)) : e = CallsResolvedEdge(x.source, m)
    BY AssembledEdges, OnlyCallsResolve DEF Resolution
  <1>3. PICK m \in ToSet(Candidates(x, corpus, nodes)) : e = CallsResolvedEdge(x.source, m)
    BY <1>2
  <1>4. \A n \in ToSet(nodes) : n.id \in NodeIds(nodes)
    BY DEF NodeIds, ToSet
  <1>5. x.source \in NodeIds(nodes)
    <2>1. PICK c \in ToSet(corpus) : \E y \in ToSet(c.parsed.methods) :
            /\ MethodNode(y) \in ToSet(c.fragment.nodes)
            /\ \E call \in ToSet(y.calls) : x = CallsUnresolvedEdge(y.id, call)
      BY <1>2, CallsAreMade DEF Promotes, IsMadeIn
    <2>2. PICK y : /\ MethodNode(y) \in ToSet(c.fragment.nodes)
                   /\ \E call : x = CallsUnresolvedEdge(y.id, call)
      BY <2>1
    <2>3. MethodNode(y).id = x.source
      BY <2>2 DEF MethodNode, CallsUnresolvedEdge, Edge
    <2>4. PICK i \in DOMAIN corpus : corpus[i] = c
      BY DEF ToSet
    <2>5. MethodNode(y) \in ToSet(nodes)
      BY <2>2, <2>4, AllNodesGood DEF Proper
    <2> HIDE DEF nodes
    <2> QED BY <1>4, <2>3, <2>5
  <1>6. m \in NodeIds(nodes)
    <2>1. \E type : MethodIds(Candidates(x, corpus, nodes), nodes, type, ParseCall(x.target).name)
      BY <1>1, <1>2, CandidatesSpec DEF Promotes
    <2> HIDE DEF nodes
    <2> QED BY <1>3, <1>4, <2>1 DEF MethodIds
  <1>7. e.source = x.source /\ e.target = m
    BY <1>3 DEF CallsResolvedEdge, Edge
  <1> HIDE DEF nodes
  <1> QED BY <1>1, <1>5, <1>6, <1>7

\* So no check of the resolved calls fails.
LEMMA RelationshipsPass ==
  ASSUME NEW corpus, Proper(corpus)
  PROVE  GraphVerdicts(Assemble(corpus)).relationship_correctness = "pass"
  <1> DEFINE graph == Assemble(corpus)
             calls == {e \in graph.edges : e.kind = "calls_resolved"}
             ends == {e \in calls : {e.source, e.target} \subseteq Ids(graph.nodes)}
  <1>1. ends = calls
    BY ResolvedHasEnds
  <1>2. RelationshipCorrectness(graph) = [part |-> Cardinality(ends), whole |-> Cardinality(calls)]
    BY DEF RelationshipCorrectness
  <1> HIDE DEF ends, calls
  <1>3. Full(RelationshipCorrectness(graph))
    BY <1>1, <1>2 DEF Full
  <1> HIDE DEF graph
  <1>4. GraphVerdicts(graph).relationship_correctness = "pass"
    BY <1>3 DEF GraphVerdicts, Verdict
  <1> QED BY <1>4 DEF graph

\* Nor does any, of files with types that the Java process parsed and that
\* are in packages.
LEMMA ParsedPasses ==
  ASSUME NEW corpus, Proper(corpus),
         \A c \in ToSet(corpus) : c.parsed.mode = "ast" /\ Plain(c.parsed.id) /\ Len(c.parsed.id) >= 2
  PROVE  "fail" \notin Range(GraphVerdicts(Assemble(corpus)))
  <1> DEFINE graph == Assemble(corpus)
  <1>1. /\ \A m, n \in graph.nodes : m.id = n.id => m = n
        /\ \A n \in graph.nodes :
             \E c \in ToSet(corpus) : IsTypeNode(n, c.parsed) \/ IsMemberNode(n, c.parsed)
        /\ \A c \in ToSet(corpus) : \E n \in graph.nodes : IsTypeNode(n, c.parsed)
    BY AssembledNodes
  <1>2. ASSUME NEW c \in ToSet(corpus)
        PROVE  /\ c.parsed.kind \in Kinds
               /\ \A m \in ToSet(c.parsed.methods) : GoodMethod(m, c.parsed.id)
    BY DEF Proper, IsCorpus, IsEnvelope, Members
  <1>3. RepeatedIds(graph) = {}
    <2> HIDE DEF graph
    <2> QED BY <1>1 DEF RepeatedIds
  <1>4. ASSUME NEW n \in graph.nodes, n.kind = "class"
        PROVE  n.extraction_mode = "ast" /\ Len(n.id) >= 2
    <2>1. PICK c \in ToSet(corpus) : IsTypeNode(n, c.parsed) \/ IsMemberNode(n, c.parsed)
      BY <1>1
    <2>2. IsTypeNode(n, c.parsed)
      BY <1>4, <2>1 DEF IsMemberNode, FieldNode, MethodNode
    <2> QED BY <1>4, <2>2 DEF IsTypeNode, ExtractionMode
  <1>5. Unpackaged(graph) = {}
    <2>1. ASSUME NEW n \in Unpackaged(graph) PROVE FALSE
      <3>1. n \in graph.nodes /\ n.kind = "class" /\ Len(n.id) < 2
        BY DEF Unpackaged, OfKind
      <3>2. PICK c \in ToSet(corpus) : n.id = c.parsed.id
        <4>1. PICK c \in ToSet(corpus) : IsTypeNode(n, c.parsed) \/ IsMemberNode(n, c.parsed)
          BY <1>1, <3>1
        <4>2. IsTypeNode(n, c.parsed)
          BY <3>1, <4>1 DEF IsMemberNode, FieldNode, MethodNode
        <4> QED BY <4>2 DEF IsTypeNode
      <3>3. Len(n.id) \in Nat /\ Len(n.id) >= 2
        BY <3>2, ListDef DEF Plain
      <3> QED BY <3>1, <3>3
    <2> QED BY <2>1
  <1>6. Orphans(graph) = {}
    <2>1. ASSUME NEW n \in graph.nodes, n.kind = "method"
          PROVE  BeforeHash(n.id) \in Ids(OfKind(graph, Kinds))
      <3>1. PICK c \in ToSet(corpus) : IsTypeNode(n, c.parsed) \/ IsMemberNode(n, c.parsed)
        BY <1>1
      <3>2. PICK m \in ToSet(c.parsed.methods) : n = MethodNode(m)
        BY <1>2, <2>1, <3>1 DEF IsTypeNode, IsMemberNode, FieldNode, Kinds
      <3>3. PICK signature : IsList(signature) /\ m.id = MethodId(c.parsed.id, m.name, signature)
        BY <1>2 DEF GoodMethod
      <3>4. BeforeHash(m.id) = c.parsed.id
        BY <3>3, ClassOfMethod
      <3>5. n.id = m.id
        BY <3>2 DEF MethodNode
      <3>6. PICK x \in graph.nodes : IsTypeNode(x, c.parsed)
        BY <1>1
      <3>7. x \in OfKind(graph, Kinds) /\ x.id = c.parsed.id
        BY <1>2, <3>6 DEF OfKind, IsTypeNode
      <3> QED BY <3>4, <3>5, <3>7 DEF Ids
    <2> HIDE DEF graph
    <2> QED BY <2>1 DEF Orphans, OfKind
  <1>7. LooseCalls(graph) = {}
    <2>1. ASSUME NEW e \in graph.edges, e.kind = "calls_unresolved"
          PROVE  <<>> \notin {e.source, e.target}
      <3>1. e \in ToSet(Gathered(corpus))
        <4>1. \A x, m : e # CallsResolvedEdge(x, m)
          BY <2>1 DEF CallsResolvedEdge, Edge
        <4> QED BY <4>1, AssembledEdges DEF Resolution
      <3>2. PICK c \in ToSet(corpus) : \E m \in ToSet(c.parsed.methods) :
              /\ MethodNode(m) \in ToSet(c.fragment.nodes)
              /\ \E call \in ToSet(m.calls) : e = CallsUnresolvedEdge(m.id, call)
        <4>1. IsMadeIn(e, corpus)
          BY <2>1, <3>1, CallsAreMade
        <4> QED BY <4>1 DEF IsMadeIn
      <3>3. PICK m \in ToSet(c.parsed.methods) :
              \E call \in ToSet(m.calls) : e = CallsUnresolvedEdge(m.id, call)
        BY <3>2
      <3>4. PICK call \in ToSet(m.calls) : e = CallsUnresolvedEdge(m.id, call)
        BY <3>3
      <3>5. e.source = m.id /\ e.target = call
        BY <3>4 DEF CallsUnresolvedEdge, Edge
      <3>6. call # <<>>
        BY <1>2 DEF GoodMethod
      <3>7. m.id # <<>>
        <4>1. PICK signature : IsList(signature) /\ m.id = MethodId(c.parsed.id, m.name, signature)
          BY <1>2 DEF GoodMethod
        <4>2. IsList(c.parsed.id)
          BY DEF Plain
        <4>3. DOMAIN m.id # {}
          BY <4>1, <4>2, MethodIdPlaces
        <4> QED BY <4>3
      <3> QED BY <3>5, <3>6, <3>7
    <2> HIDE DEF graph
    <2> QED BY <2>1 DEF LooseCalls
  <1> DEFINE trees == {n \in graph.nodes : n.kind = "class" => n.extraction_mode = "ast"}
  <1>8. trees = graph.nodes
    BY <1>4
  <1>9. StructuralCompleteness(graph) = [part |-> Cardinality(trees), whole |-> Cardinality(graph.nodes)]
    BY DEF StructuralCompleteness
  <1>10. GraphVerdicts(graph).relationship_correctness = "pass"
    BY RelationshipsPass
  <1> HIDE DEF graph, trees
  <1>11. InternalConsistency(graph) = 0
    BY <1>3, <1>5, <1>6, <1>7, FS_EmptySet DEF InternalConsistency
  <1>12. Full(StructuralCompleteness(graph))
    BY <1>8, <1>9 DEF Full
  <1>13. GraphVerdicts(graph) =
           [internal_consistency |-> "pass", relationship_correctness |-> "pass",
            structural_completeness |-> "pass"]
    BY <1>10, <1>11, <1>12 DEF GraphVerdicts, Verdict
  <1>14. "fail" \notin Range(GraphVerdicts(graph))
    BY <1>13 DEF Range
  <1> QED BY <1>14 DEF graph

\* A class that only the regular expressions read always shows.
LEMMA DegradedShows ==
  ASSUME NEW corpus, Proper(corpus), NEW c \in ToSet(corpus), c.parsed.kind = "class",
         c.parsed.mode # "ast"
  PROVE  GraphVerdicts(Assemble(corpus)).structural_completeness = "fail"
  <1> DEFINE graph == Assemble(corpus)
             trees == {n \in graph.nodes : n.kind = "class" => n.extraction_mode = "ast"}
  <1>1. PICK n \in graph.nodes : IsTypeNode(n, c.parsed)
    BY AssembledNodes
  <1>2. n \notin trees
    BY <1>1 DEF IsTypeNode, ExtractionMode
  <1>3. IsFiniteSet(graph.nodes)
    BY AssembledNodes
  <1>4. StructuralCompleteness(graph) = [part |-> Cardinality(trees), whole |-> Cardinality(graph.nodes)]
    BY DEF StructuralCompleteness
  <1>5. trees \in SUBSET graph.nodes
    OBVIOUS
  <1> HIDE DEF graph, trees
  <1>6. ~Full(StructuralCompleteness(graph))
    <2>1. Cardinality(graph.nodes) # Cardinality(trees)
      BY <1>1, <1>2, <1>3, <1>5, FS_Subset
    <2> QED BY <1>4, <2>1 DEF Full
  <1>7. GraphVerdicts(graph).structural_completeness = "fail"
    BY <1>6 DEF GraphVerdicts, Verdict
  <1> QED BY <1>7 DEF graph

\* In any tree of which no two files come out under one name, however they
\* parse: every call that the assembler resolved has both ends in the graph;
\* when the Java process parsed every file, and all are in packages, the checks
\* of the scorecard find nothing; and a file that it could not parse, and that
\* came out as a class, always shows.
THEOREM ChecksPass == Spec => []GraphPassesItsChecks
<1>1. FilesInv /\ ModesInv => GraphPassesItsChecks
  <2> SUFFICES ASSUME FilesInv, ModesInv, stage = "write", NamesApart(Tree, parsed)
               PROVE  GraphPassesItsChecks
    BY DEF GraphPassesItsChecks
  <2> DEFINE a == Fragments(Tree, parsed)
             Source(c) == Tree.files[c.file].source
             result == GraphVerdicts(Graph)
             sources == {Source(c) : c \in ToSet(parsed)}
             degraded == {c \in ToSet(parsed) : c.mode # "ast"}
  <2>1. IsWorld(Tree) /\ Settled(parsed, Tree)
    BY ParsedSettled
  <2>2. Graph = Assemble(a)
    BY DEF Graph
  <2>3. /\ Proper(a) /\ ToSet(a) = {Part(Tree, c) : c \in ToSet(parsed)}
        /\ \A c \in ToSet(parsed) : /\ IsSource(Source(c)) /\ c.mode \in Modes
                                    /\ c.mode = "ast" => Source(c).declares
    BY <2>1, RunCorpus
  <2>4. \A c \in ToSet(parsed) : Part(Tree, c).parsed = Envelope(Tree, c.file, c.mode)
    BY DEF Part
  <2>5. result.relationship_correctness = "pass"
    <3> HIDE DEF a
    <3> QED BY <2>2, <2>3, RelationshipsPass
  <2>6. ASSUME degraded = {}, \A s \in sources : s.package # <<>>
        PROVE  "fail" \notin Range(result)
    <3>1. ASSUME NEW c \in ToSet(parsed)
          PROVE  LET p == Part(Tree, c).parsed
                 IN p.mode = "ast" /\ Plain(p.id) /\ Len(p.id) >= 2
      <4>1. c.mode = "ast" /\ Source(c).package # <<>> /\ IsSource(Source(c)) /\ Source(c).declares
        BY <2>3, <2>6
      <4>2. /\ Envelope(Tree, c.file, "ast").id = TypeId(Source(c))
            /\ Envelope(Tree, c.file, "ast").mode = "ast"
        BY <4>1, EnvelopeSays DEF Modes
      <4>3. Plain(TypeId(Source(c)))
        BY <4>1, TypeIdPlain
      <4>4. Len(TypeId(Source(c))) >= 2
        <5> DEFINE package == Source(c).package
                   name == Source(c).name
        <5>1. IsList(package) /\ package # <<>>
          BY <4>1 DEF IsSource
        <5> HIDE DEF package, name
        <5>2. Len(package) >= 1 /\ Len(package) \in Nat
          BY <5>1, EmptyList
        <5> DEFINE T == ToSet(package) \cup {name}
        <5>3. package \in Seq(T) /\ name \in T
          BY <5>1, SeqOver
        <5> HIDE DEF T
        <5>4. Len(Append(package, name)) = Len(package) + 1
          BY <5>3
        <5> QED BY <5>2, <5>4 DEF TypeId, package, name
      <4> QED BY <2>4, <4>1, <4>2, <4>3, <4>4
    <3> HIDE DEF a
    <3>2. \A c \in ToSet(a) : c.parsed.mode = "ast" /\ Plain(c.parsed.id) /\ Len(c.parsed.id) >= 2
      BY <2>3, <3>1
    <3> QED BY <2>2, <2>3, <3>2, ParsedPasses
  <2>7. ASSUME NEW c \in degraded, Envelope(Tree, c.file, c.mode).kind = "class"
        PROVE  result.structural_completeness = "fail"
    <3>1. c \in ToSet(parsed) /\ c.mode \in Modes /\ c.mode # "ast" /\ IsSource(Source(c))
      BY <2>3
    <3>2. /\ Envelope(Tree, c.file, c.mode).kind = "class"
          /\ Envelope(Tree, c.file, c.mode).mode = "regex"
      BY <2>7, <3>1, EnvelopeSays DEF Modes
    <3> DEFINE x == Part(Tree, c)
    <3>3. x \in ToSet(a) /\ x.parsed.kind = "class" /\ x.parsed.mode # "ast"
      BY <2>3, <2>4, <3>1, <3>2
    <3> HIDE DEF a, x
    <3> QED BY <2>2, <2>3, <3>3, DegradedShows
  <2> HIDE DEF a, result
  <2> QED BY <2>5, <2>6, <2>7 DEF GraphPassesItsChecks, result
<1> QED BY <1>1, FilesInvHolds, ModesInvHolds, PTL

=============================================================================
