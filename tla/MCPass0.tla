------------------------------ MODULE MCPass0 ------------------------------
(***************************************************************************)
(* Three worlds. Clinic: three modules, one of which ignores its generated *)
(* sources, and a build directory; classes that call each other by every   *)
(* means the assembler resolves; a comment in Owner, "a class for owners", *)
(* precedes the class. Oddities: the other kinds of types, files without a *)
(* package and without a type, static imports, supertypes; comments that   *)
(* speak of another file's type or are the only text that seems to declare *)
(* one, and a type that is not recognised. Bare: a tree without any module.*)
(***************************************************************************)
EXTENDS Pass0

Field(name, type, autowired, relation, plain) ==
  [name |-> name, type |-> type, is_autowired |-> autowired, relation |-> relation,
   plain |-> plain]

Method(name, type, parameters, calls) ==
  [name |-> name, return_type |-> type, parameters |-> parameters, calls |-> calls,
   is_constructor |-> FALSE, is_bean_factory |-> FALSE, plain |-> TRUE]

\* A source with a comment that looks like the declaration of a type.
Comment(s, kind, name) == [s EXCEPT !.matched = TRUE, !.first = [kind |-> kind, name |-> name]]

Param(name, type) == [name |-> name, type |-> type]

Import(path) == [path |-> path, star |-> FALSE]

Source(package, kind, name, imports) ==
  [declares |-> TRUE, package |-> package, kind |-> kind, name |-> name,
   matched |-> TRUE, first |-> [kind |-> kind, name |-> name], imports |-> imports,
   extends |-> <<>>, implements |-> <<>>, fields |-> <<>>, methods |-> <<>>]

Owner ==
  [Source(<<"model">>, "class", "Owner", <<Import(<<"model", "Pet">>)>>) EXCEPT
    !.fields = <<Field("pets", <<"List<", "Pet", ">">>, FALSE, "ONE_TO_MANY", FALSE),
                 Field("best", <<"Pet">>, FALSE, "MANY_TO_ONE", TRUE)>>,
    !.methods = <<Method("getName", <<"String">>, <<>>, << <<"best", "getName">> >>),
                  [Method("Owner", <<>>, <<Param("p", <<"Pet">>)>>, << <<"pets", "add">> >>)
                     EXCEPT !.is_constructor = TRUE]>>]

OwnerRepo ==
  [Source(<<"repo">>, "interface", "OwnerRepo", <<Import(<<"model", "Owner">>)>>) EXCEPT
    !.methods = <<Method("find", <<"Owner">>, <<Param("id", <<"Long">>)>>, <<>>),
                  Method("find", <<"Owner">>, <<Param("name", <<"String">>)>>, <<>>)>>]

OwnerService ==
  [Source(<<"web">>, "class", "OwnerService",
          <<Import(<<"model", "Owner">>), Import(<<"repo", "OwnerRepo">>)>>) EXCEPT
    !.fields = <<Field("repo", <<"OwnerRepo">>, TRUE, "none", TRUE)>>,
    !.methods = <<Method("load", <<"String">>, <<Param("owner", <<"Owner">>)>>,
                         << <<"log", "info">>, <<"repo", "find">>, <<"this", "audit">>,
                            <<"owner", "getName">>, <<"Owner", "of">>, <<"Owner", "getName">>,
                            <<"repo", "find", "()", "getName">>, <<"repo", "save">> >>),
                  [Method("audit", <<"Clock">>, <<>>, << <<"this", "repo", "find">>, <<"load">> >>)
                     EXCEPT !.is_bean_factory = TRUE]>>]

Mapper == Source(<<"web">>, "class", "Mapper", <<Import(<<"model", "Owner">>)>>)

File(dir, root, area, path, stem, text) ==
  [dir |-> dir, root |-> root, area |-> area, path |-> path, stem |-> stem,
   ignored |-> FALSE, source |-> text]

Main == "src/main/java"

Clinic ==
  [root |-> "/",
   children |-> [d \in {"/", "a", "b", "target"} |-> IF d = "/" THEN {"a", "b", "target"} ELSE {}],
   name |-> [d \in {"/", "a", "b", "target"} |-> d],
   build |-> [d \in {"/", "a", "b", "target"} |-> IF d = "b" THEN {"build.gradle"} ELSE {"pom.xml"}],
   ignores |-> [d \in {"/", "a", "b", "target"} |-> IF d = "a" THEN {"generated"} ELSE {}],
   files |-> <<File("a", Main, "generated", "a/Pet", "Pet",
                    Source(<<"model">>, "class", "Pet", <<>>)),
               File("a", Main, "model", "a/Owner", "Owner", Comment(Owner, "class", "for")),
               File("a", Main, "repo", "a/OwnerRepo", "OwnerRepo", OwnerRepo),
               File("b", Main, "generated", "b/Mapper", "Mapper", Mapper),
               File("b", "src/test/java", "web", "b/OwnerService", "OwnerService", OwnerService),
               [File("b", Main, "web", "b/Old", "Old", Mapper) EXCEPT !.ignored = TRUE],
               File("target", Main, "web", "target/Copy", "Copy", Mapper)>>]

Oddities ==
  [root |-> "/",
   children |-> [d \in {"/", "a"} |-> IF d = "/" THEN {"a"} ELSE {}],
   name |-> [d \in {"/", "a"} |-> d],
   build |-> [d \in {"/", "a"} |-> IF d = "a" THEN {"build.gradle.kts"} ELSE {"pom.xml"}],
   ignores |-> [d \in {"/", "a"} |-> {}],
   files |-> <<File("/", Main, "p", "Base", "Base",
                    [Source(<<>>, "class", "Base", <<[path |-> <<"p">>, star |-> TRUE]>>)
                       EXCEPT !.extends = <<"Kind">>,
                              !.methods = <<Method("run", <<"void">>, <<>>, << <<"stop">> >>)>>]),
               File("/", Main, "p", "Kind", "Kind",
                    [Source(<<"p">>, "enum", "Kind", <<Import(<<"p", "Size">>)>>) EXCEPT
                       !.fields = <<Field("size", <<"Size">>, FALSE, "none", TRUE)>>,
                       !.implements = <<"Marker">>]),
               File("/", Main, "p", "Size", "Size",
                    Comment([Source(<<"p">>, "record", "Size",
                                    <<Import(<<"q", "Util", "MAX">>), Import(<<"q", "Util">>)>>)
                               EXCEPT !.implements = <<"Base">>], "class", "Kind")),
               File("a", Main, "q", "a/Util", "Util",
                    [Source(<<"q">>, "class", "Util", <<Import(<<"p", "Kind">>)>>) EXCEPT
                       !.extends = <<"Kind">>,
                       !.fields = <<Field("MAX", <<"int">>, FALSE, "none", TRUE)>>]),
               File("a", Main, "q", "a/Mark", "Mark",
                    [Source(<<"q">>, "annotation_type", "Mark", <<Import(<<"q", "Util">>)>>)
                       EXCEPT !.matched = FALSE]),
               File("a", Main, "q", "a/package-info", "package-info",
                    Comment([Source(<<"q">>, "class", "none", <<>>) EXCEPT !.declares = FALSE],
                            "class", "loading"))>>]

Bare ==
  [root |-> "/", children |-> [d \in {"/"} |-> {}], name |-> [d \in {"/"} |-> d],
   build |-> [d \in {"/"} |-> {}], ignores |-> [d \in {"/"} |-> {}], files |-> <<>>]

MCWorlds == [clinic |-> Clinic, oddities |-> Oddities, bare |-> Bare]

\* All orders of the children of the root, which alone has any.
Orders(w) ==
  {[d \in DOMAIN w.children |-> IF d = w.root THEN order ELSE <<>>] :
     order \in SetToSeqs(w.children[w.root])}

MCListings == [n \in DOMAIN MCWorlds |-> Orders(MCWorlds[n])]

=============================================================================
