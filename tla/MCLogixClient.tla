---------------------------- MODULE MCLogixClient ----------------------------
(* A controller with a string and three scalars, an array longer than two replies of an           *)
(* unconnected client or one of a small connection, a structure with a nested one that does not   *)
(* fit a reply, an array of the nested structure, and one program, whose last symbol has the last *)
(* instance of 16 bits; batches of three and two tags.                                            *)
EXTENDS LogixClient

Tag(type, array, count) == [type |-> type, array |-> array, count |-> count]
MCTags ==
  [s1 |-> Tag("DINT", FALSE, 1), s2 |-> Tag("REAL", FALSE, 1), s3 |-> Tag("DINT", FALSE, 1),
   arr |-> Tag("DINT", TRUE, 300), u |-> Tag("Outer", FALSE, 1), ua |-> Tag("Inner", TRUE, 60),
   str |-> Tag("STRING", FALSE, 1)]

Member(name, type, off, hidden) == [name |-> name, type |-> type, off |-> off, hidden |-> hidden]
MCTemplates ==
  [Outer |-> [size |-> 600, members |-> <<Member("pad", "SINT", 4, TRUE), Member("n", "Inner", 8, FALSE)>>],
   Inner |-> [size |-> 12, members |-> <<Member("x", "DINT", 0, FALSE), Member("y", "REAL", 4, FALSE)>>]]

Sym(instance, name, kind) == [instance |-> instance, name |-> name, kind |-> kind]
MCSymbols ==
  [controller |-> <<Sym(1, "P", "program"), Sym(3, "map", "system"), Sym(4, "u", "tag")>>,
   P |-> <<Sym(1, "hole", "unnamed"), Sym(2, "v", "tag"), Sym(65535, "w", "tag")>>]

MCReads == {<<Name("s1"), Name("u"), Name("s2"), Name("s3")>>, <<Name("arr")>>, <<Name("ua")>>}

V(kind, many, n) == [kind |-> kind, many |-> many, n |-> n, len |-> 10]
MCWrites == {[name |-> Dot(Dot(Name("u"), "n"), "y"), value |-> V("int", FALSE, 1)],
             [name |-> Name("arr"), value |-> V("float", TRUE, 3)],
             [name |-> Element(Name("arr"), 5), value |-> V("int", TRUE, 2)],
             [name |-> Name("str"), value |-> V("string", TRUE, 1)],
             [name |-> Name("str"), value |-> V("int", FALSE, 1)],
             [name |-> Name("s2"), value |-> V("bytes", TRUE, 4)]}

Info(name, dims) == [name |-> name, type |-> MCTags[name].type, array |-> MCTags[name].array, dims |-> dims]
MCTagInfos == {<<Info("arr", 0), Info("u", 0), Info("ua", 0), Info("str", 0)>>}
=============================================================================
