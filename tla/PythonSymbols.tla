---------------------------- MODULE PythonSymbols ----------------------------
(* What the Python parser extracts for the symbol graph.                   *)
EXTENDS SyntaxTree

EnumBases ==
  LET plain == {"Enum", "IntEnum", "StrEnum", "Flag", "IntFlag"}
  IN {<<b>> : b \in plain} \cup {<<"enum", b>> : b \in plain}

(* Definitions at the top, but not in an "if" there; in a class, but not in*)
(* a block of it; anywhere in a function.                                  *)
PyDefNodes(t) ==
  LET e[n \in DOMAIN t] ==
        LET h == Holder(t)[n] IN
        /\ t[n].type \in {"function", "class"}
        /\ IF h = 0 THEN t[n].up = 0
           ELSE e[h] /\ (t[h].type = "class" => t[n].up = h)
  IN {n \in DOMAIN t : e[n]}

PyEnum(t, n) == t[n].type = "class" /\ t[n].up = 0 /\ t[n].refs \cap EnumBases # {}

PyEnumMembers(t, n) ==
  {t[m].name[1] : m \in {k \in DOMAIN t : /\ t[k].type = "assignment"
                                          /\ t[k].up = n /\ Len(t[k].name) = 1}}

(* Parameters named in conditions, self and cls and those that only assert *)
(* statements name excepted.                                               *)
AssertOnly(t, n) ==
  LET within == {m \in Mentioned(t, n) : "assert" \in t[m].is}
      names(S) == {t[m].name[1] : m \in S}
  IN names(within) \ names(Mentioned(t, n) \ within)

PyBranchParameters(t, n) ==
  (InConditions(t, n) \cap t[n].refs) \ ({"self", "cls"} \cup AssertOnly(t, n))

PyFunction(t, module, n) ==
  LET h == Holder(t)[n]
      method == h # 0 /\ t[h].type = "class"
  IN Row(t, module, n, IF method THEN "method" ELSE "function",
         IF method THEN t[h].name[1] ELSE "", PyBranchParameters(t, n), {})

PyClass(t, module, n) ==
  IF PyEnum(t, n) THEN Row(t, module, n, "enum", "", {}, PyEnumMembers(t, n))
  ELSE Row(t, module, n, "class", "", {}, {})

(* NAME = literal, or an annotated name of any spelling, at the top.       *)
PyConstants(t) ==
  {n \in DOMAIN t : /\ t[n].type = "assignment" /\ t[n].up = 0
                    /\ Len(t[n].name) = 1
                    /\ "typed" \in t[n].is \/ "upper" \in t[n].is
                    /\ "literal" \in t[n].is}

PyDefinitions(t, module) ==
  [n \in PyDefNodes(t) \cup PyConstants(t) |->
     CASE t[n].type = "function" -> PyFunction(t, module, n)
       [] t[n].type = "class" -> PyClass(t, module, n)
       [] OTHER -> Row(t, module, n, "constant", "", {}, {t[n].name[1]})]

PyCalls(t, module) == CallSites(t, module, PyDefNodes(t))

(* Bases of classes that are no enums, and calls of PascalCase names.      *)
PyClassEdges(t, module) ==
  LET D == PyDefNodes(t)
      classes == {n \in D : t[n].type = "class" /\ ~PyEnum(t, n)}
      created == {n \in Sites(t, D, "call") : Len(t[n].name) = 1 /\ "pascal" \in t[n].is}
  IN Inherited(t, module, classes) \cup Instantiated(t, module, D, created)

(* Annotated attributes, in the class or in its __init__.                  *)
PyAnnotated(t, n) == {m \in DOMAIN t : /\ t[m].type = "assignment" /\ t[m].up = n
                                       /\ "typed" \in t[m].is}
PyInitAnnotated(t, n) ==
  {m \in DOMAIN t :
     \E f \in DOMAIN t : /\ t[f].type = "function" /\ t[f].up = n
                         /\ t[f].name = <<"__init__">>
                         /\ m \in PyAnnotated(t, f)
                         /\ Len(t[m].name) = 2 /\ t[m].name[1] = "self"}

PyCompositions(t, module) ==
  UNION {UNION {{Edge(Qualified(t, module)[n], c, "composes", t[m].row) : c \in t[m].refs} :
                  m \in {k \in PyAnnotated(t, n) : Len(t[k].name) = 1} \cup PyInitAnnotated(t, n)} :
           n \in {k \in PyDefNodes(t) : t[k].type = "class"}}

PyExtract(t, module) ==
  [definitions |-> PyDefinitions(t, module), calls |-> PyCalls(t, module),
   edges |-> PyClassEdges(t, module), compositions |-> PyCompositions(t, module)]
=============================================================================
