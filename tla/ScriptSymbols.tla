---------------------------- MODULE ScriptSymbols ----------------------------
(* What the TypeScript and the JavaScript parser extract for the symbol    *)
(* graph.  A declaration is one name with its value: the node below it, if *)
(* that is an arrow function or a function expression, or a literal.       *)
EXTENDS SyntaxTree

Valued(t, n) == \E m \in DOMAIN t : t[m].type = "arrow" /\ t[m].up = n

(* Definitions in the body of a function: declared functions, and names    *)
(* that are given a function.  In TypeScript the latter are not looked for *)
(* in a declared function that is itself nested.                           *)
TsDefNodes(t) ==
  LET e[n \in DOMAIN t] ==
        LET h == Holder(t)[n] IN
        CASE t[n].type \in {"class", "enum"} -> t[n].up = 0
          [] t[n].type = "method" -> t[t[n].up].type = "class" /\ e[t[n].up]
          [] t[n].type = "function" ->
               t[n].up = 0 \/ (h # 0 /\ t[h].type # "class" /\ e[h])
          [] t[n].type = "declaration" ->
               \/ t[n].up = 0 /\ (Valued(t, n) \/ {"const", "literal"} \subseteq t[n].is)
               \/ /\ h # 0 /\ t[h].type # "class" /\ e[h] /\ Valued(t, n)
                  /\ t[h].type = "function" => t[h].up = 0
          [] t[n].type = "arrow" -> /\ t[n].up # 0 /\ t[t[n].up].type = "declaration"
                                    /\ e[t[n].up]
          [] OTHER -> FALSE
  IN {n \in DOMAIN t : e[n]}

(* JavaScript: everywhere, but at the top a name that is given a function  *)
(* counts only if it is const; and there are no enums.                     *)
JsDefNodes(t) ==
  LET e[n \in DOMAIN t] ==
        LET h == Holder(t)[n] IN
        CASE t[n].type = "class" -> t[n].up = 0
          [] t[n].type = "method" -> t[t[n].up].type = "class" /\ e[t[n].up]
          [] t[n].type = "function" ->
               t[n].up = 0 \/ (h # 0 /\ t[h].type # "class" /\ e[h])
          [] t[n].type = "declaration" ->
               \/ /\ t[n].up = 0 /\ "const" \in t[n].is
                  /\ Valued(t, n) \/ "literal" \in t[n].is
               \/ h # 0 /\ t[h].type # "class" /\ e[h] /\ Valued(t, n)
          [] t[n].type = "arrow" -> /\ t[n].up # 0 /\ t[t[n].up].type = "declaration"
                                    /\ e[t[n].up]
          [] OTHER -> FALSE
  IN {n \in DOMAIN t : e[n]}

(* The parameters are those of the function a name is given.               *)
Lambda(t, n) ==
  IF t[n].type = "declaration" THEN CHOOSE m \in DOMAIN t : t[m].type = "arrow" /\ t[m].up = n
  ELSE n
TsBranchParameters(t, n) == InConditions(t, n) \cap t[n].refs
JsBranchParameters(t, n) == InConditions(t, n) \cap t[n].refs

TsEnumMembers(t, n) ==
  {t[m].name[1] : m \in {k \in DOMAIN t : t[k].type = "assignment" /\ t[k].up = n}}

Method(t, module, n, branches) ==
  Row(t, module, n, "method", t[t[n].up].name[1], branches, {})
Declared(t, module, n, branches) ==
  IF Valued(t, n) THEN Row(t, module, n, "function", "", branches, {})
  ELSE Row(t, module, n, "constant", "", {}, {t[n].name[1]})

TsDefinitions(t, module) ==
  [n \in {m \in TsDefNodes(t) : t[m].type # "arrow"} |->
     CASE t[n].type = "function" -> Row(t, module, n, "function", "", TsBranchParameters(t, n), {})
       [] t[n].type = "class" -> Row(t, module, n, "class", "", {}, {})
       [] t[n].type = "enum" -> Row(t, module, n, "enum", "", {}, TsEnumMembers(t, n))
       [] t[n].type = "method" -> Method(t, module, n, TsBranchParameters(t, n))
       [] OTHER -> Declared(t, module, n, IF Valued(t, n) THEN TsBranchParameters(t, Lambda(t, n))
                                          ELSE {})]

JsDefinitions(t, module) ==
  [n \in {m \in JsDefNodes(t) : t[m].type # "arrow"} |->
     CASE t[n].type = "function" -> Row(t, module, n, "function", "", JsBranchParameters(t, n), {})
       [] t[n].type = "class" -> Row(t, module, n, "class", "", {}, {})
       [] t[n].type = "method" -> Method(t, module, n, JsBranchParameters(t, n))
       [] OTHER -> Declared(t, module, n, IF Valued(t, n) THEN JsBranchParameters(t, Lambda(t, n))
                                          ELSE {})]

(* The lines of a definition: those of the function, not of its name; a    *)
(* constant has lines in TypeScript only.                                  *)
TsSpans(t) == {n \in TsDefNodes(t) : t[n].type = "declaration" => ~Valued(t, n)}
JsSpans(t) == {n \in JsDefNodes(t) : t[n].type # "declaration"}

TsCalls(t, module) == CallSites(t, module, TsSpans(t))
JsCalls(t, module) == CallSites(t, module, JsSpans(t))

(* extends and implements in TypeScript, extends in JavaScript; new Name().*)
Created(t, D) == {n \in Sites(t, D, "new") : Len(t[n].name) = 1}
Classes(t, D) == {n \in D : t[n].type = "class"}
TsClassEdges(t, module) ==
  Inherited(t, module, Classes(t, TsSpans(t)))
    \cup Instantiated(t, module, TsSpans(t), Created(t, TsSpans(t)))
JsClassEdges(t, module) ==
  Inherited(t, module, Classes(t, JsSpans(t)))
    \cup Instantiated(t, module, JsSpans(t), Created(t, JsSpans(t)))

(* Annotated fields of a class.                                            *)
TsCompositions(t, module) ==
  UNION {UNION {{Edge(Qualified(t, module)[n], c, "composes", t[m].row) : c \in t[m].refs} :
                  m \in {k \in DOMAIN t : /\ t[k].type = "assignment" /\ t[k].up = n
                                          /\ "typed" \in t[k].is}} :
           n \in Classes(t, TsSpans(t))}

TsExtract(t, module) ==
  [definitions |-> TsDefinitions(t, module), calls |-> TsCalls(t, module),
   edges |-> TsClassEdges(t, module), compositions |-> TsCompositions(t, module)]
JsExtract(t, module) ==
  [definitions |-> JsDefinitions(t, module), calls |-> JsCalls(t, module),
   edges |-> JsClassEdges(t, module), compositions |-> {}]
=============================================================================
