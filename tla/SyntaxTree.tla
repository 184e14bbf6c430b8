----------------------------- MODULE SyntaxTree -----------------------------
(* What the three parsers have in common.  A text is its syntax tree: a    *)
(* function from 1..k, in the order of the text, to nodes                  *)
(*   type  "function", "class", "method", "arrow" (TypeScript, JavaScript: *)
(*         a function without a name of its own), "enum", "declaration",   *)
(*         "assignment", "call", "new", "name", "import", or "block" for   *)
(*         any other statement that holds statements                       *)
(*   name  identifiers, <<"self", "run">> for self.run                     *)
(*   up    the node above it, 0 at the top                                 *)
(*   row, last  its first and last line                                    *)
(*   refs  the bases of a class, the parameters of a function, the type an *)
(*         assignment is annotated with, the names an import binds         *)
(*   is    what else the parsers look at                                   *)
(* Decorators and "export" change nothing but the nesting and are left out.*)
EXTENDS Naturals, Sequences, FiniteSets

Opens == {"function", "arrow", "method", "class", "enum"}

(* The nearest function or class around a node, 0 at the top.              *)
Holder(t) ==
  LET h[n \in DOMAIN t] ==
        LET u == t[n].up IN IF u = 0 \/ t[u].type \in Opens THEN u ELSE h[u]
  IN h

(* Whether a node lies in one of the nodes D.                              *)
Inside(t, D) ==
  LET i[n \in DOMAIN t] == t[n].up # 0 /\ (t[n].up \in D \/ i[t[n].up]) IN i

(* The innermost of the nodes D around the line of n: a call belongs to    *)
(* the definition its line lies in, not to the one it is nested in.        *)
Around(t, D, n) == {d \in D : t[d].row <= t[n].row /\ t[n].row <= t[d].last}
Tighter(t, d, e) ==
  \/ t[d].row > t[e].row
  \/ t[d].row = t[e].row /\ t[d].last < t[e].last
  \/ t[d].row = t[e].row /\ t[d].last = t[e].last /\ d <= e
Owner(t, D, n) ==
  CHOOSE d \in Around(t, D, n) : \A e \in Around(t, D, n) : Tighter(t, d, e)

(* The nodes of a type that lie in a definition and on lines of one.       *)
Sites(t, D, type) ==
  {n \in DOMAIN t : t[n].type = type /\ Inside(t, D)[n] /\ Around(t, D, n) # {}}

(* A function without a name is called what it is assigned to.             *)
Named(t, n) == IF t[n].type = "arrow" THEN t[n].up ELSE n

Qualified(t, module) ==
  LET q[n \in DOMAIN t] ==
        LET h == Holder(t)[n] IN
        (CASE h = 0 -> <<module>>
           [] h # 0 /\ t[h].type \in {"class", "enum"} -> q[h]
           [] OTHER -> Append(q[Named(t, h)], "<locals>")) \o t[n].name
  IN q

Row(t, module, n, type, parent, branches, members) ==
  [name |-> t[n].name[1], qual |-> Qualified(t, module)[n], type |-> type,
   from |-> t[n].row, to |-> t[n].last, parent |-> parent, branches |-> branches,
   members |-> members]

CallSites(t, module, D) ==
  {[caller |-> Qualified(t, module)[Named(t, Owner(t, D, n))], name |-> t[n].name,
    line |-> t[n].row] : n \in {m \in Sites(t, D, "call") : t[m].name # <<"super">>}}

Edge(source, target, kind, line) ==
  [source |-> source, target |-> target, kind |-> kind, line |-> line]

(* Of two classes of the same qualified name only the last keeps its bases.*)
LastOf(t, module, C) ==
  {n \in C : \A m \in C : m > n => Qualified(t, module)[m] # Qualified(t, module)[n]}

Inherited(t, module, C) ==
  UNION {{Edge(Qualified(t, module)[n], b, "inherits", t[n].row) : b \in t[n].refs} :
           n \in LastOf(t, module, C)}

Instantiated(t, module, D, S) ==
  {Edge(Qualified(t, module)[Named(t, Owner(t, D, n))], t[n].name, "instantiates", t[n].row) :
     n \in S}

(* The parameters a function's own conditions name.                        *)
Mentioned(t, n) == {m \in DOMAIN t : t[m].type = "name" /\ Holder(t)[m] = n}
InConditions(t, n) ==
  {t[m].name[1] : m \in {k \in Mentioned(t, n) : "condition" \in t[k].is}}
=============================================================================
