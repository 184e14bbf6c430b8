---------------------------- MODULE MCValidator ----------------------------
(* Two concepts, a convention, a playbook, a post and a post in            *)
(* stack/posts; d2 lies in d1, f1 (in d2) imports f2 (in d1).  A library   *)
(* starts healthy but for flaws of one part (and, where they can matter to *)
(* a fixer that deletes, people at work) or two, or for one fault in the   *)
(* frontmatter or form of one file, or of two of a kind of which one makes *)
(* the check fail.                                                         *)
EXTENDS Validator

CONSTANTS login, retry, f1, f2, d1, d2

MCSlot == 1..6
MCKind == [s \in MCSlot |-> CASE s <= 2 -> "concept" [] s = 3 -> "convention"
                              [] s = 4 -> "playbook" [] OTHER -> "stack"]
MCNumber == [s \in MCSlot |-> IF s = 2 THEN 2 ELSE 1]
MCSlug == [s \in MCSlot |-> IF s = 1 THEN login ELSE retry]
MCLoose == [n \in {login, retry} |-> n]
MCCode == {<<"concept", 1>>}
MCDirOf == [f \in {f1, f2} |-> IF f = f1 THEN d2 ELSE d1]
MCAbove == [d \in {d1, d2} |-> IF d = d1 THEN {d1} ELSE {d1, d2}]
MCImports == [f \in {f1, f2} |-> IF f = f1 THEN {f2} ELSE {}]

Page(s) ==
  [Blank(s, TRUE) EXCEPT
     !.status = IF Kind[s] = "stack" THEN "open" ELSE "active",
     !.verified = "recent", !.dirty = FALSE,
     !.files = IF Kind[s] = "convention" THEN {} ELSE {f2},
     !.scope = IF Kind[s] = "convention" THEN {d2} ELSE {}]

Design(f) ==
  [links |-> {login}, form |-> "whole", wrong |-> {}, lacks |-> {}, status |-> "active",
   hash |-> 1, deps |-> MCImports[f], dependents |-> {g \in File : f \in MCImports[g]},
   whole |-> TRUE, by |-> "agent", age |-> None, notes |-> 0, big |-> FALSE]

Note == [old |-> FALSE, form |-> "whole", wrong |-> {}]

Pages == [s \in Slot |-> IF s = 6 THEN None ELSE Page(s)]
Designs == [f \in File |-> Design(f)]
Covered == [k \in Dir |-> [files |-> {f \in File : DirOf[f] = k}, dirs |-> Above[d2] \ {k, d1}]]
Places == Dir \cup Shelf

Rows == [version |-> TRUE, edges |-> {<<f1, f2>>}, sources |-> File, designs |-> File,
         articles |-> {1, 2, 3, 4, 5}]

(* Flaws, by part; 0 is none.                                              *)
Sources == <<[f \in File |-> IF f = f1 THEN 0 ELSE 1], [f \in File |-> IF f = f2 THEN 0 ELSE 1],
             [f \in File |-> 2]>>
Articles ==
  <<[Pages EXCEPT ![1].verified = "old"], [Pages EXCEPT ![2].name = login],
    [Pages EXCEPT ![2] = None], [Pages EXCEPT ![4] = [@ EXCEPT !.verified = "old", !.status = "draft"]],
    [Pages EXCEPT ![4].verified = "old"], [Pages EXCEPT ![5].links = {<<"concept", 1>>}]>>
DesignFiles ==
  <<[Designs EXCEPT ![f1] = [@ EXCEPT !.status = "deprecated", !.age = Ttl]],
    [Designs EXCEPT ![f1] = [@ EXCEPT !.status = "deprecated", !.age = Ttl + 1]],
    [Designs EXCEPT ![f1] = None], [Designs EXCEPT ![f1].deps = {}],
    [Designs EXCEPT ![f2].dependents = {}], [Designs EXCEPT ![f1].big = TRUE],
    [Designs EXCEPT ![f1].links = {retry}]>>
Indexes == <<[d \in Dir |-> None], [d \in Dir |-> [files |-> File, dirs |-> {}]]>>
Signals ==
  <<[p \in Places |-> IF p = d2 THEN [Note EXCEPT !.old = TRUE] ELSE None],
    [p \in Places |-> IF p = d2 THEN Note ELSE None],
    [p \in Places |-> IF p = "concepts" THEN [Note EXCEPT !.old = TRUE] ELSE None]>>
Graphs == <<None, [Rows EXCEPT !.version = FALSE], [Rows EXCEPT !.edges = {}]>>

Pick(choices, i, healthy) == IF i = 0 THEN healthy ELSE choices[i]

(* The faults of one file.                                                 *)
Bad(x) ==
  {[x EXCEPT !.form = form] : form \in Form} \cup {[x EXCEPT !.wrong = {w}] : w \in Field \X How}

Spoilt(x) ==
  {[x EXCEPT !.form = "undated"], [x EXCEPT !.wrong = {<<"status", "type">>}]}

Flawed ==
  \E a \in 0..3, b \in 0..6, c \in 0..7, d \in 0..2, e \in 0..3, g \in 0..3, h \in {0, 1}, i \in {0, 1} :
    /\ LET flaws == Cardinality({n \in 1..8 : <<a, b, c, d, e, g, h, i>>[n] # 0})
           alone == flaws = 2 \/ a = 2 \/ b > 3 \/ c > 3 \/ g + i > 0
       IN flaws <= 2 /\ acts = IF alone THEN Acts ELSE 0
    /\ source = Pick(Sources, a, [f \in File |-> 1])
    /\ dirs = IF h = 0 THEN Dir ELSE {d1}
    /\ h = 1 => source[f1] = 0
    /\ article = Pick(Articles, b, Pages)
    /\ design = Pick(DesignFiles, c, Designs)
    /\ aindex = Pick(Indexes, d, Covered)
    /\ signal = Pick(Signals, e, [p \in Places |-> None])
    /\ graph = Pick(Graphs, g, Rows)
    /\ tracked = IF i = 0 THEN File ELSE {}
    /\ setup = [config |-> TRUE, ignore |-> TRUE]

Faulted ==
  /\ source = [f \in File |-> 1] /\ dirs = Dir
  /\ aindex = Covered /\ graph = None /\ tracked = File
  /\ setup = [config |-> FALSE, ignore |-> FALSE]
  /\ acts = Acts
  /\ \/ /\ \E s \in Slot : \E x \in Bad(Page(s)) : article = [Pages EXCEPT ![s] = x]
        /\ design = Designs /\ signal = [p \in Places |-> None]
     \/ /\ \E x \in Bad(Page(1)), y \in Spoilt(Page(2)) : article = [Pages EXCEPT ![1] = x, ![2] = y]
        /\ design = Designs /\ signal = [p \in Places |-> None]
     \/ /\ article = Pages /\ signal = [p \in Places |-> None]
        /\ \E x \in Bad(Design(f1)) \cup {[Design(f1) EXCEPT !.lacks = {l}] :
                                            l \in {"title", "sections", "footer", "fields"}},
              y \in {Design(f2)} \cup Spoilt(Design(f2)) :
             design = [Designs EXCEPT ![f1] = x, ![f2] = y]
     \/ /\ article = Pages /\ design = Designs
        /\ \E x \in Bad(Note) : signal = [p \in Places |-> IF p = d1 THEN x ELSE None]

MCInit ==
  /\ Flawed \/ Faulted
  /\ index = None /\ client = <<>> /\ sweep = None
  /\ pass = None
  /\ ValidatorInit

MCSpec == MCInit /\ [][ValidatorNext]_vars
=============================================================================
