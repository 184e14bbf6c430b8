-------------------------- MODULE MCUpdatePipeline --------------------------
(* Two files in a directory and its subdirectory, the watch loop, one      *)
(* other invocation, skeleton hooks.                                       *)
EXTENDS UpdatePipeline

CONSTANTS a, b, r, d

MCIn == [f \in {a, b} |-> IF f = a THEN r ELSE d]
MCRank == [f \in {a, b} |-> IF f = a THEN 1 ELSE 2]
MCAbove == [x \in {r, d} |-> IF x = r THEN {r} ELSE {d, r}]

(* One imports the other, in either order.                                 *)
MCStart == {[f \in {a, b} |-> IF f = a THEN {b} ELSE {}],
            [f \in {a, b} |-> IF f = a THEN {} ELSE {a}]}

(* An edit and another invocation; two hooks and a failure; an edit, a     *)
(* hook and a failure.                                                     *)
MCBudgets ==
    {[edits |-> 1, runs |-> 1, hooks |-> 0, faults |-> 0],
     [edits |-> 0, runs |-> 0, hooks |-> 2, faults |-> 1],
     [edits |-> 1, runs |-> 0, hooks |-> 1, faults |-> 1]}
=============================================================================
