------------------------------ MODULE WorkList ------------------------------
(***************************************************************************)
(* What a work list that several processes share promises: an item that    *)
(* was put on it stays there until somebody has concluded it, unless it    *)
(* was put there while somebody was about to rewrite the list (it is       *)
(* exposed), or the list was torn by a kill.                               *)
(***************************************************************************)
EXTENDS Naturals

CONSTANT Item

VARIABLES
    pending,   \* what is on the list
    known,     \* what ever was
    handled,   \* what was concluded since it was last put there
    exposed,   \* what was last put there at a bad moment, or was there when it was torn
    torn       \* how often the list was torn

vars == <<pending, known, handled, exposed, torn>>

Init == pending = {} /\ known = {} /\ handled = {} /\ exposed = {} /\ torn = 0

Put(x) ==
    /\ pending' = pending \cup {x} /\ known' = known \cup {x}
    /\ handled' = handled \ {x}
    /\ exposed' \in {exposed \cup {x}, exposed \ {x}}
    /\ UNCHANGED torn

Conclude(x) ==
    /\ handled' = handled \cup {x}
    /\ UNCHANGED <<pending, known, exposed, torn>>

(* A rewrite may bring back what was there before, but drops nothing that  *)
(* is neither handled nor exposed.                                         *)
Rewrite ==
    /\ pending' \in SUBSET known
    /\ pending \ pending' \subseteq handled \cup exposed
    /\ UNCHANGED <<known, handled, exposed, torn>>

Tear ==
    /\ pending' = {} /\ torn' = torn + 1
    /\ exposed' = exposed \cup pending
    /\ UNCHANGED <<known, handled>>

Next == Rewrite \/ Tear \/ \E x \in Item : Put(x) \/ Conclude(x)

Spec == Init /\ [][Next]_vars
=============================================================================
