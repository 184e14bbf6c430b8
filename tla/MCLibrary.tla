----------------------------- MODULE MCLibrary -----------------------------
(* Three concept files of two numbers, one of every other kind; "login"    *)
(* and "log in" differ by a blank only.                                    *)
EXTENDS Library, TLC

CONSTANTS login, log_in, retry, f1, d1, c1, c2

MCSlot == 1..6
MCKind == [s \in MCSlot |-> CASE s <= 3 -> "concept" [] s = 4 -> "convention"
                              [] s = 5 -> "playbook" [] OTHER -> "stack"]
MCNumber == [s \in MCSlot |-> IF s \in {2, 3} THEN 2 ELSE 1]
MCSlug == [s \in MCSlot |-> CASE s \in {1} -> login [] s \in {2, 5} -> log_in [] OTHER -> retry]
MCName == {login, log_in, retry}
MCLoose == [n \in MCName |-> IF n = log_in THEN login ELSE n]
MCNear == [n \in MCName |-> IF n = login THEN log_in ELSE IF n = log_in THEN login ELSE n]
MCCode == {<<"concept", 1>>}
MCFile == {f1}
MCDir == {d1}
MCDirOf == [f \in MCFile |-> d1]
MCNested == {}
MCSymmetry == Permutations(Client)

Page(s) ==
  [Blank(s, TRUE) EXCEPT
     !.status = IF Kind[s] = "stack" THEN "resolved" ELSE "active", !.past = 1, !.dirty = FALSE,
     !.files = IF Kind[s] = "stack" THEN MCFile ELSE {}]

(* Two concepts, one of them linked; a convention and a playbook; a post   *)
(* without its source.                                                     *)
MCInit ==
  /\ dirs = MCDir
  /\ \E has \in {{1, 3}, {4, 5}, {6}} :
       /\ source = [f \in MCFile |-> IF 6 \in has THEN 0 ELSE 1]
       /\ article = [s \in MCSlot |-> IF s \in has THEN Page(s) ELSE None]
       /\ design = [f \in MCFile |->
            [links |-> IF 1 \in has THEN {login} ELSE {}, form |-> "whole", wrong |-> {},
             lacks |-> {}, status |-> "active"]]
  /\ index = Linked
  /\ client = [c \in Client |-> None]
  /\ sweep = None
  /\ acts = 0
  /\ LibraryInit

MCSpec == MCInit /\ [][LibraryNext]_libraryVars
=============================================================================
