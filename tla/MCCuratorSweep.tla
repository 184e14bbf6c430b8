--------------------------- MODULE MCCuratorSweep ---------------------------
(***************************************************************************)
(* CuratorSweep for TLC.  "todo" is a TODO comment, audited under full     *)
(* autonomy in every run; "design" a stale design file, beside a design    *)
(* file whose deprecation is proposed ("orphan"); "comment" a sidecar to   *)
(* integrate; "merge" an audit whose LLM call may fail; "link" a graph     *)
(* issue whose handler does not fail.                                      *)
(***************************************************************************)
EXTENDS CuratorSweep

Order == <<"design", "todo", "comment", "merge", "link", "orphan">>
SmallRank == [i \in Issues |-> 10 - CHOOSE k \in 1 .. 6 : Order[k] = i]
SmallBeside == [p \in Proposed |-> {"design"}]
=============================================================================
