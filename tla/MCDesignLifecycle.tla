------------------------- MODULE MCDesignLifecycle -------------------------
(***************************************************************************)
(* DesignLifecycle for TLC.  Paths are interchangeable, and so are con-    *)
(* tents and notes.                                                        *)
(***************************************************************************)
EXTENDS DesignLifecycle, TLC

Paths == Permutations(Source)
Contents == Permutations(Content)
Notes == Permutations(Note)
Alike == Paths \cup Contents \cup Notes
=============================================================================
