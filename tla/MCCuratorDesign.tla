--------------------------- MODULE MCCuratorDesign ---------------------------
(* CuratorDesign for TLC.  Two consecutive versions share their interface. *)
EXTENDS CuratorDesign

CodeIface == [v \in 0 .. MaxVersion |-> v \div 2]
=============================================================================
