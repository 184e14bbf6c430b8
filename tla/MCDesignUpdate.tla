--------------------------- MODULE MCDesignUpdate ---------------------------
(***************************************************************************)
(* DesignUpdate for TLC.  Two consecutive versions share their public      *)
(* interface, so that CONTENT_ONLY and INTERFACE_CHANGED both occur.       *)
(***************************************************************************)
EXTENDS DesignUpdate

CodeIface == [v \in 0 .. MaxVersion |-> v \div 2]
=============================================================================
