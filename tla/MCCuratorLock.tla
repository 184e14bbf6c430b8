---------------------------- MODULE MCCuratorLock ----------------------------
(* CuratorLock for TLC. *)
EXTENDS CuratorLock, TLC

(* Processes are interchangeable, and so are process identifiers.          *)
AnyOrder == Permutations(Proc) \cup Permutations(Pid)
=============================================================================
