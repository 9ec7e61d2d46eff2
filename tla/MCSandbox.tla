------------------------------ MODULE MCSandbox ------------------------------
(* Instances of Sandbox for TLC.                                           *)
EXTENDS Sandbox, TLC

(* Processes are interchangeable: no operation compares their ids.         *)
PidSymmetry == Permutations(Trees) \cup Permutations(Servers)
==============================================================================
