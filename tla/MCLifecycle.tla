----------------------------- MODULE MCLifecycle -----------------------------
(* Instances of Lifecycle for TLC.                                         *)
EXTENDS Lifecycle, TLC

(* Processes are interchangeable: no operation compares their ids.         *)
PidSymmetry == Permutations(Pids)

(* And so are services without a port.                                     *)
Symmetry == PidSymmetry \cup Permutations(Services \ Ported)
=============================================================================
