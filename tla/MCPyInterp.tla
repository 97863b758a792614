----------------------------- MODULE MCPyInterp ------------------------------
(* The instance of PyInterp that TLC checks. *)
EXTENDS PyInterp, TLC

CONSTANTS k1, k2, k3

SymmetricCalls == Permutations(Calls)
===============================================================================
