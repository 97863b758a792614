----------------------------- MODULE MCAllowList -----------------------------
(* The instances of AllowList that TLC checks. *)
EXTENDS AllowList, TLC

CONSTANTS r1, r2

SymmetricRegisters == Permutations(Registers)
===============================================================================
