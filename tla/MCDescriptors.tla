---------------------------- MODULE MCDescriptors -----------------------------
(* The instance of Descriptors that TLC checks. *)
EXTENDS Descriptors, TLC

CONSTANTS c1, c2, c3, w1, w2

Symmetric == Permutations(Clients) \cup Permutations(Workers)
===============================================================================
