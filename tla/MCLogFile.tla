------------------------------ MODULE MCLogFile ------------------------------
(* The instances of LogFile that TLC checks. *)
EXTENDS LogFile

CONSTANTS p1, p2, p3
===============================================================================
