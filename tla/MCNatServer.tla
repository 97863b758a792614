----------------------------- MODULE MCNatServer -----------------------------
(* The instances of NatServer that TLC checks. *)
EXTENDS NatServer, TLC

CONSTANTS c1, c2, w1, w2

Once == [c \in Clients |-> 1]
Twice == [c \in Clients |-> 2]
TwiceOnce == [c \in Clients |-> IF c = c1 THEN 2 ELSE 1]

NoFault == {[faults |-> {}, mortal |-> {}]}
Departing == {[faults |-> {"quit"}, mortal |-> {c1}]}

\* The faults, three of them apart: a pool that mixes up events, destinations that
\* refuse, and a client that may die.  Its answer unread makes splice_sock send what is
\* on its stack, and with "junk" that runs a client's handler on the server, which a
\* pool that mixes up events may do as well.
Many == FaultNames \ {"mixed", "refuse", "junk"}
Faulty == {[faults |-> Many \cup {"mixed"}, mortal |-> {}],
           [faults |-> Many \cup {"refuse"}, mortal |-> {}],
           [faults |-> {"mixed", "junk"}, mortal |-> {}],
           [faults |-> {"quit", "junk"}, mortal |-> {c1}]}

SymmetricWorkers == Permutations(Workers)
===============================================================================
