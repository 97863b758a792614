----------------------------- MODULE Descriptors ------------------------------
(***************************************************************************)
(* The relay's table of open files: which number each socket and each pipe *)
(* has, from accept, socket and pipe to close.  g_sock_map is a map of     *)
(* these numbers, the kernel gives out the lowest that is free, and at the *)
(* limit it gives none: accept, socket and pipe then fail, and the program *)
(* goes on with what it has.  splice_sock closes the pipe it made.  So     *)
(* does CFinEventClient its socket: it is meant for the client, but the    *)
(* server's CFactory runs it for an uninitialised st_event that has its    *)
(* type, and the number stays in g_sock_map.                               *)
(*                                                                         *)
(* NatServer has the messages and the locks, and names each socket; here   *)
(* an event is only what it does to the numbers.                           *)
(***************************************************************************)
EXTENDS Integers, FiniteSets, FiniteSetsExt

CONSTANTS
    Clients,     \* the processes that connect
    Workers,     \* the pool's threads
    Limit,       \* the files the process may open besides the ones it has from start
    MaxRefused,  \* bound: the pipes that are refused
    MaxFincs,    \* bound: the runs of CFinEventClient
    PIPE,        \* either end of a pipe, in the table
    NULL

Socks == Clients \X {"in", "out"}

ASSUME DescAssumption ==
    /\ IsFiniteSet(Clients) /\ IsFiniteSet(Workers)
    /\ Limit \in Nat /\ MaxRefused \in Nat /\ MaxFincs \in Nat
    /\ NULL \notin Int \cup Socks \cup Clients \cup {PIPE} /\ PIPE \notin Socks

Numbers == 1 .. Limit
Keys == Numbers \cup {-1}    \* -1 is the number of nothing

VARIABLES
    table,       \* the open file each number stands for, NULL when it is free
    num,         \* m_sock or m_conn_sock of each socket, NULL before there is one
    g_sock_map,  \* the number each number is relayed to, NULL for no entry
    pc,          \* where each worker is
    acked,       \* the client of its CAckEvent
    psock,       \* the pair its splice_sock was given, or CFinEventClient's sock
    pipe_fd,     \* the two numbers on its stack
    made,        \* whether its pipe() returned 0
    agains,      \* history: the splices with a pipe that ended in EAGAIN or EINTR
    refused,     \* history: the pipes that were refused
    fincs,       \* history: the runs of CFinEventClient
    fined        \* history: the numbers they closed

closed == <<fincs, fined>>
history == <<agains, refused, closed>>
vars == <<table, num, g_sock_map, pc, acked, psock, pipe_fd, made, history>>

Init ==
    /\ table = [n \in Numbers |-> NULL]
    /\ num = [s \in Socks |-> NULL]
    /\ g_sock_map = [n \in Keys |-> NULL]
    /\ pc = [w \in Workers |-> "idle"]
    /\ acked = [w \in Workers |-> NULL]
    /\ psock = [w \in Workers |-> <<-1, -1>>]
    /\ pipe_fd = [w \in Workers |-> <<-1, -1>>]
    /\ made = [w \in Workers |-> FALSE]
    /\ agains = 0 /\ refused = 0 /\ fincs = 0 /\ fined = {}
-------------------------------------------------------------------------------
(* The kernel. *)

Free == {n \in Numbers : table[n] = NULL}
CloseNumber(n) == table' = [m \in Numbers |-> IF m = n THEN NULL ELSE table[m]]

\* The lowest free number for s, or -1.
Open(s) ==
    IF Free = {}
    THEN num' = [num EXCEPT ![s] = -1] /\ UNCHANGED table
    ELSE /\ num' = [num EXCEPT ![s] = Min(Free)]
         /\ table' = [table EXCEPT ![Min(Free)] = s]

\* There is an event for s: its number is still its own.
Live(s) == num[s] \in Numbers /\ table[num[s]] = s
-------------------------------------------------------------------------------
Goto(w, l) == pc' = [pc EXCEPT ![w] = l]

\* The handler returns, and what it had on the stack is gone.
Return(w) ==
    /\ Goto(w, "idle")
    /\ acked' = [acked EXCEPT ![w] = NULL]
    /\ psock' = [psock EXCEPT ![w] = <<-1, -1>>]
    /\ pipe_fd' = [pipe_fd EXCEPT ![w] = <<-1, -1>>]
    /\ made' = [made EXCEPT ![w] = FALSE]

\* wait_epoll: at the limit accept fails, the connection stays where it is and is
\* reported again.
Accept(c) ==
    /\ num[<<c, "in">>] = NULL /\ Free # {}
    /\ Open(<<c, "in">>)
    /\ UNCHANGED <<g_sock_map, pc, acked, psock, pipe_fd, made, history>>

\* CAckEvent: create_sock's result is not looked at ...
CreateSock(w, c) ==
    /\ pc[w] = "idle" /\ Live(<<c, "in">>) /\ num[<<c, "out">>] = NULL
    /\ Open(<<c, "out">>)
    /\ acked' = [acked EXCEPT ![w] = c]
    /\ Goto(w, "insert")
    /\ UNCHANGED <<g_sock_map, psock, pipe_fd, made, history>>

\* ... and what it left in m_sock is inserted both ways: insert keeps an entry that
\* has the key, which -1 may.
Insert(w) ==
    /\ pc[w] = "insert"
    /\ LET in == num[<<acked[w], "in">>]
           out == num[<<acked[w], "out">>]
           Add(map, n, m) == [map EXCEPT ![n] = IF @ = NULL THEN m ELSE @]
       IN  g_sock_map' = Add(Add(g_sock_map, in, out), out, in)
    /\ Return(w)
    /\ UNCHANGED <<table, num, history>>

\* The mutant of Splice: end() is not tested for.
SpliceUntested(w, s) ==
    /\ pc[w] = "idle" /\ Live(s)
    /\ psock' = [psock EXCEPT ![w] = <<num[s], g_sock_map[num[s]]>>]
    /\ Goto(w, "recv")

\* CTransEvent finds its pair, and splice_sock makes a pipe that it does not use.
Splice(w, s) ==
    /\ pc[w] = "idle" /\ Live(s) /\ g_sock_map[num[s]] # NULL
    /\ psock' = [psock EXCEPT ![w] = <<num[s], g_sock_map[num[s]]>>]
    /\ Goto(w, "recv")

Pipe(w, s) ==
    /\ Splice(w, s)
    /\ Cardinality(Free) > 1
    /\ LET a == Min(Free)
           b == Min(Free \ {a})
       IN  /\ table' = [table EXCEPT ![a] = PIPE, ![b] = PIPE]
           /\ pipe_fd' = [pipe_fd EXCEPT ![w] = <<a, b>>]
    /\ made' = [made EXCEPT ![w] = TRUE]
    /\ UNCHANGED <<num, g_sock_map, acked, history>>

\* pipe() fails and leaves pipe_fd as the stack has it: any two numbers.
PipeRefused(w, s) ==
    /\ Splice(w, s)
    /\ Cardinality(Free) <= 1 /\ refused < MaxRefused
    /\ \E a, b \in Keys : pipe_fd' = [pipe_fd EXCEPT ![w] = <<a, b>>]
    /\ made' = [made EXCEPT ![w] = FALSE]
    /\ refused' = refused + 1
    /\ UNCHANGED <<table, num, g_sock_map, acked, agains, closed>>

\* recv fails with EAGAIN or EINTR: splice_sock returns without a close.
RecvNothing(w) ==
    /\ pc[w] = "recv"
    /\ agains' = IF made[w] THEN agains + 1 ELSE agains
    /\ Return(w)
    /\ UNCHANGED <<table, num, g_sock_map, refused, closed>>

Relay(w) ==
    /\ pc[w] = "recv"
    /\ Goto(w, "close0")
    /\ UNCHANGED <<table, num, g_sock_map, acked, psock, pipe_fd, made, history>>

\* The mutant of CloseFirst: the socket is closed, as its data were relayed.
CloseSocket(w) ==
    /\ pc[w] = "close0"
    /\ CloseNumber(psock[w][1])
    /\ Goto(w, "close1")
    /\ UNCHANGED <<num, g_sock_map, acked, psock, pipe_fd, made, history>>

CloseFirst(w) ==
    /\ pc[w] = "close0"
    /\ CloseNumber(pipe_fd[w][1])
    /\ Goto(w, "close1")
    /\ UNCHANGED <<num, g_sock_map, acked, psock, pipe_fd, made, history>>

\* The mutant of CloseSecond: the end that is closed already.
CloseFirstAgain(w) ==
    /\ pc[w] = "close1"
    /\ CloseNumber(pipe_fd[w][1])
    /\ Return(w)
    /\ UNCHANGED <<num, g_sock_map, history>>

CloseSecond(w) ==
    /\ pc[w] = "close1"
    /\ CloseNumber(pipe_fd[w][2])
    /\ Return(w)
    /\ UNCHANGED <<num, g_sock_map, history>>

\* CFinEventClient on the socket of an event: it has the number from now on ...
FincTake(w, s) ==
    /\ pc[w] = "idle" /\ Live(s) /\ fincs < MaxFincs
    /\ psock' = [psock EXCEPT ![w] = <<num[s], -1>>]
    /\ fincs' = fincs + 1
    /\ Goto(w, "finc")
    /\ UNCHANGED <<table, num, g_sock_map, acked, pipe_fd, made, agains, refused, fined>>

\* ... and closes it, whatever has it then.
FincClose(w) ==
    /\ pc[w] = "finc"
    /\ CloseNumber(psock[w][1])
    /\ fined' = fined \cup {psock[w][1]}
    /\ Return(w)
    /\ UNCHANGED <<num, g_sock_map, agains, refused, fincs>>

\* The mutant of Fin: both sockets are closed and their entries stay.
FinCloses(n) ==
    /\ g_sock_map[n] # NULL
    /\ table' = [m \in Numbers |-> IF m \in {n, g_sock_map[n]} THEN NULL ELSE table[m]]
    /\ UNCHANGED <<num, g_sock_map, pc, acked, psock, pipe_fd, made, history>>

\* CFinEventServer erases the pair of the number in the message, which is the
\* client's own; g_leave_queue only shuts the pair's sockets down.
Fin(n) ==
    /\ g_sock_map[n] # NULL
    /\ g_sock_map' = [m \in Keys |-> IF m \in {n, g_sock_map[n]} THEN NULL ELSE g_sock_map[m]]
    /\ UNCHANGED <<table, num, pc, acked, psock, pipe_fd, made, history>>

Worker(w) ==
    \/ \E c \in Clients : CreateSock(w, c)
    \/ Insert(w)
    \/ \E s \in Socks : Pipe(w, s) \/ PipeRefused(w, s) \/ FincTake(w, s)
    \/ RecvNothing(w) \/ Relay(w) \/ CloseFirst(w) \/ CloseSecond(w) \/ FincClose(w)

Next ==
    \/ \E c \in Clients : Accept(c)
    \/ \E w \in Workers : Worker(w)
    \/ \E n \in Keys : Fin(n)

Spec == Init /\ [][Next]_vars
-------------------------------------------------------------------------------
\* Every variable has its type.
TypeOK ==
    /\ table \in [Numbers -> Socks \cup {PIPE, NULL}]
    /\ num \in [Socks -> Keys \cup {NULL}]
    /\ g_sock_map \in [Keys -> Keys \cup {NULL}]
    /\ pc \in [Workers -> {"idle", "insert", "recv", "close0", "close1", "finc"}]
    /\ acked \in [Workers -> Clients \cup {NULL}]
    /\ psock \in [Workers -> Keys \X Keys] /\ pipe_fd \in [Workers -> Keys \X Keys]
    /\ made \in [Workers -> BOOLEAN]
    /\ agains \in Nat /\ refused \in 0 .. MaxRefused
    /\ fincs \in 0 .. MaxFincs /\ fined \subseteq Numbers

\* While no pipe was refused, a number that g_sock_map relays and CFinEventClient did
\* not close is that of an open socket, and is relayed to the other socket of its
\* session, or to -1 when that was not created: splice_sock, CAckEvent and
\* CFinEventServer never let a number be given to a newcomer while it is a key, nor
\* does a number CFinEventClient closed draw another one into that.
MapNames ==
    refused = 0 => \A n \in Numbers \ fined : g_sock_map[n] # NULL =>
        \E c \in Clients :
            /\ {n, g_sock_map[n]} = {num[<<c, "in">>], num[<<c, "out">>]}
            /\ table[n] \in {<<c, "in">>, <<c, "out">>}

\* The sockets whose number was closed under them.
Lost == {s \in Socks : num[s] \in Numbers /\ table[num[s]] # s}

\* A refused pipe makes splice_sock close two numbers it does not know, CFinEventClient
\* closes the number of a socket that goes on being used: either may hit another
\* thread's pipe, whose number the next socket gets before that thread closes it.
\* However far that goes, two sockets are lost for a refused pipe, one for a run of
\* CFinEventClient, and not more.
SocketsLost == Cardinality(Lost) <= 2 * refused + fincs

\* What the numbers are used for: a socket keeps its own after FIN and after the
\* client has gone, a splice that reads nothing keeps two, the others give theirs
\* back.  A refused pipe makes it up to two less, CFinEventClient up to one.
Accounting ==
    LET Held(p) == Cardinality({w \in Workers : made[w] /\ pc[w] \in p})
        all == Cardinality({s \in Socks : num[s] \in Numbers}) + 2 * agains
                 + 2 * Held({"recv", "close0"}) + Held({"close1"})
    IN  Cardinality(Numbers \ Free) \in (all - 2 * refused - fincs) .. all
===============================================================================
