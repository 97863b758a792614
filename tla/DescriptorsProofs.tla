-------------------------- MODULE DescriptorsProofs ---------------------------
(***************************************************************************)
(* Proofs about Descriptors, for any number of clients and workers and any *)
(* limit.  MapNames is not inductive: that an entry's number still stands  *)
(* for its socket needs that the numbers on the workers' stacks are those  *)
(* of their own pipes, each on one stack only (PipeInv), that no socket's  *)
(* number has been closed (SockInv), and that CAckEvent inserts what it    *)
(* created (AckInv), all but for the numbers CFinEventClient closed: they  *)
(* spoil nothing but themselves.  SocketsLost and Accounting count:        *)
(* CountInv balances the closes to come against the numbers they are owed  *)
(* to.                                                                     *)
(***************************************************************************)
EXTENDS Descriptors, FiniteSetTheorems, TLAPS

\* The numbers w has yet to close.
Ends(w) ==
    CASE pc[w] \in {"recv", "close0"} -> {pipe_fd[w][1], pipe_fd[w][2]}
      [] pc[w] = "close1"             -> {pipe_fd[w][2]}
      [] OTHER                        -> {}

PipeInv ==
    /\ \A w \in Workers : \A n \in Ends(w) : n \in Numbers /\ (n \in fined \/ table[n] = PIPE)
    /\ \A w \in Workers : pc[w] \in {"recv", "close0"} => pipe_fd[w][1] # pipe_fd[w][2]
    /\ \A v, w \in Workers : v # w => Ends(v) \cap Ends(w) \subseteq fined

SockInv == \A s \in Socks : num[s] \in Numbers \ fined => table[num[s]] = s

AckInv ==
    \A w \in Workers : pc[w] = "insert" =>
        /\ acked[w] \in Clients
        /\ num[<<acked[w], "in">>] \in Numbers
        /\ num[<<acked[w], "out">>] # NULL

\* CFinEventClient closes a number that was a socket's.
FincInv == \A w \in Workers : pc[w] = "finc" => psock[w][1] \in Numbers

MapInv ==
    \A n \in Numbers \ fined : g_sock_map[n] # NULL =>
        \E c \in Clients :
            /\ {n, g_sock_map[n]} = {num[<<c, "in">>], num[<<c, "out">>]}
            /\ table[n] \in {<<c, "in">>, <<c, "out">>}

IInv == TypeOK /\ AckInv /\ FincInv /\ (refused = 0 => PipeInv /\ SockInv /\ MapInv)

USE DescAssumption
-------------------------------------------------------------------------------
\* A finite set of numbers has a least one.
LEMMA MinOf ==
    ASSUME NEW S, IsFiniteSet(S), S # {}, S \subseteq Int
    PROVE  Min(S) \in S
<1>. DEFINE Below(n) == {m \in S : m =< n}
           R == StrictSubsetOrdering(S)
           T == {Below(n) : n \in S}
<1>1. IsWellFoundedOn(R, FiniteSubsetsOf(S))
    BY FS_StrictSubsetOrderingWellFounded
<1>2. T \subseteq FiniteSubsetsOf(S)
    BY FS_Subset DEF FiniteSubsetsOf
<1>3. T # {}
    OBVIOUS
<1>4. PICK U \in T : \A V \in T : ~ (<<V, U>> \in R)
  <2>. HIDE DEF R, T
  <2>. QED BY <1>1, <1>2, <1>3, WFMin
<1>5. PICK n \in S : U = Below(n)
    OBVIOUS
<1>6. ASSUME NEW m \in S, m < n PROVE FALSE
  <2>1. m \in Int /\ n \in Int
    OBVIOUS
  <2>2. \A k \in S : k \in Int /\ (k =< m => k =< n)
    BY <2>1, <1>6
  <2>3. Below(m) \subseteq Below(n)
    BY <2>2
  <2>4. n =< n /\ ~ (n =< m)
    BY <2>1, <1>6
  <2>5. n \in Below(n) /\ n \notin Below(m)
    BY <2>4
  <2>6. <<Below(m), U>> \in R
    BY <2>3, <2>5, <1>5 DEF StrictSubsetOrdering
  <2>. QED BY <2>6, <1>4
<1>7. \A m \in S : n =< m
    BY <1>6
<1>. QED BY <1>7 DEF Min

\* What Open takes is free.
LEMMA LowestFree ==
    ASSUME NEW S \in SUBSET Numbers, S # {}
    PROVE  Min(S) \in S
<1>1. IsFiniteSet(Numbers)
    BY FS_Interval DEF Numbers
<1>2. IsFiniteSet(S)
    BY <1>1, FS_Subset
<1>3. S \subseteq Int
    BY DEF Numbers
<1>. QED BY <1>2, <1>3, MinOf

LEMMA OpenSteps ==
    ASSUME NEW s \in Socks, Open(s)
    PROVE  \/ num' = [num EXCEPT ![s] = -1] /\ table' = table
           \/ \E n \in Free : /\ num' = [num EXCEPT ![s] = n]
                              /\ table' = [table EXCEPT ![n] = s]
BY LowestFree DEF Open, Free

LEMMA PipeSteps ==
    ASSUME NEW w \in Workers, NEW s \in Socks, Pipe(w, s)
    PROVE  \E a, b \in Free : /\ a # b
                              /\ table' = [table EXCEPT ![a] = PIPE, ![b] = PIPE]
                              /\ pipe_fd' = [pipe_fd EXCEPT ![w] = <<a, b>>]
<1>. DEFINE a == Min(Free)
           b == Min(Free \ {a})
<1>1. Free \subseteq Numbers /\ IsFiniteSet(Free)
    BY FS_Interval, FS_Subset DEF Free, Numbers
<1>2. Cardinality(Free) > 1
    BY DEF Pipe
<1>3. Free # {}
    BY <1>2, FS_EmptySet
<1>4. a \in Free
    BY <1>1, <1>3, LowestFree
<1>5. Free \ {a} # {}
  <2>1. CASE Free = {a}
    <3>. HIDE DEF a
    <3>1. Cardinality({a}) = 1
        BY FS_Singleton
    <3>. QED BY <2>1, <1>2, <3>1
  <2>. QED BY <2>1, <1>4
<1>6. b \in Free \ {a}
    BY <1>1, <1>5, LowestFree
<1>. QED BY <1>4, <1>6 DEF Pipe
-------------------------------------------------------------------------------
LEMMA InitInv == Init => IInv
<1>. SUFFICES ASSUME Init PROVE IInv
    OBVIOUS
<1>. USE DEF Init
<1>1. TypeOK
    BY DEF TypeOK, Keys, Numbers, history, closed
<1>2. AckInv /\ FincInv
    BY DEF AckInv, FincInv
<1>3. PipeInv
    BY DEF PipeInv, Ends
<1>4. SockInv
    BY DEF SockInv, Numbers
<1>5. MapInv
    BY DEF MapInv, Keys
<1>. QED BY <1>1, <1>2, <1>3, <1>4, <1>5 DEF IInv

LEMMA OpenTyped ==
    ASSUME TypeOK, NEW s \in Socks, Open(s)
    PROVE  table' \in [Numbers -> Socks \cup {PIPE, NULL}] /\ num' \in [Socks -> Keys \cup {NULL}]
<1>1. CASE num' = [num EXCEPT ![s] = -1] /\ table' = table
    BY <1>1 DEF TypeOK, Keys
<1>2. ASSUME NEW n \in Free,
             num' = [num EXCEPT ![s] = n], table' = [table EXCEPT ![n] = s]
      PROVE  /\ table' \in [Numbers -> Socks \cup {PIPE, NULL}]
             /\ num' \in [Socks -> Keys \cup {NULL}]
    BY <1>2 DEF TypeOK, Keys, Free
<1>. QED BY <1>1, <1>2, OpenSteps

LEMMA TypeStep == TypeOK /\ AckInv /\ FincInv /\ [Next]_vars => TypeOK'
<1>. SUFFICES ASSUME TypeOK, AckInv, FincInv, [Next]_vars PROVE TypeOK'
    OBVIOUS
<1>. USE DEF TypeOK, Keys, history, closed
<1>0. Free \subseteq Numbers /\ Numbers \subseteq Int
    BY DEF Free, Numbers
<1>1. ASSUME NEW c \in Clients, Accept(c) PROVE TypeOK'
  <2>1. <<c, "in">> \in Socks /\ Open(<<c, "in">>)
    BY <1>1 DEF Accept, Socks
  <2>. QED BY <1>1, <2>1, OpenTyped DEF Accept
<1>2. ASSUME NEW w \in Workers, NEW c \in Clients, CreateSock(w, c) PROVE TypeOK'
  <2>1. <<c, "out">> \in Socks /\ Open(<<c, "out">>)
    BY <1>2 DEF CreateSock, Socks
  <2>. QED BY <1>2, <2>1, OpenTyped DEF CreateSock, Goto
<1>3. ASSUME NEW w \in Workers, Insert(w) PROVE TypeOK'
  <2>. DEFINE in == num[<<acked[w], "in">>]
             out == num[<<acked[w], "out">>]
             Add(map, n, m) == [map EXCEPT ![n] = IF @ = NULL THEN m ELSE @]
  <2>1. in \in Keys /\ out \in Keys
    <3>1. <<acked[w], "in">> \in Socks /\ <<acked[w], "out">> \in Socks
      BY <1>3 DEF Insert, AckInv, Socks
    <3>. QED BY <1>3, <3>1 DEF Insert, AckInv
  <2>2. g_sock_map' = Add(Add(g_sock_map, in, out), out, in)
    BY <1>3 DEF Insert
  <2>3. g_sock_map' \in [Keys -> Keys \cup {NULL}]
    <3>1. ASSUME NEW map \in [Keys -> Keys \cup {NULL}], NEW n \in Keys, NEW m \in Keys
          PROVE  Add(map, n, m) \in [Keys -> Keys \cup {NULL}]
      OBVIOUS
    <3>2. Add(g_sock_map, in, out) \in [Keys -> Keys \cup {NULL}]
      BY <2>1, <3>1
    <3>. HIDE DEF Add, in, out
    <3>. QED BY <2>1, <2>2, <3>1, <3>2
  <2>4. UNCHANGED <<table, num, agains, refused, fincs, fined>>
    BY <1>3 DEF Insert
  <2>5. /\ pc' \in [Workers -> {"idle", "insert", "recv", "close0", "close1", "finc"}]
        /\ acked' \in [Workers -> Clients \cup {NULL}]
        /\ psock' \in [Workers -> Keys \X Keys] /\ pipe_fd' \in [Workers -> Keys \X Keys]
        /\ made' \in [Workers -> BOOLEAN]
    BY <1>3 DEF Insert, Return, Goto
  <2>. QED BY <2>3, <2>4, <2>5
<1>4. ASSUME NEW w \in Workers, NEW s \in Socks, Pipe(w, s) PROVE TypeOK'
  <2>1. PICK a, b \in Free : /\ table' = [table EXCEPT ![a] = PIPE, ![b] = PIPE]
                            /\ pipe_fd' = [pipe_fd EXCEPT ![w] = <<a, b>>]
    BY <1>4, PipeSteps
  <2>2. table' \in [Numbers -> Socks \cup {PIPE, NULL}]
    BY <1>0, <2>1
  <2>3. pipe_fd' \in [Workers -> Keys \X Keys]
    BY <1>0, <2>1
  <2>4. psock' \in [Workers -> Keys \X Keys]
    BY <1>4 DEF Pipe, Splice, Live
  <2>. QED BY <1>4, <2>2, <2>3, <2>4 DEF Pipe, Splice, Goto
<1>5. ASSUME NEW w \in Workers, NEW s \in Socks, PipeRefused(w, s) PROVE TypeOK'
    BY <1>5 DEF PipeRefused, Splice, Live, Goto
<1>6. ASSUME NEW w \in Workers, RecvNothing(w) PROVE TypeOK'
    BY <1>6 DEF RecvNothing, Return, Goto
<1>7. ASSUME NEW w \in Workers, Relay(w) PROVE TypeOK'
    BY <1>7 DEF Relay, Goto
<1>8. ASSUME NEW w \in Workers, CloseFirst(w) PROVE TypeOK'
    BY <1>8 DEF CloseFirst, CloseNumber, Goto
<1>9. ASSUME NEW w \in Workers, CloseSecond(w) PROVE TypeOK'
    BY <1>9 DEF CloseSecond, CloseNumber, Return, Goto
<1>10. ASSUME NEW k \in Keys, Fin(k) PROVE TypeOK'
    BY <1>10 DEF Fin
<1>11. ASSUME NEW w \in Workers, NEW s \in Socks, FincTake(w, s) PROVE TypeOK'
    BY <1>11 DEF FincTake, Live, Goto
<1>12. ASSUME NEW w \in Workers, FincClose(w) PROVE TypeOK'
  <2>1. psock[w][1] \in Numbers
    BY <1>12 DEF FincClose, FincInv
  <2>2. fined' \subseteq Numbers
    BY <1>12, <2>1 DEF FincClose
  <2>. QED BY <1>12, <2>2 DEF FincClose, CloseNumber, Return, Goto
<1>13. CASE UNCHANGED vars
    BY <1>13 DEF vars
<1>. QED BY <1>1, <1>2, <1>3, <1>4, <1>5, <1>6, <1>7, <1>8, <1>9, <1>10, <1>11, <1>12, <1>13
         DEF Next, Worker

LEMMA AckStep == TypeOK /\ AckInv /\ [Next]_vars => AckInv'
<1>. SUFFICES ASSUME TypeOK, AckInv, [Next]_vars PROVE AckInv'
    OBVIOUS
<1>. USE DEF TypeOK, AckInv
<1>0. Free \subseteq Numbers /\ Numbers \subseteq Int /\ NULL \notin Int /\ -1 \in Int
    BY DEF Free, Numbers
<1>1. ASSUME NEW c \in Clients, Accept(c) PROVE AckInv'
  <2>1. num[<<c, "in">>] = NULL
    BY <1>1 DEF Accept
  <2>2. \A s \in Socks : s # <<c, "in">> => num'[s] = num[s]
    BY <1>1, OpenSteps DEF Accept, Socks
  <2>3. UNCHANGED <<pc, acked>>
    BY <1>1 DEF Accept
  <2>4. ASSUME NEW v \in Workers, pc'[v] = "insert"
        PROVE  /\ acked'[v] \in Clients /\ num'[<<acked'[v], "in">>] \in Numbers
               /\ num'[<<acked'[v], "out">>] # NULL
    <3>. DEFINE k == acked[v]
    <3>1. k \in Clients /\ num[<<k, "in">>] \in Numbers /\ num[<<k, "out">>] # NULL
      BY <2>3, <2>4
    <3>2. <<k, "in">> # <<c, "in">>
      BY <1>0, <2>1, <3>1
    <3>3. <<k, "in">> \in Socks /\ <<k, "out">> \in Socks /\ <<k, "out">> # <<c, "in">>
      BY <3>1 DEF Socks
    <3>. QED BY <2>2, <2>3, <3>1, <3>2, <3>3
  <2>. QED BY <2>4
<1>2. ASSUME NEW w \in Workers, NEW c \in Clients, CreateSock(w, c) PROVE AckInv'
  <2>1. num[<<c, "in">>] \in Numbers
    BY <1>2 DEF CreateSock, Live
  <2>2. \A s \in Socks : s # <<c, "out">> => num'[s] = num[s]
    BY <1>2, OpenSteps DEF CreateSock, Socks
  <2>3. num'[<<c, "out">>] # NULL
    <3>1. <<c, "out">> \in Socks /\ Open(<<c, "out">>)
      BY <1>2 DEF CreateSock, Socks
    <3>2. \E n \in Int : num' = [num EXCEPT ![<<c, "out">>] = n]
      BY <1>0, <3>1, OpenSteps DEF Free
    <3>. QED BY <1>0, <3>1, <3>2
  <2>4. /\ acked' = [acked EXCEPT ![w] = c] /\ pc' = [pc EXCEPT ![w] = "insert"]
    BY <1>2 DEF CreateSock, Goto
  <2>5. \A k \in Clients : /\ <<k, "in">> \in Socks /\ <<k, "in">> # <<c, "out">>
                          /\ <<k, "out">> \in Socks
    BY DEF Socks
  <2>6. acked'[w] = c /\ num'[<<c, "in">>] \in Numbers /\ num'[<<c, "out">>] # NULL
    BY <2>1, <2>2, <2>3, <2>4, <2>5
  <2>7. ASSUME NEW v \in Workers, v # w, pc'[v] = "insert"
        PROVE  /\ acked'[v] \in Clients /\ num'[<<acked'[v], "in">>] \in Numbers
               /\ num'[<<acked'[v], "out">>] # NULL
    <3>. DEFINE k == acked[v]
    <3>1. /\ k = acked'[v] /\ k \in Clients /\ num[<<k, "in">>] \in Numbers
          /\ num[<<k, "out">>] # NULL
      BY <2>4, <2>7
    <3>. HIDE DEF k
    <3>2. num'[<<k, "in">>] \in Numbers
      BY <2>2, <2>5, <3>1
    <3>3. num'[<<k, "out">>] # NULL
      <4>1. CASE <<k, "out">> = <<c, "out">>
        BY <2>3, <4>1
      <4>2. CASE <<k, "out">> # <<c, "out">>
        BY <2>2, <2>5, <3>1, <4>2
      <4>. QED BY <4>1, <4>2
    <3>. QED BY <3>1, <3>2, <3>3
  <2>. QED BY <2>6, <2>7
<1>3. ASSUME NEW w \in Workers, Insert(w) PROVE AckInv'
    BY <1>3 DEF Insert, Return, Goto
<1>4. ASSUME NEW w \in Workers, NEW s \in Socks, Pipe(w, s) PROVE AckInv'
    BY <1>4 DEF Pipe, Splice, Goto
<1>5. ASSUME NEW w \in Workers, NEW s \in Socks, PipeRefused(w, s) PROVE AckInv'
    BY <1>5 DEF PipeRefused, Splice, Goto
<1>6. ASSUME NEW w \in Workers, RecvNothing(w) PROVE AckInv'
    BY <1>6 DEF RecvNothing, Return, Goto
<1>7. ASSUME NEW w \in Workers, Relay(w) PROVE AckInv'
    BY <1>7 DEF Relay, Goto
<1>8. ASSUME NEW w \in Workers, CloseFirst(w) PROVE AckInv'
    BY <1>8 DEF CloseFirst, Goto
<1>9. ASSUME NEW w \in Workers, CloseSecond(w) PROVE AckInv'
    BY <1>9 DEF CloseSecond, Return, Goto
<1>10. ASSUME NEW k \in Keys, Fin(k) PROVE AckInv'
    BY <1>10 DEF Fin
<1>11. ASSUME NEW w \in Workers, NEW s \in Socks, FincTake(w, s) PROVE AckInv'
    BY <1>11 DEF FincTake, Goto
<1>12. ASSUME NEW w \in Workers, FincClose(w) PROVE AckInv'
    BY <1>12 DEF FincClose, Return, Goto
<1>13. CASE UNCHANGED vars
    BY <1>13 DEF vars
<1>. QED BY <1>1, <1>2, <1>3, <1>4, <1>5, <1>6, <1>7, <1>8, <1>9, <1>10, <1>11, <1>12, <1>13
         DEF Next, Worker
LEMMA FincInvStep == TypeOK /\ FincInv /\ [Next]_vars => FincInv'
<1>. SUFFICES ASSUME TypeOK, FincInv, [Next]_vars,
                     NEW v \in Workers, pc'[v] = "finc"
              PROVE  psock'[v][1] \in Numbers
    BY DEF FincInv
<1>. USE DEF TypeOK, FincInv
<1>1. ASSUME NEW w \in Workers, NEW s \in Socks, FincTake(w, s) PROVE psock'[v][1] \in Numbers
    BY <1>1 DEF FincTake, Live, Goto
<1>2. CASE pc'[v] = pc[v] /\ psock'[v] = psock[v]
    BY <1>2
<1>3. ASSUME NEW w \in Workers,
             pc' = [pc EXCEPT ![w] = pc'[w]], psock' = [psock EXCEPT ![w] = psock'[w]],
             pc'[w] # "finc"
      PROVE  psock'[v][1] \in Numbers
    BY <1>3
<1>4. ASSUME NEW w \in Workers, NEW s \in Socks, Pipe(w, s) \/ PipeRefused(w, s)
      PROVE  psock'[v][1] \in Numbers
    BY <1>3, <1>4 DEF Pipe, PipeRefused, Splice, Goto
<1>5. ASSUME NEW w \in Workers, NEW c \in Clients, CreateSock(w, c) PROVE psock'[v][1] \in Numbers
    BY <1>3, <1>5 DEF CreateSock, Goto
<1>6. ASSUME NEW w \in Workers,
             \/ Insert(w) \/ RecvNothing(w) \/ Relay(w)
             \/ CloseFirst(w) \/ CloseSecond(w) \/ FincClose(w)
      PROVE  psock'[v][1] \in Numbers
    BY <1>3, <1>6 DEF Insert, RecvNothing, Relay, CloseFirst, CloseSecond, FincClose, Return, Goto
<1>. QED BY <1>1, <1>2, <1>4, <1>5, <1>6 DEF Next, Worker, Accept, Fin, vars
-------------------------------------------------------------------------------
\* Open gives s its number and disturbs no other.
LEMMA OpenKeeps ==
    ASSUME TypeOK, NEW s \in Socks, num[s] = NULL, Open(s)
    PROVE  /\ \A n \in Numbers : table[n] # NULL => table'[n] = table[n]
           /\ \A t \in Socks : t # s => num'[t] = num[t]
           /\ num'[s] # NULL
           /\ num'[s] \in Numbers => table'[num'[s]] = s
<1>1. Numbers \subseteq Int /\ -1 \in Int /\ -1 \notin Numbers /\ NULL \notin Int
    BY DEF Numbers
<1>2. CASE num' = [num EXCEPT ![s] = -1] /\ table' = table
    BY <1>1, <1>2 DEF TypeOK
<1>3. ASSUME NEW n \in Free,
             num' = [num EXCEPT ![s] = n], table' = [table EXCEPT ![n] = s]
      PROVE  /\ \A m \in Numbers : table[m] # NULL => table'[m] = table[m]
             /\ \A t \in Socks : t # s => num'[t] = num[t]
             /\ num'[s] # NULL
             /\ num'[s] \in Numbers => table'[num'[s]] = s
    BY <1>1, <1>3 DEF TypeOK, Free
<1>. QED BY <1>2, <1>3, OpenSteps

\* MapInv survives what takes entries away and leaves the sockets where they are.
LEMMA MapKept ==
    ASSUME MapInv, num' = num, fined \subseteq fined',
           \A n \in Numbers \ fined' : table[n] \in Socks => table'[n] = table[n],
           \A n \in Numbers : g_sock_map'[n] # NULL => g_sock_map'[n] = g_sock_map[n]
    PROVE  MapInv'
<1>. SUFFICES ASSUME NEW n \in Numbers \ fined', g_sock_map'[n] # NULL
              PROVE  \E c \in Clients :
                        /\ {n, g_sock_map'[n]} = {num'[<<c, "in">>], num'[<<c, "out">>]}
                        /\ table'[n] \in {<<c, "in">>, <<c, "out">>}
    BY DEF MapInv
<1>1. g_sock_map'[n] = g_sock_map[n]
    OBVIOUS
<1>2. PICK c \in Clients : /\ {n, g_sock_map[n]} = {num[<<c, "in">>], num[<<c, "out">>]}
                          /\ table[n] \in {<<c, "in">>, <<c, "out">>}
    BY <1>1 DEF MapInv
<1>3. table[n] \in Socks
    BY <1>2 DEF Socks
<1>. QED BY <1>1, <1>2, <1>3

\* As long as no pipe was refused, each step keeps the three facts.
LEMMA SocketStep ==
    ASSUME TypeOK, PipeInv, SockInv, MapInv,
           NEW s \in Socks, num[s] = NULL, Open(s),
           UNCHANGED <<g_sock_map, pipe_fd, fined>>,
           \A w \in Workers : pc'[w] = pc[w] \/ (pc[w] = "idle" /\ pc'[w] = "insert")
    PROVE  PipeInv' /\ SockInv' /\ MapInv'
<1>0. /\ Numbers \subseteq Int /\ NULL \notin Int /\ NULL \notin Socks /\ PIPE # NULL
      /\ -1 \in Int
    BY DEF Numbers
<1>1. PipeInv'
  <2>1. \A w \in Workers : Ends(w)' = Ends(w)
    BY DEF Ends
  <2>2. \A w \in Workers : pc'[w] \in {"recv", "close0"} <=> pc[w] \in {"recv", "close0"}
    OBVIOUS
  <2>3. \A n \in Numbers : table[n] = PIPE => table'[n] = PIPE
    BY <1>0, OpenKeeps
  <2>4. \A w \in Workers : \A n \in Ends(w)' : n \in Numbers /\ (n \in fined' \/ table'[n] = PIPE)
    BY <2>1, <2>3 DEF PipeInv
  <2>5. \A w \in Workers : pc'[w] \in {"recv", "close0"} => pipe_fd'[w][1] # pipe_fd'[w][2]
    BY <2>2 DEF PipeInv
  <2>6. \A v, w \in Workers : v # w => Ends(v)' \cap Ends(w)' \subseteq fined'
    BY <2>1 DEF PipeInv
  <2>. QED BY <2>4, <2>5, <2>6 DEF PipeInv
<1>2. SockInv'
  <2>1. ASSUME NEW t \in Socks, num'[t] \in Numbers \ fined, t # s PROVE table'[num'[t]] = t
    <3>1. num'[t] = num[t]
      BY <2>1, OpenKeeps
    <3>2. table[num[t]] = t /\ t # NULL
      BY <1>0, <2>1, <3>1 DEF SockInv
    <3>. QED BY <2>1, <3>1, <3>2, OpenKeeps
  <2>2. num'[s] \in Numbers => table'[num'[s]] = s
    BY OpenKeeps
  <2>. QED BY <2>1, <2>2 DEF SockInv
<1>3. MapInv'
  <2>. SUFFICES ASSUME NEW n \in Numbers \ fined, g_sock_map[n] # NULL
                PROVE  \E c \in Clients :
                          /\ {n, g_sock_map[n]} = {num'[<<c, "in">>], num'[<<c, "out">>]}
                          /\ table'[n] \in {<<c, "in">>, <<c, "out">>}
    BY DEF MapInv
  <2>1. PICK c \in Clients : /\ {n, g_sock_map[n]} = {num[<<c, "in">>], num[<<c, "out">>]}
                            /\ table[n] \in {<<c, "in">>, <<c, "out">>}
    BY DEF MapInv
  <2>2. <<c, "in">> \in Socks /\ <<c, "out">> \in Socks
    BY DEF Socks
  <2>3. num[<<c, "in">>] # NULL /\ num[<<c, "out">>] # NULL
    BY <1>0, <2>1
  <2>4. num'[<<c, "in">>] = num[<<c, "in">>] /\ num'[<<c, "out">>] = num[<<c, "out">>]
    BY <2>2, <2>3, OpenKeeps
  <2>5. table'[n] = table[n]
    BY <1>0, <2>1, <2>2, OpenKeeps
  <2>. QED BY <2>1, <2>4, <2>5
<1>. QED BY <1>1, <1>2, <1>3

LEMMA PipeStep ==
    ASSUME TypeOK, PipeInv, SockInv, MapInv,
           NEW w \in Workers, NEW s \in Socks, Pipe(w, s)
    PROVE  PipeInv' /\ SockInv' /\ MapInv'
<1>0. NULL \notin Socks /\ PIPE # NULL
    OBVIOUS
<1>1. PICK a, b \in Free : /\ a # b
                          /\ table' = [table EXCEPT ![a] = PIPE, ![b] = PIPE]
                          /\ pipe_fd' = [pipe_fd EXCEPT ![w] = <<a, b>>]
    BY PipeSteps
<1>2. a \in Numbers /\ b \in Numbers /\ table[a] = NULL /\ table[b] = NULL
    BY DEF Free
<1>3. \A n \in Numbers : table[n] # NULL => table'[n] = table[n]
    BY <1>1, <1>2 DEF TypeOK
<1>4. table'[a] = PIPE /\ table'[b] = PIPE
    BY <1>1, <1>2 DEF TypeOK
<1>5. UNCHANGED <<num, g_sock_map, fined>>
    BY DEF Pipe, history, closed
<1>6. PipeInv'
  <2>1. pc'[w] = "recv" /\ pipe_fd'[w] = <<a, b>>
    BY <1>1 DEF Pipe, Splice, Goto, TypeOK
  <2>2. Ends(w)' = {a, b}
    BY <2>1 DEF Ends
  <2>3. \A v \in Workers : v # w => /\ pc'[v] = pc[v] /\ pipe_fd'[v] = pipe_fd[v]
                                    /\ Ends(v)' = Ends(v)
    BY <1>1 DEF Pipe, Splice, Goto, TypeOK, Ends
  <2>4. \A v \in Workers : \A n \in Ends(v) : n \in Numbers /\ (n \in fined \/ table[n] = PIPE)
    BY DEF PipeInv
  <2>5. \A v \in Workers : v # w => Ends(v) \cap {a, b} \subseteq fined
    BY <1>0, <1>2, <2>4
  <2>6. \A v \in Workers : \A n \in Ends(v)' : n \in Numbers /\ (n \in fined' \/ table'[n] = PIPE)
    BY <1>0, <1>2, <1>3, <1>4, <1>5, <2>2, <2>3, <2>4
  <2>7. \A v \in Workers : pc'[v] \in {"recv", "close0"} => pipe_fd'[v][1] # pipe_fd'[v][2]
    BY <1>1, <2>1, <2>3 DEF PipeInv
  <2>8. \A u, v \in Workers : u # v => Ends(u)' \cap Ends(v)' \subseteq fined'
    BY <1>5, <2>2, <2>3, <2>5 DEF PipeInv
  <2>. QED BY <2>6, <2>7, <2>8 DEF PipeInv
<1>7. SockInv'
    BY <1>0, <1>3, <1>5 DEF SockInv
<1>8. MapInv'
    BY <1>0, <1>3, <1>5, MapKept
<1>. QED BY <1>6, <1>7, <1>8

LEMMA CloseStep ==
    ASSUME TypeOK, PipeInv, SockInv, MapInv,
           NEW w \in Workers, NEW n \in Ends(w), CloseNumber(n),
           Ends(w)' \subseteq Ends(w) \ {n}, pc'[w] \notin {"recv", "close0"},
           \A v \in Workers : v # w => /\ Ends(v)' = Ends(v) /\ pc'[v] = pc[v]
                                      /\ pipe_fd'[v] = pipe_fd[v],
           UNCHANGED <<num, g_sock_map, fined>>
    PROVE  PipeInv' /\ SockInv' /\ MapInv'
<1>0. PIPE \notin Socks
    OBVIOUS
<1>1. n \in Numbers /\ (n \in fined \/ table[n] = PIPE)
    BY DEF PipeInv
<1>2. \A m \in Numbers : m # n => table'[m] = table[m]
    BY DEF CloseNumber
<1>3. PipeInv'
  <2>1. \A v \in Workers : v # w => (n \in Ends(v) => n \in fined)
    BY DEF PipeInv
  <2>2. \A v \in Workers : \A m \in Ends(v)' : m \in Ends(v) /\ (m # n \/ m \in fined)
    BY <2>1
  <2>3. \A v \in Workers : \A m \in Ends(v)' : m \in Numbers /\ (m \in fined' \/ table'[m] = PIPE)
    BY <1>2, <2>2 DEF PipeInv
  <2>4. \A v \in Workers : pc'[v] \in {"recv", "close0"} => pipe_fd'[v][1] # pipe_fd'[v][2]
    BY DEF PipeInv
  <2>5. \A u, v \in Workers : u # v => Ends(u)' \cap Ends(v)' \subseteq fined'
    BY <2>2 DEF PipeInv
  <2>. QED BY <2>3, <2>4, <2>5 DEF PipeInv
<1>4. SockInv'
    BY <1>0, <1>1, <1>2 DEF SockInv
<1>5. MapInv'
    BY <1>0, <1>1, <1>2, MapKept
<1>. QED BY <1>3, <1>4, <1>5

LEMMA InsertStep ==
    ASSUME TypeOK, AckInv, PipeInv, SockInv, MapInv, NEW w \in Workers, Insert(w)
    PROVE  PipeInv' /\ SockInv' /\ MapInv'
<1>. DEFINE c == acked[w]
           in == num[<<c, "in">>]
           out == num[<<c, "out">>]
           Add(map, n, m) == [map EXCEPT ![n] = IF @ = NULL THEN m ELSE @]
<1>1. /\ c \in Clients /\ in \in Numbers /\ out # NULL
      /\ <<c, "in">> \in Socks /\ <<c, "out">> \in Socks
    BY DEF Insert, AckInv, Socks
<1>2. in \in Keys /\ out \in Keys
    BY <1>1 DEF TypeOK, Keys
<1>3. UNCHANGED <<table, num, fined>>
    BY DEF Insert, history, closed
<1>4. PipeInv'
  <2>1. \A v \in Workers : /\ Ends(v)' = Ends(v)
                           /\ pc'[v] \in {"recv", "close0"} => v # w /\ pc'[v] = pc[v]
                           /\ v # w => pipe_fd'[v] = pipe_fd[v]
    BY DEF Insert, Return, Goto, TypeOK, Ends
  <2>2. \A v \in Workers : \A n \in Ends(v)' : n \in Numbers /\ (n \in fined' \/ table'[n] = PIPE)
    BY <1>3, <2>1 DEF PipeInv
  <2>3. \A v \in Workers : pc'[v] \in {"recv", "close0"} => pipe_fd'[v][1] # pipe_fd'[v][2]
    BY <2>1 DEF PipeInv
  <2>4. \A u, v \in Workers : u # v => Ends(u)' \cap Ends(v)' \subseteq fined'
    BY <1>3, <2>1 DEF PipeInv
  <2>. QED BY <2>2, <2>3, <2>4 DEF PipeInv
<1>5. SockInv'
    BY <1>3 DEF SockInv
<1>6. MapInv'
  <2>1. g_sock_map' = Add(Add(g_sock_map, in, out), out, in)
    BY DEF Insert
  <2>. SUFFICES ASSUME NEW n \in Numbers \ fined, g_sock_map'[n] # NULL
                PROVE  \E k \in Clients :
                          /\ {n, g_sock_map'[n]} = {num[<<k, "in">>], num[<<k, "out">>]}
                          /\ table[n] \in {<<k, "in">>, <<k, "out">>}
    BY <1>3 DEF MapInv
  <2>2. \/ g_sock_map'[n] = g_sock_map[n]
        \/ n = in /\ g_sock_map'[n] = out
        \/ n = out /\ g_sock_map'[n] = in
    BY <1>1, <1>2, <2>1 DEF TypeOK, Keys
  <2>3. CASE g_sock_map'[n] = g_sock_map[n]
    BY <2>3 DEF MapInv
  <2>4. CASE n = in /\ g_sock_map'[n] = out
    <3>1. table[n] = <<c, "in">>
      BY <1>1, <2>4 DEF SockInv
    <3>. QED BY <1>1, <2>4, <3>1
  <2>5. CASE n = out /\ g_sock_map'[n] = in
    <3>1. table[n] = <<c, "out">>
      BY <1>1, <2>5 DEF SockInv
    <3>. QED BY <1>1, <2>5, <3>1
  <2>. QED BY <2>2, <2>3, <2>4, <2>5
<1>. QED BY <1>4, <1>5, <1>6

\* Steps that open and close nothing, and at most take entries away.
LEMMA QuietStep ==
    ASSUME TypeOK, PipeInv, SockInv, MapInv, UNCHANGED <<table, num, fined>>,
           \A n \in Numbers : g_sock_map'[n] # NULL => g_sock_map'[n] = g_sock_map[n],
           \A w \in Workers :
              \/ pc'[w] = "idle"
              \/ Ends(w)' = Ends(w) /\ pipe_fd'[w] = pipe_fd[w]
                    /\ (pc'[w] \in {"recv", "close0"} <=> pc[w] \in {"recv", "close0"})
    PROVE  PipeInv' /\ SockInv' /\ MapInv'
<1>1. PipeInv'
  <2>1. \A w \in Workers : Ends(w)' \subseteq Ends(w)
    BY DEF Ends
  <2>2. \A v \in Workers : \A n \in Ends(v)' : n \in Numbers /\ (n \in fined' \/ table'[n] = PIPE)
    BY <2>1 DEF PipeInv
  <2>3. \A v \in Workers : pc'[v] \in {"recv", "close0"} => pipe_fd'[v][1] # pipe_fd'[v][2]
    BY DEF PipeInv
  <2>4. \A u, v \in Workers : u # v => Ends(u)' \cap Ends(v)' \subseteq fined'
    BY <2>1 DEF PipeInv
  <2>. QED BY <2>2, <2>3, <2>4 DEF PipeInv
<1>2. SockInv'
    BY DEF SockInv
<1>3. MapInv'
    BY MapKept
<1>. QED BY <1>1, <1>2, <1>3

\* CFinEventClient: what the number stood for is lost, and nothing else.
LEMMA FincStep ==
    ASSUME TypeOK, PipeInv, SockInv, MapInv, NEW w \in Workers, FincClose(w)
    PROVE  PipeInv' /\ SockInv' /\ MapInv'
<1>1. /\ fined' = fined \cup {psock[w][1]} /\ UNCHANGED <<num, g_sock_map>>
      /\ \A m \in Numbers \ fined' : table'[m] = table[m]
    BY DEF FincClose, CloseNumber
<1>2. PipeInv'
  <2>1. \A v \in Workers : /\ Ends(v)' = Ends(v)
                           /\ pc'[v] \in {"recv", "close0"} => v # w /\ pc'[v] = pc[v]
                           /\ v # w => pipe_fd'[v] = pipe_fd[v]
    BY DEF FincClose, Return, Goto, TypeOK, Ends
  <2>2. \A v \in Workers : \A n \in Ends(v)' : n \in Numbers /\ (n \in fined' \/ table'[n] = PIPE)
    BY <1>1, <2>1 DEF PipeInv
  <2>3. \A v \in Workers : pc'[v] \in {"recv", "close0"} => pipe_fd'[v][1] # pipe_fd'[v][2]
    BY <2>1 DEF PipeInv
  <2>4. \A u, v \in Workers : u # v => Ends(u)' \cap Ends(v)' \subseteq fined'
    BY <1>1, <2>1 DEF PipeInv
  <2>. QED BY <2>2, <2>3, <2>4 DEF PipeInv
<1>3. SockInv'
    BY <1>1 DEF SockInv
<1>4. MapInv'
    BY <1>1, MapKept
<1>. QED BY <1>2, <1>3, <1>4

LEMMA NamesStep ==
    ASSUME TypeOK, AckInv, PipeInv, SockInv, MapInv, [Next]_vars, refused' = refused
    PROVE  PipeInv' /\ SockInv' /\ MapInv'
<1>. DEFINE Kept == PipeInv' /\ SockInv' /\ MapInv'
<1>. USE DEF TypeOK, history, closed
<1>. HIDE DEF Kept
<1>1. ASSUME NEW c \in Clients, Accept(c) PROVE Kept
  <2>1. <<c, "in">> \in Socks
    BY DEF Socks
  <2>. QED BY <1>1, <2>1, SocketStep DEF Accept, Kept
<1>2. ASSUME NEW w \in Workers, NEW c \in Clients, CreateSock(w, c) PROVE Kept
  <2>1. <<c, "out">> \in Socks
    BY DEF Socks
  <2>2. \A v \in Workers : pc'[v] = pc[v] \/ (pc[v] = "idle" /\ pc'[v] = "insert")
    BY <1>2 DEF CreateSock, Goto
  <2>. QED BY <1>2, <2>1, <2>2, SocketStep DEF CreateSock, Kept
<1>3. ASSUME NEW w \in Workers, Insert(w) PROVE Kept
    BY <1>3, InsertStep DEF Kept
<1>4. ASSUME NEW w \in Workers, NEW s \in Socks, Pipe(w, s) PROVE Kept
    BY <1>4, PipeStep DEF Kept
<1>5. ASSUME NEW w \in Workers, NEW s \in Socks, PipeRefused(w, s) PROVE FALSE
    BY <1>5 DEF PipeRefused
<1>6. ASSUME NEW w \in Workers, RecvNothing(w) PROVE Kept
  <2>1. \A v \in Workers : \/ pc'[v] = "idle"
                          \/ /\ Ends(v)' = Ends(v) /\ pipe_fd'[v] = pipe_fd[v]
                             /\ pc'[v] \in {"recv", "close0"} <=> pc[v] \in {"recv", "close0"}
    BY <1>6 DEF RecvNothing, Return, Goto, Ends
  <2>. QED BY <1>6, <2>1, QuietStep DEF RecvNothing, Kept
<1>7. ASSUME NEW w \in Workers, Relay(w) PROVE Kept
  <2>1. \A v \in Workers :
           \/ pc'[v] = "idle"
           \/ Ends(v)' = Ends(v) /\ pipe_fd'[v] = pipe_fd[v]
                 /\ (pc'[v] \in {"recv", "close0"} <=> pc[v] \in {"recv", "close0"})
    BY <1>7 DEF Relay, Goto, Ends
  <2>2. UNCHANGED <<table, num, fined>> /\ g_sock_map' = g_sock_map
    BY <1>7 DEF Relay
  <2>. QED BY <2>1, <2>2, QuietStep DEF Kept
<1>8. ASSUME NEW w \in Workers, CloseFirst(w) PROVE Kept
  <2>1. /\ Ends(w) = {pipe_fd[w][1], pipe_fd[w][2]} /\ Ends(w)' = {pipe_fd[w][2]}
        /\ pc'[w] = "close1" /\ pipe_fd[w][1] # pipe_fd[w][2]
    BY <1>8 DEF CloseFirst, Goto, Ends, PipeInv
  <2>2. \A v \in Workers : v # w => /\ Ends(v)' = Ends(v) /\ pc'[v] = pc[v]
                                   /\ pipe_fd'[v] = pipe_fd[v]
    BY <1>8 DEF CloseFirst, Goto, Ends
  <2>. QED BY <1>8, <2>1, <2>2, CloseStep DEF CloseFirst, Kept
<1>9. ASSUME NEW w \in Workers, CloseSecond(w) PROVE Kept
  <2>1. Ends(w) = {pipe_fd[w][2]} /\ Ends(w)' = {} /\ pc'[w] = "idle"
    BY <1>9 DEF CloseSecond, Return, Goto, Ends
  <2>2. \A v \in Workers : v # w => /\ Ends(v)' = Ends(v) /\ pc'[v] = pc[v]
                                   /\ pipe_fd'[v] = pipe_fd[v]
    BY <1>9 DEF CloseSecond, Return, Goto, Ends
  <2>. QED BY <1>9, <2>1, <2>2, CloseStep DEF CloseSecond, Kept
<1>10. ASSUME NEW k \in Keys, Fin(k) PROVE Kept
  <2>1. \A v \in Workers : /\ Ends(v)' = Ends(v) /\ pipe_fd'[v] = pipe_fd[v]
                          /\ pc'[v] = pc[v]
    BY <1>10 DEF Fin, Ends
  <2>2. \A n \in Numbers : g_sock_map'[n] # NULL => g_sock_map'[n] = g_sock_map[n]
    BY <1>10 DEF Fin, Keys
  <2>. QED BY <1>10, <2>1, <2>2, QuietStep DEF Fin, Kept
<1>11. ASSUME NEW w \in Workers, NEW s \in Socks, FincTake(w, s) PROVE Kept
  <2>1. \A v \in Workers :
           \/ pc'[v] = "idle"
           \/ Ends(v)' = Ends(v) /\ pipe_fd'[v] = pipe_fd[v]
                 /\ (pc'[v] \in {"recv", "close0"} <=> pc[v] \in {"recv", "close0"})
    BY <1>11 DEF FincTake, Goto, Ends
  <2>. QED BY <1>11, <2>1, QuietStep DEF FincTake, Kept
<1>12. ASSUME NEW w \in Workers, FincClose(w) PROVE Kept
    BY <1>12, FincStep DEF Kept
<1>13. CASE UNCHANGED vars
  <2>1. \A v \in Workers : Ends(v)' = Ends(v)
    BY <1>13 DEF vars, Ends
  <2>. QED BY <1>13, <2>1, QuietStep DEF vars, Kept
<1>. QED BY <1>1, <1>2, <1>3, <1>4, <1>5, <1>6, <1>7, <1>8, <1>9, <1>10, <1>11, <1>12, <1>13
         DEF Next, Worker, Kept
-------------------------------------------------------------------------------
(* How many: what a refused pipe costs.  A close that is yet to come is owed to the   *)
(* number it is for, if that still stands for a pipe.  Each refused pipe adds two     *)
(* closes that are owed to nothing, and what they free takes the debt over: a socket, *)
(* which is lost, or the pipe of another worker, whose own close has no number then.  *)
(* A run of CFinEventClient is one such close.                                        *)

First == {w \in Workers : pc[w] \in {"recv", "close0"}}             \* will close two
Second == {w \in Workers : pc[w] \in {"recv", "close0", "close1"}}  \* or one more
Closing == {w \in Workers : pc[w] = "finc"}
Covered == {n \in Numbers : table[n] = PIPE /\ \E w \in Workers : n \in Ends(w)}
Owned == {n \in Numbers : table[n] = PIPE /\ \E w \in Workers : made[w] /\ n \in Ends(w)}
Numbered == {s \in Socks : num[s] \in Numbers}
Used == Numbers \ Free

LostInv == Cardinality(Lost) + Cardinality(First) + Cardinality(Second) + Cardinality(Closing)
             <= 2 * refused + fincs + Cardinality(Covered)
UpperInv == Cardinality(Used) <= Cardinality(Numbered) + 2 * agains + Cardinality(Owned)
LowerInv == Cardinality(Numbered) + 2 * agains + Cardinality(First) + Cardinality(Second)
                + Cardinality(Closing)
              <= Cardinality(Used) + 2 * refused + fincs
CountInv == LostInv /\ UpperInv /\ LowerInv

\* A set that is larger than a finite one by an element at most.
LEMMA OneMore ==
    ASSUME NEW T, IsFiniteSet(T), NEW x, NEW S, S \subseteq T \cup {x}
    PROVE  /\ IsFiniteSet(S) /\ Cardinality(S) \in Nat /\ Cardinality(T) \in Nat
           /\ Cardinality(S) <= Cardinality(T) + 1
<1>1. IsFiniteSet(T \cup {x}) /\ Cardinality(T \cup {x}) <= Cardinality(T) + 1
  <2>1. /\ IsFiniteSet(T \cup {x})
        /\ Cardinality(T \cup {x}) = IF x \in T THEN Cardinality(T) ELSE Cardinality(T) + 1
    BY FS_AddElement
  <2>2. Cardinality(T) \in Nat
    BY FS_CardinalityType
  <2>. QED BY <2>1, <2>2
<1>2. /\ IsFiniteSet(S) /\ Cardinality(S) <= Cardinality(T \cup {x}) /\ Cardinality(S) \in Nat
    BY <1>1, FS_Subset, FS_CardinalityType
<1>3. Cardinality(T) \in Nat /\ Cardinality(T \cup {x}) \in Nat
    BY <1>1, FS_CardinalityType
<1>. QED BY <1>1, <1>2, <1>3

LEMMA TwoMore ==
    ASSUME NEW T, IsFiniteSet(T), NEW x, NEW y, NEW S, S \subseteq T \cup {x, y}
    PROVE  Cardinality(S) <= Cardinality(T) + 2
<1>1. /\ IsFiniteSet(T \cup {x}) /\ Cardinality(T \cup {x}) \in Nat /\ Cardinality(T) \in Nat
      /\ Cardinality(T \cup {x}) <= Cardinality(T) + 1
    BY OneMore
<1>2. S \subseteq (T \cup {x}) \cup {y}
    OBVIOUS
<1>3. Cardinality(S) \in Nat /\ Cardinality(S) <= Cardinality(T \cup {x}) + 1
    BY <1>1, <1>2, OneMore
<1>. QED BY <1>1, <1>3

LEMMA NoMore ==
    ASSUME NEW T, IsFiniteSet(T), NEW S, S \subseteq T
    PROVE  /\ IsFiniteSet(S) /\ Cardinality(S) \in Nat /\ Cardinality(T) \in Nat
           /\ Cardinality(S) <= Cardinality(T)
    BY FS_Subset, FS_CardinalityType

LEMMA Added ==
    ASSUME NEW T, IsFiniteSet(T), NEW x, x \notin T
    PROVE  /\ IsFiniteSet(T \cup {x}) /\ Cardinality(T) \in Nat
           /\ Cardinality(T \cup {x}) = Cardinality(T) + 1
    BY FS_AddElement, FS_CardinalityType

LEMMA AddedTwo ==
    ASSUME NEW T, IsFiniteSet(T), NEW x, x \notin T, NEW y, y \notin T, x # y
    PROVE  Cardinality(T \cup {x, y}) = Cardinality(T) + 2
<1>1. /\ IsFiniteSet(T \cup {x}) /\ Cardinality(T) \in Nat
      /\ Cardinality(T \cup {x}) = Cardinality(T) + 1
    BY Added
<1>2. Cardinality((T \cup {x}) \cup {y}) = Cardinality(T \cup {x}) + 1
    BY <1>1, Added
<1>3. (T \cup {x}) \cup {y} = T \cup {x, y}
    OBVIOUS
<1>4. Cardinality((T \cup {x}) \cup {y}) = Cardinality(T \cup {x, y})
    BY <1>3
<1>. QED BY <1>1, <1>2, <1>4

LEMMA Removed ==
    ASSUME NEW T, IsFiniteSet(T), NEW x \in T
    PROVE  /\ IsFiniteSet(T \ {x}) /\ Cardinality(T) \in Nat /\ Cardinality(T \ {x}) \in Nat
           /\ Cardinality(T \ {x}) = Cardinality(T) - 1
    BY FS_RemoveElement, FS_CardinalityType

Sized(S) == IsFiniteSet(S) /\ Cardinality(S) \in Nat
AllSized ==
    /\ Sized(First) /\ Sized(Second) /\ Sized(Covered) /\ Sized(Owned)
    /\ Sized(Numbered) /\ Sized(Used) /\ Sized(Lost) /\ Sized(Closing)

LEMMA Sizes == AllSized
<1>1. IsFiniteSet(Numbers)
    BY FS_Interval DEF Numbers
<1>2. IsFiniteSet(Socks)
  <2>1. IsFiniteSet({"in", "out"})
    <3>1. {"in", "out"} = {"in"} \cup {"out"}
      OBVIOUS
    <3>2. IsFiniteSet({"in"}) /\ IsFiniteSet({"out"})
      BY FS_Singleton
    <3>3. IsFiniteSet({"in"} \cup {"out"})
      BY <3>2, FS_Union
    <3>. QED BY <3>1, <3>3
  <2>. QED BY <2>1, FS_Product DEF Socks
<1>3. /\ First \subseteq Workers /\ Second \subseteq Workers /\ Closing \subseteq Workers
      /\ Covered \subseteq Numbers /\ Owned \subseteq Numbers /\ Used \subseteq Numbers
      /\ Numbered \subseteq Socks /\ Lost \subseteq Socks
    BY DEF First, Second, Closing, Covered, Owned, Used, Numbered, Lost
<1>4. ASSUME NEW S, IsFiniteSet(S), NEW T, T \subseteq S PROVE Sized(T)
    BY <1>4, FS_Subset, FS_CardinalityType DEF Sized
<1>. QED BY <1>1, <1>2, <1>3, <1>4 DEF AllSized

LEMMA SizesNext == AllSized'
    BY Sizes, PTL

\* Nothing that is counted changes.
LEMMA SteadyCounts ==
    ASSUME CountInv, UNCHANGED <<First, Second, Closing, Covered, Owned>>,
           UNCHANGED <<Numbered, Used, Lost, history>>
    PROVE  CountInv'
BY DEF CountInv, LostInv, UpperInv, LowerInv, history, closed

\* A socket that is given a number uses it, and no other socket loses its own.
LEMMA OpenCounts ==
    ASSUME TypeOK, CountInv, NEW s \in Socks, num[s] = NULL, Open(s),
           UNCHANGED <<pipe_fd, made, history>>,
           \A w \in Workers : pc'[w] = pc[w] \/ (pc[w] = "idle" /\ pc'[w] = "insert")
    PROVE  CountInv'
<1>0. /\ NULL \notin Numbers /\ -1 \notin Numbers /\ NULL # PIPE /\ NULL \notin Socks
      /\ PIPE \notin Socks
    BY DEF Numbers
<1>1. UNCHANGED <<First, Second, Closing>> /\ \A w \in Workers : Ends(w)' = Ends(w)
    BY DEF First, Second, Closing, Ends
<1>2. CASE num' = [num EXCEPT ![s] = -1] /\ table' = table
  <2>1. \A t \in Socks : num'[t] \in Numbers <=> num[t] \in Numbers
    BY <1>0, <1>2 DEF TypeOK
  <2>2. \A t \in Socks : num'[t] \in Numbers => num'[t] = num[t]
    BY <1>0, <1>2 DEF TypeOK
  <2>3. UNCHANGED <<Covered, Owned, Used>>
    BY <1>1, <1>2 DEF Covered, Owned, Used, Free
  <2>4. UNCHANGED <<Numbered, Lost>>
    BY <1>2, <2>1, <2>2 DEF Numbered, Lost
  <2>. QED BY <1>1, <2>3, <2>4, SteadyCounts
<1>3. ASSUME NEW n \in Free,
             num' = [num EXCEPT ![s] = n], table' = [table EXCEPT ![n] = s]
      PROVE  CountInv'
  <2>1. n \in Numbers /\ table[n] = NULL /\ table'[n] = s /\ num'[s] = n
    BY <1>3 DEF TypeOK, Free
  <2>2. \A m \in Numbers : m # n => table'[m] = table[m]
    BY <1>3 DEF TypeOK
  <2>3. \A t \in Socks : t # s => num'[t] = num[t]
    BY <1>3 DEF TypeOK
  <2>4. UNCHANGED <<Covered, Owned>>
    <3>1. \A m \in Numbers : table'[m] = PIPE <=> table[m] = PIPE
      BY <1>0, <2>1, <2>2
    <3>. QED BY <1>1, <3>1 DEF Covered, Owned
  <2>5. Lost' = Lost
    <3>1. ASSUME NEW t \in Socks, t # s
          PROVE  num'[t] \in Numbers /\ table'[num'[t]] # t
                   <=> num[t] \in Numbers /\ table[num[t]] # t
      BY <1>0, <2>1, <2>2, <2>3, <3>1
    <3>2. s \notin Lost /\ s \notin Lost'
      BY <1>0, <2>1 DEF Lost
    <3>. QED BY <3>1, <3>2 DEF Lost
  <2>6. Numbered' = Numbered \cup {s} /\ s \notin Numbered
    BY <1>0, <2>1, <2>3 DEF Numbered
  <2>7. Used' = Used \cup {n} /\ n \notin Used
    BY <1>0, <2>1, <2>2 DEF Used, Free
  <2>8. /\ Cardinality(Numbered)' = Cardinality(Numbered) + 1
        /\ Cardinality(Used)' = Cardinality(Used) + 1
    BY <2>6, <2>7, Sizes, Added DEF AllSized, Sized
  <2>9. LostInv'
    BY <1>1, <2>4, <2>5 DEF CountInv, LostInv, history, closed
  <2>10. UpperInv'
    BY <1>1, <2>4, <2>8, Sizes DEF AllSized, Sized, CountInv, UpperInv, history, closed, TypeOK
  <2>11. LowerInv'
    BY <1>1, <2>8, Sizes DEF AllSized, Sized, CountInv, LowerInv, history, closed, TypeOK
  <2>. QED BY <2>9, <2>10, <2>11 DEF CountInv
<1>. QED BY <1>2, <1>3, OpenSteps

\* A splice that begins has two closes to come.
LEMMA SpliceCounts ==
    ASSUME TypeOK, NEW w \in Workers, NEW s \in Socks, Splice(w, s)
    PROVE  /\ Cardinality(First)' = Cardinality(First) + 1
           /\ Cardinality(Second)' = Cardinality(Second) + 1
           /\ Closing' = Closing
           /\ Ends(w) = {} /\ pc'[w] = "recv"
<1>1. pc[w] = "idle" /\ pc'[w] = "recv" /\ \A v \in Workers : v # w => pc'[v] = pc[v]
    BY DEF Splice, Goto, TypeOK
<1>2. First' = First \cup {w} /\ w \notin First
    BY <1>1 DEF First
<1>3. Second' = Second \cup {w} /\ w \notin Second
    BY <1>1 DEF Second
<1>4. Ends(w) = {} /\ Closing' = Closing
    BY <1>1 DEF Ends, Closing
<1>. QED BY <1>1, <1>2, <1>3, <1>4, Sizes, Added DEF AllSized, Sized

\* The pipe's two numbers are in use, and the two closes are owed to them.
LEMMA PipeCounts ==
    ASSUME TypeOK, CountInv, NEW w \in Workers, NEW s \in Socks, Pipe(w, s)
    PROVE  CountInv'
<1>0. PIPE # NULL /\ NULL \notin Socks /\ PIPE \notin Socks
    OBVIOUS
<1>1. PICK a, b \in Free : /\ a # b
                          /\ table' = [table EXCEPT ![a] = PIPE, ![b] = PIPE]
                          /\ pipe_fd' = [pipe_fd EXCEPT ![w] = <<a, b>>]
    BY PipeSteps
<1>2. /\ a \in Numbers /\ b \in Numbers /\ table[a] = NULL /\ table[b] = NULL
      /\ table'[a] = PIPE /\ table'[b] = PIPE
    BY <1>1 DEF Free, TypeOK
<1>3. \A m \in Numbers : m # a /\ m # b => table'[m] = table[m]
    BY <1>1 DEF TypeOK
<1>4. Splice(w, s) /\ UNCHANGED <<num, history>> /\ made'[w] = TRUE
    BY DEF Pipe, TypeOK, history, closed
<1>5. /\ Cardinality(First)' = Cardinality(First) + 1
      /\ Cardinality(Second)' = Cardinality(Second) + 1 /\ Closing' = Closing
      /\ Ends(w) = {} /\ Ends(w)' = {a, b}
  <2>1. pipe_fd'[w] = <<a, b>>
    BY <1>1 DEF TypeOK
  <2>2. /\ Cardinality(First)' = Cardinality(First) + 1
        /\ Cardinality(Second)' = Cardinality(Second) + 1 /\ Closing' = Closing
        /\ Ends(w) = {} /\ pc'[w] = "recv"
    BY <1>4, SpliceCounts
  <2>3. Ends(w)' = {a, b}
    BY <2>1, <2>2 DEF Ends
  <2>. QED BY <2>2, <2>3
<1>6. \A v \in Workers : v # w => Ends(v)' = Ends(v) /\ made'[v] = made[v]
    BY <1>1 DEF Pipe, Splice, Goto, Ends, TypeOK
<1>7. Covered' = Covered \cup {a, b} /\ a \notin Covered /\ b \notin Covered
    BY <1>0, <1>2, <1>3, <1>5, <1>6 DEF Covered
<1>8. Owned' = Owned \cup {a, b} /\ a \notin Owned /\ b \notin Owned
    BY <1>0, <1>2, <1>3, <1>4, <1>5, <1>6 DEF Owned
<1>9. Used' = Used \cup {a, b} /\ a \notin Used /\ b \notin Used
    BY <1>0, <1>2, <1>3 DEF Used, Free
<1>10. /\ Cardinality(Covered)' = Cardinality(Covered) + 2
       /\ Cardinality(Owned)' = Cardinality(Owned) + 2
       /\ Cardinality(Used)' = Cardinality(Used) + 2
    BY <1>1, <1>7, <1>8, <1>9, Sizes, AddedTwo DEF AllSized, Sized
<1>11. Numbered' = Numbered
    BY <1>4 DEF Numbered
<1>12. Lost' = Lost
  <2>1. ASSUME NEW t \in Socks, num[t] \in Numbers
        PROVE  table'[num[t]] # t <=> table[num[t]] # t
    BY <1>0, <1>2, <1>3, <2>1
  <2>. QED BY <1>4, <2>1 DEF Lost
<1>13. LostInv'
    BY <1>4, <1>5, <1>10, <1>12, Sizes DEF AllSized, Sized, CountInv, LostInv, history, closed, TypeOK
<1>14. UpperInv'
    BY <1>4, <1>10, <1>11, Sizes DEF AllSized, Sized, CountInv, UpperInv, history, closed, TypeOK
<1>15. LowerInv'
    BY <1>4, <1>5, <1>10, <1>11, Sizes DEF AllSized, Sized, CountInv, LowerInv, history, closed, TypeOK
<1>. QED BY <1>13, <1>14, <1>15 DEF CountInv

\* A refused pipe: two closes that may be owed to nothing.
LEMMA RefusedCounts ==
    ASSUME TypeOK, CountInv, NEW w \in Workers, NEW s \in Socks, PipeRefused(w, s)
    PROVE  CountInv'
<1>1. /\ Splice(w, s) /\ UNCHANGED <<table, num, agains, fincs>> /\ refused' = refused + 1
      /\ made'[w] = FALSE
    BY DEF PipeRefused, TypeOK, closed
<1>2. /\ Cardinality(First)' = Cardinality(First) + 1
      /\ Cardinality(Second)' = Cardinality(Second) + 1 /\ Closing' = Closing
      /\ Ends(w) = {}
    BY <1>1, SpliceCounts
<1>3. \A v \in Workers : v # w => Ends(v)' = Ends(v) /\ made'[v] = made[v]
    BY DEF PipeRefused, Splice, Goto, Ends, TypeOK
<1>4. UNCHANGED <<Numbered, Lost, Used>>
    BY <1>1 DEF Numbered, Lost, Used, Free
<1>5. Owned' = Owned
    BY <1>1, <1>2, <1>3 DEF Owned
<1>6. Covered \subseteq Covered'
    BY <1>1, <1>2, <1>3 DEF Covered
<1>7. Cardinality(Covered) <= Cardinality(Covered)' /\ Cardinality(Covered)' \in Nat
    BY <1>6, SizesNext, NoMore DEF AllSized, Sized
<1>8. LostInv'
    BY <1>1, <1>2, <1>4, <1>7, Sizes DEF AllSized, Sized, CountInv, LostInv, TypeOK
<1>9. UpperInv'
    BY <1>1, <1>4, <1>5 DEF CountInv, UpperInv
<1>10. LowerInv'
    BY <1>1, <1>2, <1>4, Sizes DEF AllSized, Sized, CountInv, LowerInv, TypeOK
<1>. QED BY <1>8, <1>9, <1>10 DEF CountInv

\* A splice that reads nothing forgets its two numbers.
LEMMA RecvCounts ==
    ASSUME TypeOK, CountInv, NEW w \in Workers, RecvNothing(w)
    PROVE  CountInv'
<1>1. /\ UNCHANGED <<table, num, refused, fincs>> /\ pc[w] = "recv" /\ pc'[w] = "idle"
      /\ agains' = IF made[w] THEN agains + 1 ELSE agains
    BY DEF RecvNothing, Return, Goto, TypeOK, closed
<1>2. \A v \in Workers : v # w => /\ pc'[v] = pc[v] /\ Ends(v)' = Ends(v)
                                 /\ made'[v] = made[v]
    BY DEF RecvNothing, Return, Goto, Ends, TypeOK
<1>3. First' = First \ {w} /\ w \in First
    BY <1>1, <1>2 DEF First
<1>4. Second' = Second \ {w} /\ w \in Second
    BY <1>1, <1>2 DEF Second
<1>5. /\ Cardinality(First)' = Cardinality(First) - 1
      /\ Cardinality(Second)' = Cardinality(Second) - 1
    BY <1>3, <1>4, Sizes, Removed DEF AllSized, Sized
<1>6. UNCHANGED <<Numbered, Lost, Used, Closing>>
    BY <1>1, <1>2 DEF Numbered, Lost, Used, Free, Closing
<1>7. Ends(w) = {pipe_fd[w][1], pipe_fd[w][2]} /\ Ends(w)' = {}
    BY <1>1 DEF Ends
<1>8. Covered \subseteq Covered' \cup {pipe_fd[w][1], pipe_fd[w][2]}
    BY <1>1, <1>2, <1>7 DEF Covered
<1>9. Cardinality(Covered) <= Cardinality(Covered)' + 2 /\ Cardinality(Covered)' \in Nat
    BY <1>8, SizesNext, TwoMore DEF AllSized, Sized
<1>10. Owned \subseteq Owned' \cup {pipe_fd[w][1], pipe_fd[w][2]}
    BY <1>1, <1>2, <1>7 DEF Owned
<1>11. Cardinality(Owned) <= Cardinality(Owned)' + 2 /\ Cardinality(Owned)' \in Nat
    BY <1>10, SizesNext, TwoMore DEF AllSized, Sized
<1>12. ASSUME ~ made[w] PROVE Owned' = Owned
    BY <1>1, <1>2, <1>7, <1>12 DEF Owned
<1>13. LostInv'
    BY <1>1, <1>5, <1>6, <1>9, Sizes DEF AllSized, Sized, CountInv, LostInv, TypeOK
<1>14. UpperInv'
  <2>1. CASE made[w]
    BY <1>1, <1>6, <1>11, <2>1, Sizes DEF AllSized, Sized, CountInv, UpperInv, TypeOK
  <2>2. CASE ~ made[w]
    BY <1>1, <1>6, <1>12, <2>2 DEF CountInv, UpperInv
  <2>. QED BY <2>1, <2>2
<1>15. LowerInv'
  <2>1. CASE made[w]
    BY <1>1, <1>5, <1>6, <2>1, Sizes DEF AllSized, Sized, CountInv, LowerInv, TypeOK
  <2>2. CASE ~ made[w]
    BY <1>1, <1>5, <1>6, <2>2, Sizes DEF AllSized, Sized, CountInv, LowerInv, TypeOK
  <2>. QED BY <2>1, <2>2
<1>. QED BY <1>13, <1>14, <1>15 DEF CountInv

\* A close that was owed to n, whatever n stands for by now.
LEMMA CloseCounts ==
    ASSUME TypeOK, NEW n, CloseNumber(n), num' = num, NEW w \in Workers,
           Ends(w) \subseteq Ends(w)' \cup {n},
           \A v \in Workers : v # w => Ends(v)' = Ends(v),
           \A v \in Workers : made'[v] = made[v] \/ Ends(v)' = {}
    PROVE  /\ Cardinality(Lost)' + Cardinality(Covered)
                <= Cardinality(Lost) + Cardinality(Covered)' + 1
           /\ Cardinality(Used)' + Cardinality(Owned)
                <= Cardinality(Used) + Cardinality(Owned)'
           /\ Cardinality(Used) <= Cardinality(Used)' + 1
           /\ Numbered' = Numbered
<1>0. PIPE # NULL /\ NULL \notin Socks /\ PIPE \notin Socks
    OBVIOUS
<1>1. \A m \in Numbers : m # n => table'[m] = table[m]
    BY DEF CloseNumber
<1>2. n \in Numbers => table'[n] = NULL
    BY DEF CloseNumber
<1>3. /\ Cardinality(Lost) \in Nat /\ Cardinality(Covered) \in Nat /\ Cardinality(Owned) \in Nat
      /\ Cardinality(Used) \in Nat
    BY Sizes DEF AllSized, Sized
<1>4. /\ Cardinality(Lost)' \in Nat /\ Cardinality(Covered)' \in Nat
      /\ Cardinality(Owned)' \in Nat /\ Cardinality(Used)' \in Nat
    BY SizesNext DEF AllSized, Sized
<1>5. Covered \subseteq Covered' \cup {n}
  <2>1. ASSUME NEW m \in Covered, m # n PROVE m \in Covered'
    <3>1. PICK v \in Workers : m \in Ends(v)
      BY DEF Covered
    <3>2. m \in Ends(v)'
      BY <2>1, <3>1
    <3>. QED BY <1>1, <2>1, <3>2 DEF Covered
  <2>. QED BY <2>1
<1>6. Owned \subseteq Owned' \cup {n}
  <2>1. ASSUME NEW m \in Owned, m # n PROVE m \in Owned'
    <3>1. PICK v \in Workers : made[v] /\ m \in Ends(v)
      BY DEF Owned
    <3>2. m \in Ends(v)'
      BY <2>1, <3>1
    <3>3. made'[v]
      BY <3>1, <3>2
    <3>. QED BY <1>1, <2>1, <3>2, <3>3 DEF Owned
  <2>. QED BY <2>1
<1>7. Numbered' = Numbered
    BY DEF Numbered
<1>8. CASE n \notin Numbers \/ table[n] = NULL
  <2>1. \A m \in Numbers : table'[m] = table[m]
    BY <1>1, <1>2, <1>8
  <2>2. UNCHANGED <<Lost, Used>>
    BY <2>1 DEF Lost, Used, Free
  <2>3. Covered \subseteq Covered' /\ Owned \subseteq Owned'
    BY <1>0, <1>5, <1>6, <1>8 DEF Covered, Owned
  <2>4. Cardinality(Covered) <= Cardinality(Covered)' /\ Cardinality(Owned) <= Cardinality(Owned)'
    BY <2>3, SizesNext, NoMore DEF AllSized, Sized
  <2>. QED BY <1>3, <1>4, <1>7, <2>2, <2>4
<1>9. CASE n \in Numbers /\ table[n] # NULL
  <2>1. Used' = Used \ {n} /\ n \in Used
    BY <1>1, <1>2, <1>9 DEF Used, Free
  <2>2. Cardinality(Used)' = Cardinality(Used) - 1
    BY <2>1, Sizes, Removed DEF AllSized, Sized
  <2>3. Cardinality(Owned) <= Cardinality(Owned)' + 1
    BY <1>6, SizesNext, OneMore DEF AllSized, Sized
  <2>4. CASE table[n] = PIPE
    <3>1. Lost' \subseteq Lost
      BY <1>0, <1>1, <2>4 DEF Lost
    <3>2. Cardinality(Lost)' <= Cardinality(Lost)
      BY <3>1, Sizes, NoMore DEF AllSized, Sized
    <3>3. Cardinality(Covered) <= Cardinality(Covered)' + 1
      BY <1>5, SizesNext, OneMore DEF AllSized, Sized
    <3>. QED BY <1>3, <1>4, <1>7, <2>2, <2>3, <3>2, <3>3
  <2>5. CASE table[n] # PIPE
    <3>1. table[n] \in Socks
      BY <1>9, <2>5 DEF TypeOK
    <3>2. Lost' \subseteq Lost \cup {table[n]}
      <4>1. ASSUME NEW t \in Socks, num[t] \in Numbers, table'[num[t]] # t, t # table[n]
            PROVE  table[num[t]] # t
        BY <1>1, <4>1
      <4>. QED BY <4>1 DEF Lost
    <3>3. Cardinality(Lost)' <= Cardinality(Lost) + 1
      BY <3>2, Sizes, OneMore DEF AllSized, Sized
    <3>4. Covered \subseteq Covered' /\ Owned \subseteq Owned'
      BY <1>5, <1>6, <2>5 DEF Covered, Owned
    <3>5. /\ Cardinality(Covered) <= Cardinality(Covered)'
          /\ Cardinality(Owned) <= Cardinality(Owned)'
      BY <3>4, SizesNext, NoMore DEF AllSized, Sized
    <3>. QED BY <1>3, <1>4, <1>7, <2>2, <3>3, <3>5
  <2>. QED BY <2>4, <2>5
<1>. QED BY <1>8, <1>9

LEMMA CloseFirstCounts ==
    ASSUME TypeOK, CountInv, NEW w \in Workers, CloseFirst(w)
    PROVE  CountInv'
<1>1. /\ CloseNumber(pipe_fd[w][1]) /\ UNCHANGED <<num, made, agains, refused, fincs>>
      /\ pc[w] = "close0" /\ pc'[w] = "close1"
    BY DEF CloseFirst, Goto, TypeOK, history, closed
<1>2. \A v \in Workers : v # w => pc'[v] = pc[v] /\ Ends(v)' = Ends(v)
    BY DEF CloseFirst, Goto, Ends, TypeOK
<1>3. Ends(w) \subseteq Ends(w)' \cup {pipe_fd[w][1]}
    BY <1>1 DEF CloseFirst, Ends
<1>4. First' = First \ {w} /\ w \in First
    BY <1>1, <1>2 DEF First
<1>5. Second' = Second /\ Closing' = Closing
    BY <1>1, <1>2 DEF Second, Closing
<1>6. Cardinality(First)' = Cardinality(First) - 1
    BY <1>4, Sizes, Removed DEF AllSized, Sized
<1>7. /\ Cardinality(Lost)' + Cardinality(Covered)
            <= Cardinality(Lost) + Cardinality(Covered)' + 1
      /\ Cardinality(Used)' + Cardinality(Owned) <= Cardinality(Used) + Cardinality(Owned)'
      /\ Cardinality(Used) <= Cardinality(Used)' + 1
      /\ Numbered' = Numbered
    BY <1>1, <1>2, <1>3, CloseCounts
<1>8. LostInv'
    BY <1>1, <1>5, <1>6, <1>7, Sizes, SizesNext DEF AllSized, Sized, CountInv, LostInv, TypeOK
<1>9. UpperInv'
    BY <1>1, <1>7, Sizes, SizesNext DEF AllSized, Sized, CountInv, UpperInv, TypeOK
<1>10. LowerInv'
    BY <1>1, <1>5, <1>6, <1>7, Sizes, SizesNext DEF AllSized, Sized, CountInv, LowerInv, TypeOK
<1>. QED BY <1>8, <1>9, <1>10 DEF CountInv

LEMMA CloseSecondCounts ==
    ASSUME TypeOK, CountInv, NEW w \in Workers, CloseSecond(w)
    PROVE  CountInv'
<1>1. /\ CloseNumber(pipe_fd[w][2]) /\ UNCHANGED <<num, agains, refused, fincs>>
      /\ pc[w] = "close1" /\ pc'[w] = "idle"
    BY DEF CloseSecond, Return, Goto, TypeOK, history, closed
<1>2. \A v \in Workers : v # w => /\ pc'[v] = pc[v] /\ Ends(v)' = Ends(v)
                                 /\ made'[v] = made[v]
    BY DEF CloseSecond, Return, Goto, Ends, TypeOK
<1>3. Ends(w) \subseteq Ends(w)' \cup {pipe_fd[w][2]} /\ Ends(w)' = {}
    BY <1>1 DEF Ends
<1>4. Second' = Second \ {w} /\ w \in Second
    BY <1>1, <1>2 DEF Second
<1>5. First' = First /\ Closing' = Closing
    BY <1>1, <1>2 DEF First, Closing
<1>6. Cardinality(Second)' = Cardinality(Second) - 1
    BY <1>4, Sizes, Removed DEF AllSized, Sized
<1>7. /\ Cardinality(Lost)' + Cardinality(Covered)
            <= Cardinality(Lost) + Cardinality(Covered)' + 1
      /\ Cardinality(Used)' + Cardinality(Owned) <= Cardinality(Used) + Cardinality(Owned)'
      /\ Cardinality(Used) <= Cardinality(Used)' + 1
      /\ Numbered' = Numbered
    BY <1>1, <1>2, <1>3, CloseCounts
<1>8. LostInv'
    BY <1>1, <1>5, <1>6, <1>7, Sizes, SizesNext DEF AllSized, Sized, CountInv, LostInv, TypeOK
<1>9. UpperInv'
    BY <1>1, <1>7, Sizes, SizesNext DEF AllSized, Sized, CountInv, UpperInv, TypeOK
<1>10. LowerInv'
    BY <1>1, <1>5, <1>6, <1>7, Sizes, SizesNext DEF AllSized, Sized, CountInv, LowerInv, TypeOK
<1>. QED BY <1>8, <1>9, <1>10 DEF CountInv

\* CFinEventClient: a close that is owed to nothing ...
LEMMA FincTakeCounts ==
    ASSUME TypeOK, CountInv, NEW w \in Workers, NEW s \in Socks, FincTake(w, s)
    PROVE  CountInv'
<1>1. /\ UNCHANGED <<table, num, made, agains, refused>> /\ fincs' = fincs + 1
      /\ pc[w] = "idle" /\ pc'[w] = "finc" /\ \A v \in Workers : v # w => pc'[v] = pc[v]
    BY DEF FincTake, Goto, TypeOK
<1>2. \A v \in Workers : Ends(v)' = Ends(v)
    BY <1>1 DEF FincTake, Ends
<1>3. UNCHANGED <<First, Second>>
    BY <1>1 DEF First, Second
<1>4. UNCHANGED <<Covered, Owned, Numbered, Used, Lost>>
    BY <1>1, <1>2 DEF Covered, Owned, Numbered, Used, Free, Lost
<1>5. Closing' = Closing \cup {w} /\ w \notin Closing
    BY <1>1 DEF Closing
<1>6. Cardinality(Closing)' = Cardinality(Closing) + 1
    BY <1>5, Sizes, Added DEF AllSized, Sized
<1>7. LostInv'
    BY <1>1, <1>3, <1>4, <1>6, Sizes DEF AllSized, Sized, CountInv, LostInv, TypeOK
<1>8. UpperInv'
    BY <1>1, <1>4 DEF CountInv, UpperInv
<1>9. LowerInv'
    BY <1>1, <1>3, <1>4, <1>6, Sizes DEF AllSized, Sized, CountInv, LowerInv, TypeOK
<1>. QED BY <1>7, <1>8, <1>9 DEF CountInv

\* ... whatever its number stands for by then.
LEMMA FincCloseCounts ==
    ASSUME TypeOK, CountInv, NEW w \in Workers, FincClose(w)
    PROVE  CountInv'
<1>1. /\ CloseNumber(psock[w][1]) /\ UNCHANGED <<num, agains, refused, fincs>>
      /\ pc[w] = "finc" /\ pc'[w] = "idle"
    BY DEF FincClose, Return, Goto, TypeOK
<1>2. \A v \in Workers : v # w => /\ pc'[v] = pc[v] /\ Ends(v)' = Ends(v)
                                 /\ made'[v] = made[v]
    BY DEF FincClose, Return, Goto, Ends, TypeOK
<1>3. Ends(w) = {} /\ Ends(w)' = {}
    BY <1>1 DEF Ends
<1>4. UNCHANGED <<First, Second>>
    BY <1>1, <1>2 DEF First, Second
<1>5. Closing' = Closing \ {w} /\ w \in Closing
    BY <1>1, <1>2 DEF Closing
<1>6. Cardinality(Closing)' = Cardinality(Closing) - 1
    BY <1>5, Sizes, Removed DEF AllSized, Sized
<1>7. /\ Cardinality(Lost)' + Cardinality(Covered)
            <= Cardinality(Lost) + Cardinality(Covered)' + 1
      /\ Cardinality(Used)' + Cardinality(Owned) <= Cardinality(Used) + Cardinality(Owned)'
      /\ Cardinality(Used) <= Cardinality(Used)' + 1
      /\ Numbered' = Numbered
    BY <1>1, <1>2, <1>3, CloseCounts
<1>8. LostInv'
    BY <1>1, <1>4, <1>6, <1>7, Sizes, SizesNext DEF AllSized, Sized, CountInv, LostInv, TypeOK
<1>9. UpperInv'
    BY <1>1, <1>7, Sizes, SizesNext DEF AllSized, Sized, CountInv, UpperInv, TypeOK
<1>10. LowerInv'
    BY <1>1, <1>4, <1>6, <1>7, Sizes, SizesNext DEF AllSized, Sized, CountInv, LowerInv, TypeOK
<1>. QED BY <1>8, <1>9, <1>10 DEF CountInv

\* A step that leaves the files and the splices alone.
LEMMA IdleCounts ==
    ASSUME CountInv, UNCHANGED <<table, num, made, history>>,
           \A w \in Workers : Ends(w)' = Ends(w) /\ pc'[w] = pc[w]
    PROVE  CountInv'
<1>1. UNCHANGED <<First, Second, Closing>>
    BY DEF First, Second, Closing
<1>2. UNCHANGED <<Covered, Owned, Numbered, Used, Lost>>
    BY DEF Covered, Owned, Numbered, Used, Free, Lost
<1>. QED BY <1>1, <1>2, SteadyCounts

LEMMA CountStep == TypeOK /\ CountInv /\ [Next]_vars => CountInv'
<1>. SUFFICES ASSUME TypeOK, CountInv, [Next]_vars PROVE CountInv'
    OBVIOUS
<1>1. ASSUME NEW c \in Clients, Accept(c) PROVE CountInv'
  <2>1. <<c, "in">> \in Socks
    BY DEF Socks
  <2>. QED BY <1>1, <2>1, OpenCounts DEF Accept
<1>2. ASSUME NEW w \in Workers, NEW c \in Clients, CreateSock(w, c) PROVE CountInv'
  <2>1. <<c, "out">> \in Socks
    BY DEF Socks
  <2>2. \A v \in Workers : pc'[v] = pc[v] \/ (pc[v] = "idle" /\ pc'[v] = "insert")
    BY <1>2 DEF CreateSock, Goto, TypeOK
  <2>. QED BY <1>2, <2>1, <2>2, OpenCounts DEF CreateSock
<1>3. ASSUME NEW w \in Workers, Insert(w) PROVE CountInv'
  <2>1. /\ UNCHANGED <<table, num, history>> /\ pc[w] = "insert" /\ pc'[w] = "idle"
    BY <1>3 DEF Insert, Return, Goto, TypeOK
  <2>2. \A v \in Workers : v # w => /\ pc'[v] = pc[v] /\ Ends(v)' = Ends(v)
                                   /\ made'[v] = made[v]
    BY <1>3 DEF Insert, Return, Goto, Ends, TypeOK
  <2>3. Ends(w) = {} /\ Ends(w)' = {}
    BY <2>1 DEF Ends
  <2>4. UNCHANGED <<First, Second, Closing>>
    BY <2>1, <2>2 DEF First, Second, Closing
  <2>5. UNCHANGED <<Covered, Owned>>
    BY <2>1, <2>2, <2>3 DEF Covered, Owned
  <2>6. UNCHANGED <<Numbered, Used, Lost>>
    BY <2>1 DEF Numbered, Used, Free, Lost
  <2>. QED BY <2>1, <2>4, <2>5, <2>6, SteadyCounts
<1>4. ASSUME NEW w \in Workers, NEW s \in Socks, Pipe(w, s) PROVE CountInv'
    BY <1>4, PipeCounts
<1>5. ASSUME NEW w \in Workers, NEW s \in Socks, PipeRefused(w, s) PROVE CountInv'
    BY <1>5, RefusedCounts
<1>6. ASSUME NEW w \in Workers, RecvNothing(w) PROVE CountInv'
    BY <1>6, RecvCounts
<1>7. ASSUME NEW w \in Workers, Relay(w) PROVE CountInv'
  <2>1. /\ pc[w] = "recv" /\ pc'[w] = "close0" /\ pipe_fd' = pipe_fd
        /\ \A v \in Workers : v # w => pc'[v] = pc[v]
        /\ UNCHANGED <<table, num, made, history>>
    BY <1>7 DEF Relay, Goto, TypeOK
  <2>2. \A v \in Workers : Ends(v)' = Ends(v)
    BY <2>1 DEF Ends
  <2>3. UNCHANGED <<First, Second, Closing>>
    BY <2>1 DEF First, Second, Closing
  <2>4. UNCHANGED <<Covered, Owned, Numbered, Used, Lost>>
    BY <2>1, <2>2 DEF Covered, Owned, Numbered, Used, Free, Lost
  <2>. QED BY <2>1, <2>3, <2>4, SteadyCounts
<1>8. ASSUME NEW w \in Workers, CloseFirst(w) PROVE CountInv'
    BY <1>8, CloseFirstCounts
<1>9. ASSUME NEW w \in Workers, CloseSecond(w) PROVE CountInv'
    BY <1>9, CloseSecondCounts
<1>10. ASSUME NEW k \in Keys, Fin(k) PROVE CountInv'
  <2>1. \A v \in Workers : Ends(v)' = Ends(v) /\ pc'[v] = pc[v]
    BY <1>10 DEF Fin, Ends
  <2>. QED BY <1>10, <2>1, IdleCounts DEF Fin
<1>11. ASSUME NEW w \in Workers, NEW s \in Socks, FincTake(w, s) PROVE CountInv'
    BY <1>11, FincTakeCounts
<1>12. ASSUME NEW w \in Workers, FincClose(w) PROVE CountInv'
    BY <1>12, FincCloseCounts
<1>13. CASE UNCHANGED vars
  <2>1. \A v \in Workers : Ends(v)' = Ends(v) /\ pc'[v] = pc[v]
    BY <1>13 DEF vars, Ends
  <2>. QED BY <1>13, <2>1, IdleCounts DEF vars
<1>. QED BY <1>1, <1>2, <1>3, <1>4, <1>5, <1>6, <1>7, <1>8, <1>9, <1>10, <1>11, <1>12, <1>13
         DEF Next, Worker
-------------------------------------------------------------------------------
LEMMA RefusedGrows == TypeOK /\ [Next]_vars /\ refused' = 0 => refused = 0
<1>. SUFFICES ASSUME TypeOK, [Next]_vars, refused' = 0 PROVE refused = 0
    OBVIOUS
<1>1. refused \in Nat
    BY DEF TypeOK
<1>2. refused' = refused \/ refused' = refused + 1
    BY DEF Next, Worker, Accept, CreateSock, Insert, Pipe, PipeRefused, RecvNothing, Relay,
           CloseFirst, CloseSecond, FincTake, FincClose, Fin, vars, history
<1>. QED BY <1>1, <1>2

LEMMA Inductive == IInv /\ [Next]_vars => IInv'
<1>. SUFFICES ASSUME IInv, [Next]_vars PROVE IInv'
    OBVIOUS
<1>1. TypeOK' /\ AckInv' /\ FincInv'
    BY TypeStep, AckStep, FincInvStep DEF IInv
<1>2. ASSUME refused' = 0 PROVE PipeInv' /\ SockInv' /\ MapInv'
  <2>1. refused = 0
    BY <1>2, RefusedGrows DEF IInv
  <2>. QED BY <1>2, <2>1, NamesStep DEF IInv
<1>. QED BY <1>1, <1>2 DEF IInv

\* Every variable keeps its type, for any number of clients and workers and any limit.
THEOREM TypeCorrect == Spec => []TypeOK
<1>1. IInv => TypeOK
    BY DEF IInv
<1>. QED BY InitInv, Inductive, <1>1, PTL DEF Spec

\* A key of g_sock_map that CFinEventClient did not close is the number of an open
\* socket of the session it is relayed in, as long as pipe() does not fail: until then
\* numbers may be taken for the sockets, as NatServer does.
THEOREM NamesCorrect == Spec => []MapNames
<1>1. IInv => MapNames
    BY DEF IInv, MapInv, MapNames
<1>. QED BY InitInv, Inductive, <1>1, PTL DEF Spec
-------------------------------------------------------------------------------
\* The numbers that two sets of workers have on their stacks, one for each worker.
LEMMA Reached ==
    ASSUME NEW S, IsFiniteSet(S), NEW U, IsFiniteSet(U), NEW f, NEW g, NEW T,
           \A t \in T : (\E x \in S : t = f[x]) \/ (\E x \in U : t = g[x])
    PROVE  /\ Cardinality(T) <= Cardinality(S) + Cardinality(U)
           /\ Cardinality(S) \in Nat /\ Cardinality(U) \in Nat /\ Cardinality(T) \in Nat
<1>. DEFINE A == {f[x] : x \in S}
           B == {g[x] : x \in U}
           F == [x \in S |-> f[x]]
           G == [x \in U |-> g[x]]
<1>1. F \in Surjection(S, A) /\ G \in Surjection(U, B)
    BY DEF Surjection
<1>2. /\ IsFiniteSet(A) /\ Cardinality(A) <= Cardinality(S)
      /\ IsFiniteSet(B) /\ Cardinality(B) <= Cardinality(U)
  <2>. HIDE DEF A, B, F, G
  <2>. QED BY <1>1, FS_Surjection
<1>. HIDE DEF A, B, F, G
<1>3. T \subseteq A \cup B
    BY DEF A, B
<1>4. /\ IsFiniteSet(A \cup B) /\ IsFiniteSet(A \cap B)
      /\ Cardinality(A \cup B) = Cardinality(A) + Cardinality(B) - Cardinality(A \cap B)
    BY <1>2, FS_Union, FS_Intersection
<1>5. IsFiniteSet(T) /\ Cardinality(T) <= Cardinality(A \cup B)
    BY <1>3, <1>4, FS_Subset
<1>6. /\ Cardinality(S) \in Nat /\ Cardinality(U) \in Nat /\ Cardinality(T) \in Nat
      /\ Cardinality(A) \in Nat /\ Cardinality(B) \in Nat
      /\ Cardinality(A \cap B) \in Nat /\ Cardinality(A \cup B) \in Nat
    BY <1>2, <1>4, <1>5, FS_CardinalityType
<1>. QED BY <1>2, <1>4, <1>5, <1>6

LEMMA InitCounts == Init => CountInv
<1>. SUFFICES ASSUME Init PROVE CountInv
    OBVIOUS
<1>1. /\ First = {} /\ Second = {} /\ Closing = {} /\ Lost = {} /\ Numbered = {} /\ Used = {} /\ Owned = {}
      /\ agains = 0 /\ refused = 0 /\ fincs = 0
    BY DEF Init, First, Second, Closing, Lost, Numbered, Used, Owned, Free, Ends, Numbers
<1>2. Cardinality({}) = 0 /\ Cardinality(Covered) \in Nat
    BY FS_EmptySet, Sizes DEF AllSized, Sized
<1>. QED BY <1>1, <1>2 DEF CountInv, LostInv, UpperInv, LowerInv

LEMMA CountAlways == Spec => [](TypeOK /\ CountInv)
<1>1. IInv => TypeOK
    BY DEF IInv
<1>. QED BY InitInv, Inductive, <1>1, InitCounts, CountStep, PTL DEF Spec

\* There are never more closes owed than closes to come.
LEMMA CoveredBound == Cardinality(Covered) <= Cardinality(First) + Cardinality(Second)
<1>. DEFINE f == [w \in First |-> pipe_fd[w][1]]
           g == [w \in Second |-> pipe_fd[w][2]]
<1>1. \A n \in Covered : (\E w \in First : n = f[w]) \/ (\E w \in Second : n = g[w])
    BY DEF Covered, First, Second, Ends
<1>. HIDE DEF f, g
<1>. QED BY <1>1, Sizes, Reached DEF AllSized, Sized

\* The numbers of the pipes that were made.
HeldBy(p) == {w \in Workers : made[w] /\ pc[w] \in p}

LEMMA HeldSizes ==
    /\ Cardinality(HeldBy({"recv", "close0"})) \in Nat
    /\ Cardinality(HeldBy({"close1"})) \in Nat
    /\ Cardinality(HeldBy({"recv", "close0"})) <= Cardinality(First)
    /\ Cardinality(HeldBy({"recv", "close0"})) + Cardinality(HeldBy({"close1"}))
         <= Cardinality(Second)
    /\ Cardinality(Owned)
         <= 2 * Cardinality(HeldBy({"recv", "close0"})) + Cardinality(HeldBy({"close1"}))
<1>. DEFINE A == HeldBy({"recv", "close0"})
           B == HeldBy({"close1"})
           f == [w \in A |-> pipe_fd[w][1]]
           g == [w \in A \cup B |-> pipe_fd[w][2]]
<1>1. A \subseteq First /\ A \cup B \subseteq Second /\ A \cap B = {} /\ B \subseteq Workers
    BY DEF HeldBy, First, Second
<1>2. \A n \in Owned : (\E w \in A : n = f[w]) \/ (\E w \in A \cup B : n = g[w])
    BY DEF Owned, HeldBy, Ends
<1>. HIDE DEF A, B, f, g
<1>3. /\ IsFiniteSet(A) /\ Cardinality(A) <= Cardinality(First)
      /\ IsFiniteSet(A \cup B) /\ Cardinality(A \cup B) <= Cardinality(Second)
      /\ IsFiniteSet(B)
    BY <1>1, Sizes, FS_Subset DEF AllSized, Sized
<1>4. Cardinality(A \cup B) = Cardinality(A) + Cardinality(B) - Cardinality(A \cap B)
    BY <1>3, FS_Union
<1>5. Cardinality(A \cap B) = 0
  <2>1. A \cap B = {}
    BY <1>1
  <2>2. Cardinality(A \cap B) = Cardinality({})
    BY <2>1
  <2>. QED BY <2>2, FS_EmptySet
<1>6. Cardinality(A) \in Nat /\ Cardinality(B) \in Nat
    BY <1>3, FS_CardinalityType
<1>7. Cardinality(Owned) <= Cardinality(A) + Cardinality(A \cup B) /\ Cardinality(Owned) \in Nat
  <2>. DEFINE C == A \cup B
  <2>1. \A n \in Owned : (\E w \in A : n = f[w]) \/ (\E w \in C : n = g[w])
    BY <1>2
  <2>2. IsFiniteSet(A) /\ IsFiniteSet(C)
    BY <1>3
  <2>. HIDE DEF C
  <2>3. Cardinality(Owned) <= Cardinality(A) + Cardinality(C)
    BY <2>1, <2>2, Reached
  <2>. QED BY <2>3, Sizes DEF C, AllSized, Sized
<1>8. Cardinality(A \cup B) = Cardinality(A) + Cardinality(B)
    BY <1>4, <1>5, <1>6
<1>9. /\ Cardinality(A) + Cardinality(B) <= Cardinality(Second)
      /\ Cardinality(Owned) <= 2 * Cardinality(A) + Cardinality(B)
    BY <1>3, <1>6, <1>7, <1>8
<1>. QED BY <1>3, <1>6, <1>9 DEF A, B

\* Two sockets at most lose their number for each pipe that was refused, and one for
\* each socket CFinEventClient closes, however the workers and the newcomers meet at
\* the numbers that were closed: what such a close costs does not grow.
THEOREM SocketsCorrect == Spec => []SocketsLost
<1>1. ASSUME TypeOK, CountInv PROVE SocketsLost
  <2>1. /\ Cardinality(Lost) \in Nat /\ Cardinality(First) \in Nat
        /\ Cardinality(Second) \in Nat /\ Cardinality(Covered) \in Nat
        /\ Cardinality(Closing) \in Nat
    BY Sizes DEF AllSized, Sized
  <2>2. refused \in Nat /\ fincs \in Nat
    BY <1>1 DEF TypeOK
  <2>3. LostInv
    BY <1>1 DEF CountInv
  <2>. QED BY <2>1, <2>2, <2>3, CoveredBound DEF SocketsLost, LostInv
<1>. QED BY CountAlways, <1>1, PTL

\* The numbers in use are those of the sockets, two for each splice that read nothing,
\* and those that the splices under way will close; a refused pipe makes it up to two
\* less, CFinEventClient up to one.  So the files that stay open grow with the clients
\* and with the empty reads.
THEOREM AccountingCorrect == Spec => []Accounting
<1>1. ASSUME TypeOK, CountInv PROVE Accounting
  <2>. DEFINE all == Cardinality(Numbered) + 2 * agains
                       + 2 * Cardinality(HeldBy({"recv", "close0"}))
                       + Cardinality(HeldBy({"close1"}))
  <2>1. /\ Cardinality(Numbered) \in Nat /\ Cardinality(Used) \in Nat
        /\ Cardinality(First) \in Nat /\ Cardinality(Second) \in Nat
        /\ Cardinality(Owned) \in Nat /\ Cardinality(Closing) \in Nat
    BY Sizes DEF AllSized, Sized
  <2>2. refused \in Nat /\ agains \in Nat /\ fincs \in Nat
    BY <1>1 DEF TypeOK
  <2>3. Cardinality(Used) <= all
    BY <1>1, <2>1, <2>2, HeldSizes DEF CountInv, UpperInv
  <2>4. all - 2 * refused - fincs <= Cardinality(Used)
    BY <1>1, <2>1, <2>2, HeldSizes DEF CountInv, LowerInv
  <2>5. all \in Int /\ refused \in Int /\ fincs \in Int
    BY <2>1, <2>2, HeldSizes
  <2>. HIDE DEF all
  <2>6. Cardinality(Used) \in (all - 2 * refused - fincs) .. all
    BY <2>1, <2>3, <2>4, <2>5
  <2>. QED BY <2>6 DEF all, Accounting, Used, Numbered, HeldBy
<1>. QED BY CountAlways, <1>1, PTL
===============================================================================
