-------------------------- MODULE NatServerProofs ---------------------------
(***************************************************************************)
(* Theorems about NatServer.  The inductive invariant follows one session *)
(* from the SYN on: as long as a SYN is Pending, neither of its sockets is *)
(* in g_sock_map or in g_leave_queue and no worker connects it; the worker *)
(* that receives the SYN is the only one that ever does; the two halves of *)
(* a pair are inserted by the holder of g_mutex, and OK is sent after them. *)
(*                                                                         *)
(* On top of it, EchoInv follows a session's messages: a step leaves a     *)
(* session alone (Quiet), or a worker receives, makes up or sends one of   *)
(* its messages, the peer echoes one, or its client writes or reads one.   *)
(*                                                                         *)
(* A close by CFinEventClient and the read of an erased pair end the       *)
(* model: up to then a worker has what it found, whatever it runs for.     *)
(***************************************************************************)
EXTENDS NatServer, SequenceTheorems, FiniteSetTheorems, TLAPS

In(c) == <<c, "in">>

\* A client's own SYN; the one of a garbled type is taken for one only by a job that
\* was mixed up.
OwnSyn(m) == m.owner # NULL /\ m.type \in {"ack", "none"}

\* What a handler that is meant for a client leaves behind is there only if an
\* uninitialised st_event may have such a type.
JunkPlaces == {"syn_encrypt", "syn_send", "txt_send", "finc_send", "finc_close"}
Known(m) ==
    /\ m.type \in Types \cup {"error"}
    /\ m.type \in ClientTypes => m.owner = NULL
    /\ "junk" \notin env.faults => m.type \notin ClientTypes /\ m # Sealed

\* c has yet to send its SYN, or nobody has received it.
Pending(c) ==
    \/ client[c] \in {"start", "syn"}
    \/ recvq[In(c)] # <<>> /\ OwnSyn(Head(recvq[In(c)]))

\* What g_sock_map and g_leave_queue may say of a session.
Paired(s) == g_sock_map[s] = Other(s) /\ g_sock_map[Other(s)] = s
Unused(s) == g_sock_map[s] = NULL /\ s \notin Range(g_leave_queue)
Registered(c) ==
    /\ c \in g_allow_map
    /\ Paired(In(c)) \/ In(c) \in Range(g_leave_queue)

\* The listen socket is reported for a connection that waits.
BatchInv == Listen \in batch => backlog # <<>>

\* A socket's bytes are its client's; a SYN is the first that a client ever sends,
\* and it is not echoed.
RecvInv ==
    /\ \A s \in Socks : \A i \in 1 .. Len(recvq[s]) :
          LET m == recvq[s][i]
          IN  /\ m.owner \in {s[1], NULL} /\ Known(m)
              /\ OwnSyn(m) => i = 1 /\ s[2] = "in"
    /\ \A c \in Clients : client[c] \in {"start", "syn"} => recvq[In(c)] = <<>>

\* What goes out is of the same session, OK only to a registered pair.
SendInv ==
    /\ \A s \in Socks : \A m \in Range(sendq[s]) :
          /\ m.owner \in {s[1], NULL} /\ ~ OwnSyn(m)
          /\ m.type = "ok" => s[2] = "in" /\ Registered(s[1])
          /\ m.type # "ok" => Known(m)
    /\ \A s \in Range(peer.conns) : s[2] = "out"

ClientInv == \A c \in Clients : client[c] \in {"send", "echo"} => Registered(c)

JobInv ==
    \A w \in Workers :
        /\ pc[w] # "idle" => job[w] \in Socks
        /\ "junk" \notin env.faults => pc[w] \notin JunkPlaces

\* A relaying worker has found the other socket of its own session.
TransOf(w) ==
    pc[w] \in {"trans_read", "trans_recv", "trans_send"} =>
        /\ dst[w] = Other(job[w]) /\ ~ Pending(job[w][1])
        /\ pc[w] = "trans_send" =>
              /\ buf[w] \in Messages /\ buf[w].owner \in {job[w][1], NULL}
              /\ Known(buf[w]) /\ ~ OwnSyn(buf[w])

TransInv == \A w \in Workers : TransOf(w)

AckPlaces == {"ack_decrypt", "ack_connect", "ack_insert", "ack_insert_back"}

\* w has a client's SYN; what was sealed uninitialised is refused.
Connecting(w) == pc[w] \in AckPlaces /\ (pc[w] = "ack_decrypt" => buf[w].owner # NULL)

\* A connecting worker has a session that nobody else has seen yet.
AckOf(w) ==
    /\ Connecting(w) \/ pc[w] = "ack_ok" => job[w][2] = "in" /\ ~ Pending(job[w][1])
    /\ pc[w] = "ack_decrypt" => buf[w].owner \in {job[w][1], NULL}
    /\ pc[w] \in {"ack_connect", "ack_insert", "ack_insert_back"} => job[w][1] \in g_allow_map
    /\ Connecting(w) /\ pc[w] # "ack_insert_back" => Unused(job[w]) /\ Unused(Other(job[w]))
    /\ pc[w] \in {"ack_insert", "ack_insert_back"} => dst[w] = Other(job[w])
    /\ pc[w] = "ack_insert_back" =>
          /\ g_sock_map[job[w]] = dst[w] /\ job[w] \notin Range(g_leave_queue)
          /\ Unused(dst[w])
    /\ pc[w] = "ack_ok" => Registered(job[w][1])

\* One worker at a time connects a session.
AckApart == \A v, w \in Workers : Connecting(v) /\ Connecting(w) /\ job[v] = job[w] => v = w

AckInv == AckApart /\ \A w \in Workers : AckOf(w)

MutexInv == \A w \in Workers : pc[w] \in {"ack_insert_back", "fin_erase"} <=> g_mutex = w

\* Pairs are half there only while a holder of g_mutex inserts or erases them.
MapInv ==
    /\ \A s \in Socks : g_sock_map[s] # NULL =>
          /\ g_sock_map[s] = Other(s) /\ ~ Pending(s[1])
          /\ \/ g_sock_map[Other(s)] = s
             \/ \E w \in Workers : pc[w] = "ack_insert_back" /\ job[w] = s
    /\ \A s \in Range(g_leave_queue) : ~ Pending(s[1])
    /\ \A s \in Range(g_leave_queue) : g_sock_map[s] # NULL =>
          \E w \in Workers : pc[w] = "fin_erase" /\ s \in {dst[w], Other(dst[w])}
    /\ \A w \in Workers : pc[w] = "fin_erase" => 
          dst[w] \in Socks /\ Paired(dst[w]) /\ {dst[w], Other(dst[w])} \subseteq Range(g_leave_queue)

IInv == TypeOK /\ BatchInv /\ RecvInv /\ SendInv /\ ClientInv /\ JobInv /\ TransInv /\ AckInv
          /\ MutexInv /\ MapInv

-------------------------------------------------------------------------------
LEMMA AppendRange ==
    ASSUME NEW S, NEW q \in Seq(S), NEW m \in S
    PROVE  Append(q, m) \in Seq(S) /\ Range(Append(q, m)) = Range(q) \cup {m}
<1>. DEFINE r == Append(q, m)
<1>1. r \in Seq(S) /\ Len(r) = Len(q) + 1 /\ r[Len(q) + 1] = m /\ \A i \in 1 .. Len(q) : r[i] = q[i]
    OBVIOUS
<1>2. Len(q) \in Nat
    OBVIOUS
<1>3. \A i \in 1 .. Len(r) : r[i] \in Range(q) \cup {m}
    BY <1>1, <1>2 DEF Range
<1>4. Range(r) \subseteq Range(q) \cup {m}
    BY <1>1, <1>3 DEF Range
<1>5. m \in Range(r) /\ \A i \in 1 .. Len(q) : q[i] \in Range(r)
    BY <1>1, <1>2 DEF Range
<1>6. Range(q) \subseteq Range(r)
    BY <1>5 DEF Range
<1>. QED BY <1>1, <1>4, <1>5, <1>6

LEMMA TailRange ==
    ASSUME NEW S, NEW q \in Seq(S), q # <<>>
    PROVE  /\ Head(q) \in S /\ Head(q) \in Range(q) /\ Head(q) = q[1]
           /\ Tail(q) \in Seq(S) /\ Range(Tail(q)) \subseteq Range(q)
           /\ Len(Tail(q)) = Len(q) - 1 /\ \A i \in 1 .. Len(Tail(q)) : Tail(q)[i] = q[i + 1]
<1>1. Len(q) \in Nat /\ Len(q) > 0
    OBVIOUS
<1>2. Tail(q) \in Seq(S) /\ Len(Tail(q)) = Len(q) - 1 /\ \A i \in 1 .. Len(Tail(q)) : Tail(q)[i] = q[i + 1]
    BY HeadTailProperties
<1>3. Head(q) = q[1] /\ Head(q) \in S /\ Head(q) \in Range(q)
    BY <1>1 DEF Range
<1>4. ASSUME NEW i \in 1 .. Len(Tail(q)) PROVE Tail(q)[i] \in Range(q)
    BY <1>1, <1>2 DEF Range
<1>5. Range(Tail(q)) \subseteq Range(q)
    BY <1>2, <1>4 DEF Range
<1>. QED BY <1>1, <1>2, <1>3, <1>5

LEMMA PushRange ==
    ASSUME NEW S, NEW q \in Seq(S), NEW a \in S, NEW b \in S
    PROVE  q \o <<a, b>> \in Seq(S) /\ Range(q \o <<a, b>>) = Range(q) \cup {a, b}
<1>. DEFINE r == q \o <<a, b>>
<1>0. Len(q) \in Nat /\ <<a, b>> \in Seq(S) /\ Len(<<a, b>>) = 2
    OBVIOUS
<1>1. r \in Seq(S) /\ Len(r) = Len(q) + 2 /\ \A i \in 1 .. Len(q) + 2 :
          r[i] = IF i <= Len(q) THEN q[i] ELSE <<a, b>>[i - Len(q)]
    BY <1>0, ConcatProperties
<1>. HIDE DEF r
<1>2. r[Len(q) + 1] = a /\ r[Len(q) + 2] = b
    BY <1>0, <1>1
<1>3. \A i \in 1 .. Len(q) : r[i] = q[i]
    BY <1>0, <1>1
<1>4. \A i \in 1 .. Len(q) + 2 : i \in 1 .. Len(q) \/ i = Len(q) + 1 \/ i = Len(q) + 2
    BY <1>0
<1>5. Range(r) = {r[i] : i \in 1 .. Len(q) + 2} /\ Range(q) = {q[i] : i \in 1 .. Len(q)}
  <2>1. DOMAIN q = 1 .. Len(q)
      BY LenProperties
  <2>2. DOMAIN r = 1 .. Len(q) + 2
      BY <1>1, LenProperties
  <2>. QED BY <2>1, <2>2 DEF Range
<1>6. Len(q) + 1 \in 1 .. Len(q) + 2 /\ Len(q) + 2 \in 1 .. Len(q) + 2
      /\ 1 .. Len(q) \subseteq 1 .. Len(q) + 2
    BY <1>0
<1>7. Range(r) \subseteq Range(q) \cup {a, b}
    BY <1>2, <1>3, <1>4, <1>5
<1>8. a \in Range(r) /\ b \in Range(r)
    BY <1>2, <1>5, <1>6
<1>9. Range(q) \subseteq Range(r)
    BY <1>3, <1>5, <1>6
<1>. QED BY <1>1, <1>7, <1>8, <1>9 DEF r

\* The next number is a natural one: there are finitely many sockets.
LEMMA NextFdNat == NextFd \in Nat
<1>1. IsFiniteSet({"in", "out"})
  <2>1. IsFiniteSet({"in"})
      BY FS_Singleton
  <2>2. IsFiniteSet({"in"} \cup {"out"})
      BY <2>1, FS_AddElement
  <2>3. {"in"} \cup {"out"} = {"in", "out"}
      OBVIOUS
  <2>. QED BY <2>2, <2>3
<1>2. IsFiniteSet(Socks)
    BY <1>1, FS_Product, NatAssumption DEF Socks, NatAssumption
<1>3. IsFiniteSet({s \in Socks : fd[s] # 0})
    BY <1>2, FS_Subset
<1>. QED BY <1>3, FS_CardinalityType DEF NextFd

-------------------------------------------------------------------------------
(* What the three kinds of threads leave alone. *)

LEMMA MainFrame ==
    ASSUME MainStep
    PROVE  /\ UNCHANGED <<g_sock_map, g_leave_queue, g_mutex, setting, pc, job, buf, dst,
                          recvq, sendq, got, peer>>
           /\ client' = client \/ \E c : client' = [client EXCEPT ![c] = "done"]
<1>1. CASE AcceptDropped
    BY <1>1 DEF AcceptDropped, worker, setting
<1>2. CASE EpollWait \/ Accept \/ CheckLeaveQueue \/ AddAndDispatch \/ \E s \in Socks : FindReady(s)
    BY <1>2 DEF EpollWait, Accept, CheckLeaveQueue, AddAndDispatch, FindReady, Die, Ends,
                worker, net, outside, setting
<1>. QED BY <1>1, <1>2 DEF MainStep

LEMMA ClientFrame ==
    ASSUME (\E c \in Clients : ClientStep(c) \/ Kill(c)) \/ PeerEcho
    PROVE  UNCHANGED <<server, worker, setting>>
BY DEF ClientStep, Connect, SendSyn, RecvReply, SendTxt, RecvEcho, SendFin, Close, Kill, HangUp,
       PeerEcho

\* The process ends, or the model.
Stops == Die \/ Stray

LEMMA StopFrame == Stops => UNCHANGED <<g_sock_map, g_leave_queue, g_mutex, epolled, batch, cur,
                                        found, worker, net, outside, setting>>
BY DEF Stops, Die, Stray, Ends

\* Every step is one of these.
LEMMA Steps ==
    ASSUME Next
    PROVE  \/ MainStep
           \/ \E w \in Workers :
                 \/ \E s, h \in Socks : Take(w, s) \/ TakeMixed(w, s, h)
                 \/ AckRecv(w) \/ AckDecrypt(w) \/ AckConnect(w) \/ AckInsert(w) \/ AckInsertBack(w)
                 \/ AckReply(w) \/ TransFind(w) \/ TransRead(w) \/ TransRecv(w) \/ TransSend(w)
                 \/ FinRecv(w) \/ FinQueue(w) \/ FinErase(w)
                 \/ SynEncrypt(w) \/ SendBack(w) \/ FincSend(w)
           \/ \E c \in Clients : ClientStep(c) \/ Kill(c)
           \/ PeerEcho
           \/ Stops
BY DEF Next, WorkerStep, SendDies, InterpreterRace, TransReadStale, FincClose, Stops
-------------------------------------------------------------------------------

\* The parts of TypeOK.
LEMMA MainTypes ==
    ASSUME TypeOK, BatchInv, MainStep
    PROVE  TypeOK' /\ BatchInv'
<1>0. NextFd \in Nat
    BY NextFdNat
<1>1. CASE EpollWait
    BY <1>1 DEF EpollWait, TypeOK, BatchInv, worker, outside, setting, Listen, Socks
<1>2. CASE Accept
  <2>1. backlog # <<>> /\ Head(backlog) \in Clients /\ Tail(backlog) \in Seq(Clients)
      BY <1>2 DEF Accept, TypeOK, BatchInv
  <2>2. <<Head(backlog), "in">> \in Socks
      BY <2>1 DEF Socks
  <2>. QED BY <1>0, <1>2, <2>1, <2>2 DEF Accept, AddEpoll, TypeOK, BatchInv, worker, outside, setting
<1>3. CASE AcceptDropped
  <2>1. backlog # <<>> /\ Head(backlog) \in Clients /\ Tail(backlog) \in Seq(Clients)
      BY <1>3 DEF AcceptDropped, TypeOK, BatchInv
  <2>. QED BY <1>3, <2>1 DEF AcceptDropped, TypeOK, BatchInv, worker, setting
<1>4. ASSUME NEW s \in Socks, FindReady(s) PROVE TypeOK' /\ BatchInv'
    BY <1>4 DEF FindReady, Lookup, TypeOK, BatchInv, worker, net, outside, setting
<1>5. CASE CheckLeaveQueue
    BY <1>5 DEF CheckLeaveQueue, Die, Ends, TypeOK, BatchInv, worker, net, outside, setting
<1>6. CASE AddAndDispatch
  <2>1. Second \subseteq Socks
      BY DEF Second, TypeOK
  <2>2. epolled' \subseteq Socks /\ edges' \subseteq Socks
      BY <1>6, <2>1 DEF AddAndDispatch, AddEpoll, TypeOK
  <2>3. queued' \in [Socks -> Nat]
    <3>1. queued \in [Socks -> Nat]
        BY DEF TypeOK
    <3>2. queued' = [queued EXCEPT ![cur] = @ + 1]
        BY <1>6 DEF AddAndDispatch
    <3>3. ASSUME NEW n \in Nat PROVE n + 1 \in Nat
        OBVIOUS
    <3>4. CASE cur \in Socks
        BY <3>1, <3>2, <3>3, <3>4
    <3>5. CASE cur \notin Socks
        BY <3>1, <3>2, <3>5
    <3>. QED BY <3>4, <3>5
  <2>4. cur' \in Socks \cup {NULL} /\ found' \in Socks \cup {NULL} /\ main' = "wait"
      BY <1>6 DEF AddAndDispatch
  <2>5. UNCHANGED <<g_sock_map, g_leave_queue, g_mutex, batch, pc, job, buf, dst,
                    fd, backlog, recvq, sendq, link, outside, setting>>
      BY <1>6 DEF AddAndDispatch
  <2>. QED BY <2>2, <2>3, <2>4, <2>5 DEF TypeOK, BatchInv, outside, setting
<1>. QED BY <1>1, <1>2, <1>3, <1>4, <1>5, <1>6 DEF MainStep

\* A message appended to one queue, or taken from it.
LEMMA QueueTypes ==
    ASSUME NEW q \in [Socks -> Seq(Messages)], NEW s \in Socks
    PROVE  /\ \A m \in Messages : [q EXCEPT ![s] = Append(@, m)] \in [Socks -> Seq(Messages)]
           /\ q[s] # <<>> => /\ Head(q[s]) \in Messages
                             /\ [q EXCEPT ![s] = Tail(@)] \in [Socks -> Seq(Messages)]
           /\ [q EXCEPT ![s] = <<>>] \in [Socks -> Seq(Messages)]
<1>1. \A m \in Messages : Append(q[s], m) \in Seq(Messages)
    OBVIOUS
<1>2. q[s] # <<>> => Head(q[s]) \in Messages /\ Tail(q[s]) \in Seq(Messages)
    BY TailRange
<1>. QED BY <1>1, <1>2

LEMMA MsgType ==
    ASSUME NEW t \in Types \cup {"ok", "error"}, NEW c \in Clients \cup {NULL}, NEW n \in Nat
    PROVE  Msg(t, c, n) \in Messages
BY DEF Msg, Messages

LEMMA EdgeType == ASSUME TypeOK, NEW s \in Socks, Edge(s) PROVE edges' \subseteq Socks
BY DEF Edge, TypeOK

LEMMA WriteTypes ==
    ASSUME TypeOK, NEW s \in Socks, NEW m \in Messages, Write(s, m)
    PROVE  recvq' \in [Socks -> Seq(Messages)] /\ edges' \subseteq Socks
BY EdgeType, QueueTypes DEF Write, TypeOK

LEMMA InSock == \A c \in Clients : In(c) \in Socks
BY DEF In, Socks

LEMMA ClientKeepsTypes ==
    ASSUME TypeOK, BatchInv, NEW c \in Clients, ClientStep(c) \/ Kill(c)
    PROVE  TypeOK' /\ BatchInv'
<1>. DEFINE Places == {"start", "syn", "reply", "send", "echo", "fin", "close", "done"}
            Links == {"none", "open", "closed", "reset", "refused"}
<1>0. UNCHANGED <<server, worker, setting>>
    BY ClientFrame
<1>a. /\ In(c) \in Socks /\ <<c, "in">> = In(c)
      /\ \A l \in Places : ClientGoto(c, l) => client' \in [Clients -> Places]
    BY InSock DEF TypeOK, ClientGoto, In
<1>b. sendq \in [Socks -> Seq(Messages)] /\ link \in [Socks -> Links]
    BY DEF TypeOK
<1>1. CASE Connect(c)
  <2>1. backlog' \in Seq(Clients) /\ backlog' # <<>>
    <3>1. backlog \in Seq(Clients) /\ backlog' = Append(backlog, c)
        BY <1>1 DEF Connect, TypeOK
    <3>. QED BY <3>1, AppendProperties
  <2>2. link' = [link EXCEPT ![In(c)] = "open"] /\ ClientGoto(c, "syn")
      BY <1>1, <1>a DEF Connect
  <2>3. link' \in [Socks -> Links]
      BY <1>b, <2>2
  <2>4. client' \in [Clients -> Places]
      BY <1>a, <2>2
  <2>5. UNCHANGED <<server, worker, setting, fd, edges, recvq, sendq, got, peer>>
      BY <1>1 DEF Connect
  <2>. HIDE DEF Places, Links
  <2>. QED BY <2>1, <2>3, <2>4, <2>5 DEF TypeOK, BatchInv, server, worker, setting, Places, Links
<1>2. CASE SendSyn(c)
  <2>1. PICK type \in Types : Write(In(c), Msg(type, c, 0))
      BY <1>2, <1>a DEF SendSyn, Types, ServerTypes
  <2>2. Msg(type, c, 0) \in Messages
      BY MsgType
  <2>3. recvq' \in [Socks -> Seq(Messages)] /\ edges' \subseteq Socks
      BY <1>a, <2>1, <2>2, WriteTypes
  <2>. QED BY <1>0, <1>2, <1>a, <2>3 DEF SendSyn, TypeOK, BatchInv, server, worker, setting
<1>3. CASE RecvReply(c)
  <2>1. sendq' \in [Socks -> Seq(Messages)]
    <3>1. sendq[In(c)] # <<>> /\ sendq' = [sendq EXCEPT ![In(c)] = Tail(@)]
        BY <1>3, <1>a DEF RecvReply, Read
    <3>. QED BY <1>a, <1>b, <3>1, QueueTypes
  <2>2. client' \in [Clients -> Places]
      BY <1>3, <1>a DEF RecvReply, Enter
  <2>. QED BY <1>0, <1>3, <2>1, <2>2 DEF RecvReply, TypeOK, BatchInv, server, worker, setting
<1>4. CASE SendTxt(c)
  <2>1. Msg("trans", c, Len(got[c]) + 1) \in Messages
    <3>1. got[c] \in Seq(Messages)
        BY DEF TypeOK
    <3>2. Len(got[c]) + 1 \in Nat
        BY <3>1, LenProperties
    <3>. QED BY <3>2, MsgType DEF Types, ServerTypes
  <2>2. recvq' \in [Socks -> Seq(Messages)] /\ edges' \subseteq Socks
      BY <1>4, <1>a, <2>1, WriteTypes DEF SendTxt
  <2>. QED BY <1>0, <1>4, <1>a, <2>2 DEF SendTxt, TypeOK, BatchInv, server, worker, setting
<1>5. CASE RecvEcho(c)
  <2>1. sendq[In(c)] # <<>> => Head(sendq[In(c)]) \in Messages
      BY <1>a, <1>b, QueueTypes
  <2>2. sendq' \in [Socks -> Seq(Messages)]
    <3>1. sendq[In(c)] # <<>> /\ sendq' = [sendq EXCEPT ![In(c)] = Tail(@)]
        BY <1>5, <1>a DEF RecvEcho, Read
    <3>. QED BY <1>a, <1>b, <3>1, QueueTypes
  <2>3. got' \in [Clients -> Seq(Messages)]
    <3>1. got \in [Clients -> Seq(Messages)] /\ sendq[In(c)] # <<>>
          /\ got' = [got EXCEPT ![c] = Append(@, Head(sendq[In(c)]))]
        BY <1>5, <1>a DEF RecvEcho, TypeOK
    <3>2. Append(got[c], Head(sendq[In(c)])) \in Seq(Messages)
        BY <2>1, <3>1
    <3>. QED BY <3>1, <3>2
  <2>4. client' \in [Clients -> Places]
      BY <1>5, <1>a DEF RecvEcho, Enter
  <2>. QED BY <1>0, <1>5, <2>2, <2>3, <2>4 DEF RecvEcho, TypeOK, BatchInv, server, worker, setting
<1>6. CASE SendFin(c)
  <2>1. Msg("fins", c, 0) \in Messages
      BY MsgType DEF Types, ServerTypes
  <2>2. recvq' \in [Socks -> Seq(Messages)] /\ edges' \subseteq Socks
      BY <1>6, <1>a, <2>1, WriteTypes DEF SendFin
  <2>. QED BY <1>0, <1>6, <1>a, <2>2 DEF SendFin, TypeOK, BatchInv, server, worker, setting
<1>7. CASE HangUp(c)
  <2>1. sendq' \in [Socks -> Seq(Messages)] /\ edges' \subseteq Socks
    <3>1. sendq' = [sendq EXCEPT ![In(c)] = <<>>] /\ Edge(In(c))
        BY <1>7, <1>a DEF HangUp
    <3>. QED BY <1>a, <1>b, <3>1, QueueTypes, EdgeType
  <2>2. link' \in [Socks -> Links] /\ client' \in [Clients -> Places]
    <3>1. ClientGoto(c, "done") /\ \E l \in Links : link' = [link EXCEPT ![In(c)] = l]
        BY <1>7, <1>a DEF HangUp
    <3>. QED BY <1>a, <1>b, <3>1
  <2>3. UNCHANGED <<fd, backlog, recvq, got, peer>>
      BY <1>7 DEF HangUp
  <2>. QED BY <1>0, <2>1, <2>2, <2>3 DEF TypeOK, BatchInv, server, worker, setting
<1>. QED BY <1>1, <1>2, <1>3, <1>4, <1>5, <1>6, <1>7 DEF ClientStep, Close, Kill

LEMMA PeerTypes ==
    ASSUME TypeOK, BatchInv, PeerEcho
    PROVE  TypeOK' /\ BatchInv'
<1>0. UNCHANGED <<server, worker, setting>>
    BY ClientFrame
<1>. DEFINE s == Head(peer.conns)
<1>1. peer.conns # <<>> /\ peer.conns \in Seq(Socks) /\ peer.left \in 1 .. PeerLoops
    BY DEF PeerEcho, TypeOK
<1>2. s \in Socks /\ Tail(peer.conns) \in Seq(Socks)
    BY <1>1, TailRange
<1>3. Head(sendq[s]) \in Messages
    BY <1>2, QueueTypes DEF PeerEcho, TypeOK
<1>4. recvq' \in [Socks -> Seq(Messages)] /\ edges' \subseteq Socks
    BY <1>2, <1>3, WriteTypes DEF PeerEcho
<1>5. sendq' \in [Socks -> Seq(Messages)]
    BY <1>2, QueueTypes DEF PeerEcho, TypeOK
<1>6. peer' \in [conns : Seq(Socks), left : 1 .. PeerLoops]
  <2>1. PeerLoops \in Nat \ {0}
      BY NatAssumption DEF NatAssumption
  <2>2. CASE peer.left = 1
      BY <1>2, <2>1, <2>2 DEF PeerEcho
  <2>3. CASE peer.left # 1
    <3>1. peer.left - 1 \in 1 .. PeerLoops
        BY <1>1, <2>1, <2>3
    <3>2. peer' = [peer EXCEPT !.left = @ - 1]
        BY <2>3 DEF PeerEcho
    <3>. QED BY <3>1, <3>2 DEF TypeOK
  <2>. QED BY <2>2, <2>3
<1>. QED BY <1>0, <1>4, <1>5, <1>6 DEF PeerEcho, TypeOK, BatchInv, server, worker, setting

\* What the kernel does to one socket.
LEMMA KernelTypes ==
    ASSUME TypeOK, NEW s \in Socks
    PROVE  /\ Received(s) \in Messages \cup {NULL}
           /\ Consume(s) => recvq' \in [Socks -> Seq(Messages)]
           /\ \A m \in Messages : Deliver(s, m) =>
                 /\ sendq' \in [Socks -> Seq(Messages)] /\ edges' \subseteq Socks
                 /\ link' \in [Socks -> {"none", "open", "closed", "reset", "refused"}]
<1>1. recvq[s] # <<>> => Head(recvq[s]) \in Messages
    BY QueueTypes DEF TypeOK
<1>2. ASSUME Consume(s) PROVE recvq' \in [Socks -> Seq(Messages)]
  <2>1. CASE recvq[s] = <<>>
      BY <1>2, <2>1 DEF Consume, TypeOK
  <2>2. CASE recvq[s] # <<>>
    <3>1. Tail(recvq[s]) \in Seq(Messages)
        BY <2>2, TailRange DEF TypeOK
    <3>. QED BY <1>2, <2>2, <3>1 DEF Consume, TypeOK
  <2>. QED BY <2>1, <2>2
<1>3. ASSUME NEW m \in Messages, Deliver(s, m)
      PROVE  /\ sendq' \in [Socks -> Seq(Messages)] /\ edges' \subseteq Socks
             /\ link' \in [Socks -> {"none", "open", "closed", "reset", "refused"}]
  <2>1. CASE link[s] = "closed"
      BY <1>3, <2>1, EdgeType DEF Deliver, TypeOK
  <2>2. CASE link[s] # "closed"
    <3>1. sendq' = [sendq EXCEPT ![s] = Append(@, m)] /\ UNCHANGED <<link, edges>>
        BY <1>3, <2>2 DEF Deliver
    <3>. QED BY <3>1, QueueTypes DEF TypeOK
  <2>. QED BY <2>1, <2>2
<1>. QED BY <1>1, <1>2, <1>3 DEF Received

\* What a handler does to its own state.
LEMMA HandlerTypes ==
    ASSUME TypeOK, NEW w \in Workers
    PROVE  /\ \A l \in WorkerPlaces : Goto(w, l) => pc' \in [Workers -> WorkerPlaces]
           /\ Finish(w) => /\ pc' \in [Workers -> WorkerPlaces]
                           /\ job' \in [Workers -> Socks \cup {NULL}]
                           /\ buf' \in [Workers -> Messages \cup {NULL}]
                           /\ dst' \in [Workers -> Socks \cup {NULL}]
BY DEF TypeOK, Goto, Finish, WorkerPlaces

LEMMA OtherSock == \A s \in Socks : Other(s) \in Socks /\ Other(Other(s)) = s /\ Other(s) # s
BY DEF Socks, Other

\* What recv returns came from a client, or through the peer.
LEMMA ReceivedIs ==
    ASSUME TypeOK, RecvInv, NEW s \in Socks, Received(s) # NULL
    PROVE  /\ recvq[s] # <<>> /\ Received(s) = Head(recvq[s]) /\ Received(s) \in Messages
           /\ Received(s).owner \in {s[1], NULL} /\ Known(Received(s))
           /\ Received(s).type \in Types \cup {"error"}
           /\ OwnSyn(Received(s)) => s[2] = "in"
<1>1. recvq[s] # <<>> /\ Received(s) = Head(recvq[s])
    BY DEF Received
<1>2. recvq[s] \in Seq(Messages)
    BY DEF TypeOK
<1>3. Received(s) = recvq[s][1] /\ Received(s) \in Messages /\ 1 \in 1 .. Len(recvq[s])
    BY <1>1, <1>2
<1>. QED BY <1>1, <1>3 DEF RecvInv, Known

\* Where a handler begins.
Starts == {"ack_recv", "trans_find", "fin_recv", "syn_encrypt", "txt_send", "finc_send"}

LEMMA FactoryIs ==
    ASSUME TypeOK, RecvInv, NEW w \in Workers, NEW s \in Socks, NEW h \in Socks, Factory(w, s, h)
    PROVE  /\ UNCHANGED <<server, buf, dst, net, outside, setting>>
           /\ pc[w] = "idle"
           /\ \/ UNCHANGED <<pc, job>>
              \/ /\ \E l \in Starts : Goto(w, l) /\ (l \in JunkPlaces => "junk" \in env.faults)
                 /\ job' = [job EXCEPT ![w] = s]
<1>. DEFINE type == IF Received(h) = NULL THEN "none" ELSE Received(h).type
<1>1. /\ type \in Types \cup {"error"}
      /\ type \in ClientTypes => "junk" \in env.faults
    BY ReceivedIs DEF Known, Types, ServerTypes, ClientTypes
<1>2. UNCHANGED <<server, buf, dst, net, outside, setting>> /\ pc[w] = "idle"
    BY DEF Factory
<1>3. CASE type \in {"none", "error"}
    BY <1>2, <1>3 DEF Factory
<1>4. CASE type \in {"ack", "trans", "fins"}
  <2>1. job' = [job EXCEPT ![w] = s]
      BY <1>4 DEF Factory
  <2>2. \E l \in {"ack_recv", "trans_find", "fin_recv"} : Goto(w, l)
      BY <1>4 DEF Factory
  <2>. QED BY <1>2, <2>1, <2>2 DEF Starts, JunkPlaces
<1>5. CASE type \in ClientTypes
  <2>1. job' = [job EXCEPT ![w] = s]
      BY <1>5 DEF Factory, ClientTypes
  <2>2. \E l \in {"syn_encrypt", "txt_send", "finc_send"} : Goto(w, l)
      BY <1>5 DEF Factory, ClientTypes
  <2>. QED BY <1>1, <1>2, <1>5, <2>1, <2>2 DEF Starts
<1>. QED BY <1>1, <1>3, <1>4, <1>5 DEF Types, ServerTypes

LEMMA OneLess ==
    ASSUME NEW q \in [Socks -> Nat], NEW s \in Socks, q[s] > 0
    PROVE  [q EXCEPT ![s] = @ - 1] \in [Socks -> Nat]
<1>1. q[s] - 1 \in Nat
    OBVIOUS
<1>. QED BY <1>1

LEMMA TakeTypes ==
    ASSUME TypeOK, BatchInv, RecvInv, NEW w \in Workers, NEW s \in Socks, NEW h \in Socks,
           Take(w, s) \/ TakeMixed(w, s, h)
    PROVE  TypeOK' /\ BatchInv'
<1>1. PICK g \in Socks : Factory(w, s, g)
    BY DEF Take, TakeMixed
<1>2. queued' \in [Socks -> Nat]
  <2>1. queued \in [Socks -> Nat]
      BY DEF TypeOK
  <2>2. CASE Take(w, s)
      BY <2>1, <2>2, OneLess DEF Take
  <2>3. CASE TakeMixed(w, s, h)
    <3>. DEFINE q == [queued EXCEPT ![s] = @ - 1]
    <3>1. s # h /\ queued[s] > 0 /\ queued[h] > 0 /\ queued' = [q EXCEPT ![h] = @ - 1]
        BY <2>3 DEF TakeMixed
    <3>2. q \in [Socks -> Nat]
        BY <2>1, <3>1, OneLess
    <3>3. q[h] = queued[h]
        BY <2>1, <3>1
    <3>. HIDE DEF q
    <3>. QED BY <3>1, <3>2, <3>3, OneLess
  <2>. QED BY <2>2, <2>3
<1>3. pc' \in [Workers -> WorkerPlaces] /\ job' \in [Workers -> Socks \cup {NULL}]
  <2>1. CASE UNCHANGED <<pc, job>>
      BY <2>1 DEF TypeOK
  <2>2. CASE (\E l \in Starts : Goto(w, l)) /\ job' = [job EXCEPT ![w] = s]
    <3>1. Starts \subseteq WorkerPlaces
        BY DEF WorkerPlaces, Starts
    <3>2. pc' \in [Workers -> WorkerPlaces]
        BY <2>2, <3>1, HandlerTypes
    <3>. QED BY <2>2, <3>2 DEF TypeOK
  <2>. QED BY <1>1, <2>1, <2>2, FactoryIs
<1>4. UNCHANGED <<server, buf, dst, net, outside, setting>>
    BY <1>1, FactoryIs
<1>. QED BY <1>2, <1>3, <1>4 DEF TypeOK, BatchInv, server, net, outside, setting

LEMMA StopTypes == TypeOK /\ BatchInv /\ Stops => TypeOK' /\ BatchInv'
BY DEF Stops, Die, Stray, Ends, TypeOK, BatchInv, worker, net, outside, setting

LEMMA AckTypes ==
    ASSUME TypeOK, BatchInv, RecvInv, JobInv, NEW w \in Workers,
           \/ AckRecv(w) \/ AckDecrypt(w) \/ AckConnect(w) \/ AckInsert(w) \/ AckInsertBack(w)
           \/ AckReply(w)
    PROVE  TypeOK' /\ BatchInv'
<1>a. /\ pc[w] # "idle" => job[w] \in Socks /\ Other(job[w]) \in Socks /\ job[w][1] \in Clients
      /\ \A l \in WorkerPlaces : Goto(w, l) => pc' \in [Workers -> WorkerPlaces]
      /\ dst[w] \in Socks \cup {NULL} /\ job[w] \in Socks \cup {NULL}
      /\ NextFd \in Nat
    BY HandlerTypes, OtherSock, NextFdNat DEF JobInv, TypeOK, Socks
<1>1. CASE AckRecv(w)
  <2>1. CASE Die
      BY <2>1, StopTypes DEF Stops
  <2>2. CASE ~ Die
    <3>. DEFINE m == Received(job[w])
    <3>1. m # NULL /\ pc[w] = "ack_recv" /\ Consume(job[w])
          /\ buf' = [buf EXCEPT ![w] = m] /\ Goto(w, "ack_decrypt")
          /\ UNCHANGED <<server, queued, job, dst, fd, backlog, edges, sendq, link, outside, setting>>
        BY <1>1, <2>2 DEF AckRecv
    <3>2. m \in Messages /\ recvq' \in [Socks -> Seq(Messages)]
        BY <1>a, <3>1, KernelTypes
    <3>3. buf' \in [Workers -> Messages \cup {NULL}] /\ pc' \in [Workers -> WorkerPlaces]
        BY <1>a, <3>1, <3>2 DEF TypeOK, WorkerPlaces
    <3>. QED BY <3>1, <3>2, <3>3 DEF TypeOK, BatchInv, server, outside, setting
  <2>. QED BY <2>1, <2>2
<1>2. CASE AckDecrypt(w)
  <2>1. pc' \in [Workers -> WorkerPlaces]
      BY <1>2, <1>a DEF AckDecrypt, WorkerPlaces
  <2>2. UNCHANGED <<server, queued, job, buf, dst, net, outside, setting>>
      BY <1>2 DEF AckDecrypt
  <2>. QED BY <2>1, <2>2 DEF TypeOK, BatchInv, server, net, outside, setting
<1>3. CASE AckConnect(w)
  <2>. DEFINE out == Other(job[w])
  <2>1. out \in Socks
      BY <1>3, <1>a DEF AckConnect
  <2>2. /\ fd' = [fd EXCEPT ![out] = NextFd] /\ dst' = [dst EXCEPT ![w] = out] /\ Goto(w, "ack_insert")
        /\ \/ link' = [link EXCEPT ![out] = "open"] /\ peer' = [peer EXCEPT !.conns = Append(@, out)]
           \/ link' = [link EXCEPT ![out] = "refused"] /\ UNCHANGED peer
        /\ UNCHANGED <<server, queued, job, buf, backlog, edges, recvq, sendq, client, got, setting>>
      BY <1>3 DEF AckConnect
  <2>. HIDE DEF out
  <2>3. pc' \in [Workers -> WorkerPlaces]
      BY <1>a, <2>2 DEF WorkerPlaces
  <2>4. fd' \in [Socks -> Nat] /\ dst' \in [Workers -> Socks \cup {NULL}]
        /\ link' \in [Socks -> {"none", "open", "closed", "reset", "refused"}]
      BY <1>a, <2>1, <2>2 DEF TypeOK
  <2>5. peer' \in [conns : Seq(Socks), left : 1 .. PeerLoops]
    <3>1. Append(peer.conns, out) \in Seq(Socks)
        BY <2>1 DEF TypeOK
    <3>. QED BY <2>2, <3>1 DEF TypeOK
  <2>. QED BY <2>2, <2>3, <2>4, <2>5 DEF TypeOK, BatchInv, server, setting
<1>4. CASE AckInsert(w)
  <2>1. pc' \in [Workers -> WorkerPlaces] /\ g_mutex' \in Workers \cup {NULL}
        /\ g_sock_map' \in [Socks -> Socks \cup {NULL}]
      BY <1>4, <1>a DEF AckInsert, TypeOK, WorkerPlaces
  <2>. QED BY <1>4, <2>1 DEF AckInsert, TypeOK, BatchInv, net, outside, setting
<1>5. CASE AckInsertBack(w)
  <2>1. pc' \in [Workers -> WorkerPlaces] /\ g_mutex' \in Workers \cup {NULL}
        /\ g_sock_map' \in [Socks -> Socks \cup {NULL}]
      BY <1>5, <1>a DEF AckInsertBack, TypeOK, WorkerPlaces
  <2>. QED BY <1>5, <2>1 DEF AckInsertBack, TypeOK, BatchInv, net, outside, setting
<1>6. CASE AckReply(w)
  <2>1. PICK type \in {"ok", "error"} : Deliver(job[w], Msg(type, job[w][1], 0))
      BY <1>6 DEF AckReply
  <2>2. Msg(type, job[w][1], 0) \in Messages /\ job[w] \in Socks
      BY <1>6, <1>a, MsgType DEF AckReply
  <2>3. /\ sendq' \in [Socks -> Seq(Messages)] /\ edges' \subseteq Socks
        /\ link' \in [Socks -> {"none", "open", "closed", "reset", "refused"}]
      BY <2>1, <2>2, KernelTypes
  <2>4. Finish(w) /\ UNCHANGED <<server, queued, fd, backlog, recvq, outside, setting>>
      BY <1>6 DEF AckReply
  <2>. QED BY <2>3, <2>4, HandlerTypes DEF TypeOK, BatchInv, server, outside, setting
<1>. QED BY <1>1, <1>2, <1>3, <1>4, <1>5, <1>6

\* What recv leaves on the stack of splice_sock is nobody's message.
LEMMA GarbageIs ==
    ASSUME NEW m \in Garbage
    PROVE  m \in Messages /\ m.owner = NULL /\ Known(m) /\ ~ OwnSyn(m) /\ m.n = 0
<1>1. PICK t \in Types : /\ m = Msg(t, NULL, 0)
                         /\ t \in ServerTypes \/ "junk" \in env.faults
    BY DEF Garbage, Types
<1>2. m \in Messages
    BY <1>1, MsgType
<1>3. Known(m)
    BY <1>1 DEF Known, Msg, Sealed, Types, ServerTypes, ClientTypes
<1>. QED BY <1>1, <1>2, <1>3 DEF Msg, OwnSyn

\* What the handlers that are meant for a client send back.
Backs == {Sealed, Msg("trans", NULL, 0), Msg("fins", NULL, 0)}

LEMMA BackIs ==
    ASSUME NEW m \in Backs
    PROVE  /\ m \in Messages /\ m.owner = NULL /\ m.type \in ServerTypes /\ ~ OwnSyn(m)
           /\ "junk" \in env.faults => Known(m)
<1>1. m \in Messages
    BY MsgType DEF Backs, Sealed, Types, ServerTypes
<1>2. m.owner = NULL /\ m.type \in ServerTypes \ ClientTypes
    BY DEF Backs, Sealed, Msg, ServerTypes, ClientTypes
<1>. QED BY <1>1, <1>2 DEF Known, OwnSyn, Types

LEMMA BackSends ==
    ASSUME JobInv, NEW w \in Workers, SendBack(w) \/ FincSend(w)
    PROVE  /\ pc[w] \in {"syn_send", "txt_send", "finc_send"} /\ "junk" \in env.faults
           /\ job[w] \in Socks /\ \E m \in Backs : Deliver(job[w], m)
           /\ Finish(w) \/ (Goto(w, "finc_close") /\ UNCHANGED <<job, buf, dst>>)
           /\ UNCHANGED <<server, queued, fd, backlog, recvq, outside, setting>>
<1>1. CASE SendBack(w)
    BY <1>1 DEF SendBack, Backs, JobInv, JunkPlaces
<1>2. CASE FincSend(w)
    BY <1>2 DEF FincSend, Backs, JobInv, JunkPlaces
<1>. QED BY <1>1, <1>2

LEMMA TransTypes ==
    ASSUME TypeOK, BatchInv, RecvInv, JobInv, TransInv, NEW w \in Workers,
           TransFind(w) \/ TransRead(w) \/ TransRecv(w) \/ TransSend(w)
    PROVE  TypeOK' /\ BatchInv'
<1>a. /\ pc[w] # "idle" => job[w] \in Socks /\ Other(job[w]) \in Socks
      /\ \A l \in WorkerPlaces : Goto(w, l) => pc' \in [Workers -> WorkerPlaces]
    BY HandlerTypes, OtherSock DEF JobInv
<1>1. CASE TransFind(w)
  <2>1. PICK s \in Lookup(job[w]) : IF s = NULL THEN Finish(w)
          ELSE dst' = [dst EXCEPT ![w] = s] /\ Goto(w, "trans_read") /\ UNCHANGED <<job, buf>>
      BY <1>1 DEF TransFind
  <2>2. s \in Socks \cup {NULL}
      BY <1>1, <1>a DEF TransFind, Lookup, TypeOK
  <2>3. /\ pc' \in [Workers -> WorkerPlaces] /\ job' \in [Workers -> Socks \cup {NULL}]
        /\ buf' \in [Workers -> Messages \cup {NULL}] /\ dst' \in [Workers -> Socks \cup {NULL}]
      BY <1>a, <2>1, <2>2, HandlerTypes DEF TypeOK, WorkerPlaces
  <2>4. UNCHANGED <<server, queued, net, outside, setting>>
      BY <1>1 DEF TransFind
  <2>. QED BY <2>3, <2>4 DEF TypeOK, BatchInv, server, net, outside, setting
<1>2. CASE TransRecv(w)
  <2>0. Garbage \subseteq Messages
      BY GarbageIs
  <2>1. Received(job[w]) \in Messages \cup {NULL} /\ recvq' \in [Socks -> Seq(Messages)]
      BY <1>2, <1>a, KernelTypes DEF TransRecv
  <2>2. \/ Finish(w)
        \/ \E m \in Messages : buf' = [buf EXCEPT ![w] = m] /\ Goto(w, "trans_send") /\ UNCHANGED <<job, dst>>
      BY <1>2, <2>0, <2>1 DEF TransRecv
  <2>3. /\ pc' \in [Workers -> WorkerPlaces] /\ job' \in [Workers -> Socks \cup {NULL}]
        /\ buf' \in [Workers -> Messages \cup {NULL}] /\ dst' \in [Workers -> Socks \cup {NULL}]
    <3>1. CASE Finish(w)
        BY <3>1, HandlerTypes
    <3>2. CASE \E m \in Messages : /\ buf' = [buf EXCEPT ![w] = m]
                                   /\ Goto(w, "trans_send") /\ UNCHANGED <<job, dst>>
      <4>1. pc' \in [Workers -> WorkerPlaces]
          BY <1>a, <3>2 DEF WorkerPlaces
      <4>2. buf \in [Workers -> Messages \cup {NULL}] /\ job' = job /\ dst' = dst
          BY <3>2 DEF TypeOK
      <4>3. buf' \in [Workers -> Messages \cup {NULL}]
          BY <3>2, <4>2
      <4>. QED BY <4>1, <4>2, <4>3 DEF TypeOK
    <3>. QED BY <2>2, <3>1, <3>2
  <2>4. UNCHANGED <<server, queued, fd, backlog, edges, sendq, link, outside, setting>>
      BY <1>2 DEF TransRecv
  <2>. QED BY <2>1, <2>3, <2>4 DEF TypeOK, BatchInv, server, outside, setting
<1>3. CASE TransSend(w)
  <2>1. dst[w] \in Socks /\ buf[w] \in Messages /\ Deliver(dst[w], buf[w])
      BY <1>3, <1>a DEF TransSend, TransInv, TransOf
  <2>3. /\ sendq' \in [Socks -> Seq(Messages)] /\ edges' \subseteq Socks
        /\ link' \in [Socks -> {"none", "open", "closed", "reset", "refused"}]
      BY <2>1, KernelTypes
  <2>4. Finish(w) /\ UNCHANGED <<server, queued, fd, backlog, recvq, outside, setting>>
      BY <1>3 DEF TransSend
  <2>. QED BY <2>3, <2>4, HandlerTypes DEF TypeOK, BatchInv, server, outside, setting
<1>4. CASE TransRead(w)
  <2>1. Goto(w, "trans_recv") /\ UNCHANGED <<server, queued, job, buf, dst, net, outside, setting>>
      BY <1>4 DEF TransRead
  <2>2. pc' \in [Workers -> WorkerPlaces]
      BY <1>a, <2>1 DEF WorkerPlaces
  <2>. QED BY <2>1, <2>2 DEF TypeOK, BatchInv, server, net, outside, setting
<1>. QED BY <1>1, <1>2, <1>3, <1>4

LEMMA BackTypes ==
    ASSUME TypeOK, BatchInv, JobInv, NEW w \in Workers,
           SynEncrypt(w) \/ SendBack(w) \/ FincSend(w)
    PROVE  TypeOK' /\ BatchInv'
<1>1. CASE SynEncrypt(w)
  <2>1. pc' \in [Workers -> WorkerPlaces]
      BY <1>1, HandlerTypes DEF SynEncrypt, WorkerPlaces
  <2>. QED BY <1>1, <2>1 DEF SynEncrypt, TypeOK, BatchInv, server, net, outside, setting
<1>2. CASE SendBack(w) \/ FincSend(w)
  <2>1. PICK m \in Backs : Deliver(job[w], m)
      BY <1>2, BackSends
  <2>2. /\ sendq' \in [Socks -> Seq(Messages)] /\ edges' \subseteq Socks
        /\ link' \in [Socks -> {"none", "open", "closed", "reset", "refused"}]
      BY <1>2, <2>1, BackIs, BackSends, KernelTypes
  <2>3. /\ pc' \in [Workers -> WorkerPlaces] /\ job' \in [Workers -> Socks \cup {NULL}]
        /\ buf' \in [Workers -> Messages \cup {NULL}] /\ dst' \in [Workers -> Socks \cup {NULL}]
    <3>1. CASE Finish(w)
        BY <3>1, HandlerTypes
    <3>2. CASE Goto(w, "finc_close") /\ UNCHANGED <<job, buf, dst>>
        BY <3>2, HandlerTypes DEF TypeOK, WorkerPlaces
    <3>. QED BY <1>2, <3>1, <3>2, BackSends
  <2>4. UNCHANGED <<server, queued, fd, backlog, recvq, outside, setting>>
      BY <1>2, BackSends
  <2>. QED BY <2>2, <2>3, <2>4 DEF TypeOK, BatchInv, server, outside, setting
<1>. QED BY <1>1, <1>2

\* No socket has the number that end() seems to have: nothing is erased by it.
LEMMA NothingPastEnd ==
    ASSUME TypeOK
    PROVE  [s \in Socks |-> IF s \in Mapped(PastEnd) THEN NULL ELSE g_sock_map[s]] = g_sock_map
BY DEF Mapped, PastEnd, TypeOK

LEMMA FinTypes ==
    ASSUME TypeOK, BatchInv, JobInv, MapInv, NEW w \in Workers,
           FinRecv(w) \/ FinQueue(w) \/ FinErase(w)
    PROVE  TypeOK' /\ BatchInv'
<1>a. /\ pc[w] # "idle" => job[w] \in Socks
      /\ \A l \in WorkerPlaces : Goto(w, l) => pc' \in [Workers -> WorkerPlaces]
    BY HandlerTypes DEF JobInv
<1>1. CASE FinRecv(w)
  <2>1. Received(job[w]) \in Messages \cup {NULL} /\ recvq' \in [Socks -> Seq(Messages)]
      BY <1>1, <1>a, KernelTypes DEF FinRecv
  <2>2. buf' \in [Workers -> Messages \cup {NULL}] /\ pc' \in [Workers -> WorkerPlaces]
      BY <1>1, <1>a, <2>1 DEF FinRecv, TypeOK, WorkerPlaces
  <2>. QED BY <1>1, <2>1, <2>2 DEF FinRecv, TypeOK, BatchInv, server, outside, setting
<1>2. CASE FinQueue(w)
  <2>0. UNCHANGED <<g_sock_map, epolled, batch, main, cur, found, queued, net, outside, setting>>
      BY <1>2, NothingPastEnd DEF FinQueue
  <2>1. CASE Finish(w) /\ UNCHANGED <<g_mutex, g_leave_queue>>
      BY <2>0, <2>1, HandlerTypes DEF TypeOK, BatchInv, net, outside, setting
  <2>2. ASSUME NEW s \in Socks, g_sock_map[s] # NULL,
               g_leave_queue' = g_leave_queue \o <<s, g_sock_map[s]>>,
               dst' = [dst EXCEPT ![w] = s], g_mutex' = w, Goto(w, "fin_erase"), UNCHANGED <<job, buf>>
        PROVE  TypeOK' /\ BatchInv'
    <3>1. g_leave_queue' \in Seq(Socks)
        BY <2>2, PushRange DEF TypeOK
    <3>2. pc' \in [Workers -> WorkerPlaces] /\ dst' \in [Workers -> Socks \cup {NULL}]
        BY <1>a, <2>2 DEF TypeOK, WorkerPlaces
    <3>. QED BY <2>0, <2>2, <3>1, <3>2 DEF TypeOK, BatchInv, net, outside, setting
  <2>. QED BY <1>2, <2>1, <2>2 DEF FinQueue, Mapped
<1>3. CASE FinErase(w)
  <2>1. Finish(w) /\ UNCHANGED <<g_leave_queue, epolled, batch, main, cur, found, queued, net, outside, setting>>
        /\ g_mutex' = NULL
      BY <1>3 DEF FinErase
  <2>2. g_sock_map' \in [Socks -> Socks \cup {NULL}]
      BY <1>3 DEF FinErase, TypeOK
  <2>. QED BY <2>1, <2>2, HandlerTypes DEF TypeOK, BatchInv, net, outside, setting
<1>. QED BY <1>1, <1>2, <1>3

\* g_sock_map and g_leave_queue are changed by these four steps alone.
LEMMA MapFrame ==
    ASSUME TypeOK, RecvInv, Next,
           \A w \in Workers : ~ (AckInsert(w) \/ AckInsertBack(w) \/ FinQueue(w) \/ FinErase(w))
    PROVE  UNCHANGED <<g_sock_map, g_leave_queue, g_mutex, setting>>
<1>1. CASE MainStep
    BY <1>1, MainFrame
<1>2. CASE (\E c \in Clients : ClientStep(c) \/ Kill(c)) \/ PeerEcho
    BY <1>2, ClientFrame DEF server
<1>3. CASE Stops
    BY <1>3, StopFrame
<1>4. ASSUME NEW w \in Workers, NEW s \in Socks, NEW h \in Socks, Take(w, s) \/ TakeMixed(w, s, h)
      PROVE  UNCHANGED <<server, setting>>
    BY <1>4, FactoryIs DEF Take, TakeMixed
<1>5. ASSUME NEW w \in Workers,
             \/ AckRecv(w) \/ AckDecrypt(w) \/ AckConnect(w) \/ AckReply(w)
             \/ TransFind(w) \/ TransRead(w) \/ TransRecv(w) \/ TransSend(w) \/ FinRecv(w)
      PROVE  UNCHANGED <<g_sock_map, g_leave_queue, g_mutex, setting>>
    BY <1>5, StopFrame DEF AckRecv, AckDecrypt, AckConnect, AckReply, TransFind, TransRead, TransRecv,
                           TransSend, FinRecv, server, Stops
<1>6. ASSUME NEW w \in Workers, SynEncrypt(w) \/ SendBack(w) \/ FincSend(w)
      PROVE  UNCHANGED <<server, setting>>
    BY <1>6 DEF SynEncrypt, SendBack, FincSend
<1>. QED BY <1>1, <1>2, <1>3, <1>4, <1>5, <1>6, Steps DEF server

LEMMA NextSetting == ASSUME TypeOK, RecvInv, Next PROVE UNCHANGED <<g_allow_map, env>>
<1>1. ASSUME NEW w \in Workers, AckInsert(w) \/ AckInsertBack(w) \/ FinQueue(w) \/ FinErase(w)
      PROVE  UNCHANGED <<g_allow_map, env>>
    BY <1>1 DEF AckInsert, AckInsertBack, FinQueue, FinErase, setting
<1>. QED BY <1>1, MapFrame DEF setting

LEMMA NullIsNone == NULL \notin Clients /\ NULL \notin Socks /\ NULL \notin Workers
BY NatAssumption DEF NatAssumption, Socks

(* What the steps do to the messages that wait to be received. *)

\* A SYN that was received is not received again, and no client begins anew.
Forward == \A c \in Clients : ~ Pending(c) => ~ Pending(c)'
Later == \A c \in Clients : client'[c] \in {"start", "syn"} => client[c] \in {"start", "syn"}

LEMMA ConsumeStep ==
    ASSUME TypeOK, RecvInv, NEW s \in Socks, Consume(s), UNCHANGED <<client, env>>
    PROVE  /\ RecvInv' /\ Forward
           /\ s[2] = "in" /\ recvq[s] # <<>> => ~ Pending(s[1])'
<1>0. recvq \in [Socks -> Seq(Messages)]
    BY DEF TypeOK
<1>1. CASE recvq[s] = <<>>
  <2>1. recvq' = recvq
      BY <1>0, <1>1 DEF Consume
  <2>. QED BY <1>1, <2>1 DEF RecvInv, Forward, Pending, Known, OwnSyn
<1>2. CASE recvq[s] # <<>>
  <2>. DEFINE q == Tail(recvq[s])
  <2>1. /\ q \in Seq(Messages) /\ Len(q) = Len(recvq[s]) - 1 /\ Len(recvq[s]) \in Nat
        /\ \A i \in 1 .. Len(q) : q[i] = recvq[s][i + 1]
      BY <1>0, <1>2, TailRange
  <2>2. recvq' = [recvq EXCEPT ![s] = q]
      BY <1>0, <1>2 DEF Consume
  <2>. HIDE DEF q
  <2>3. \A i \in 1 .. Len(q) : i + 1 \in 1 .. Len(recvq[s]) /\ i + 1 # 1
      BY <2>1
  <2>4. \A i \in 1 .. Len(q) :
            q[i].owner \in {s[1], NULL} /\ Known(q[i]) /\ ~ OwnSyn(q[i])
      BY <2>1, <2>3 DEF RecvInv
  <2>5. q # <<>> => ~ OwnSyn(Head(q))
    <3>1. q # <<>> => Head(q) = q[1] /\ 1 \in 1 .. Len(q)
        BY <2>1
    <3>. QED BY <2>4, <3>1
  <2>6. \A r \in Socks : recvq'[r] = IF r = s THEN q ELSE recvq[r]
      BY <1>0, <2>2
  <2>7. \A c \in Clients : client[c] \in {"start", "syn"} => In(c) # s
      BY <1>2 DEF RecvInv
  <2>8. RecvInv'
    <3>1. ASSUME NEW r \in Socks, NEW i \in 1 .. Len(recvq'[r])
          PROVE  /\ recvq'[r][i].owner \in {r[1], NULL} /\ Known(recvq'[r][i])
                 /\ OwnSyn(recvq'[r][i]) => i = 1 /\ r[2] = "in"
        BY <2>4, <2>6, <3>1 DEF RecvInv
    <3>2. \A c \in Clients : client'[c] \in {"start", "syn"} => recvq'[In(c)] = <<>>
        BY <2>6, <2>7, InSock DEF RecvInv
    <3>. QED BY <3>1, <3>2 DEF RecvInv, OwnSyn, Known
  <2>9. Forward
      BY <2>5, <2>6, InSock DEF Forward, Pending, OwnSyn
  <2>10. s[2] = "in" => s[1] \in Clients /\ In(s[1]) = s
      BY DEF In, Socks
  <2>11. s[2] = "in" => ~ Pending(s[1])'
      BY <2>5, <2>6, <2>7, <2>10 DEF Pending, OwnSyn
  <2>. QED BY <2>8, <2>9, <2>11
<1>. QED BY <1>1, <1>2

LEMMA WriteStep ==
    ASSUME TypeOK, RecvInv, Later, NEW s \in Socks, NEW m \in Messages, Write(s, m),
           m.owner \in {s[1], NULL}, Known(m), UNCHANGED env,
           OwnSyn(m) => s[2] = "in" /\ Pending(s[1]) /\ recvq[s] = <<>>,
           \A c \in Clients : s = In(c) => client'[c] \notin {"start", "syn"}
    PROVE  RecvInv' /\ Forward
<1>0. recvq \in [Socks -> Seq(Messages)]
    BY DEF TypeOK
<1>. DEFINE q == Append(recvq[s], m)
<1>1. /\ q \in Seq(Messages) /\ Len(q) = Len(recvq[s]) + 1 /\ q[Len(q)] = m
      /\ Len(recvq[s]) \in Nat /\ \A i \in 1 .. Len(recvq[s]) : q[i] = recvq[s][i]
    BY <1>0
<1>2. \A r \in Socks : recvq'[r] = IF r = s THEN q ELSE recvq[r]
    BY <1>0 DEF Write
<1>4. recvq[s] = <<>> <=> Len(recvq[s]) = 0
    BY <1>0
<1>. HIDE DEF q
<1>3. q # <<>> /\ Head(q) = IF recvq[s] = <<>> THEN m ELSE Head(recvq[s])
  <2>1. q # <<>> /\ Head(q) = q[1]
      BY <1>1
  <2>2. CASE recvq[s] = <<>>
      BY <1>1, <1>4, <2>1, <2>2
  <2>3. CASE recvq[s] # <<>>
    <3>1. 1 \in 1 .. Len(recvq[s]) /\ Head(recvq[s]) = recvq[s][1]
        BY <1>0, <1>1, <1>4, <2>3
    <3>. QED BY <1>1, <2>1, <2>3, <3>1
  <2>. QED BY <2>2, <2>3
<1>5. \A i \in 1 .. Len(q) : i \in 1 .. Len(recvq[s]) \/ (i = Len(q) /\ q[i] = m)
    BY <1>1
<1>6. \A i \in 1 .. Len(q) :
          /\ q[i].owner \in {s[1], NULL} /\ Known(q[i])
          /\ OwnSyn(q[i]) => i = 1 /\ s[2] = "in"
    BY <1>1, <1>4, <1>5 DEF RecvInv
<1>7. RecvInv'
  <2>1. ASSUME NEW r \in Socks, NEW i \in 1 .. Len(recvq'[r])
        PROVE  /\ recvq'[r][i].owner \in {r[1], NULL} /\ Known(recvq'[r][i])
               /\ OwnSyn(recvq'[r][i]) => i = 1 /\ r[2] = "in"
      BY <1>2, <1>6, <2>1 DEF RecvInv
  <2>2. \A c \in Clients : client'[c] \in {"start", "syn"} => recvq'[In(c)] = <<>>
      BY <1>2, InSock DEF RecvInv, Later
  <2>. QED BY <2>1, <2>2 DEF RecvInv, OwnSyn, Known
<1>8. \A c \in Clients : s = In(c) => s[1] = c
    BY DEF In
<1>9. Forward
  <2>. SUFFICES ASSUME NEW c \in Clients, ~ Pending(c) PROVE ~ Pending(c)'
      BY DEF Forward
  <2>1. client'[c] \notin {"start", "syn"}
      BY DEF Later, Pending
  <2>2. CASE s # In(c)
      BY <1>2, <2>1, <2>2, InSock DEF Pending, OwnSyn
  <2>3. CASE s = In(c)
    <3>1. recvq'[In(c)] = q
        BY <1>2, <2>3, InSock
    <3>2. ~ OwnSyn(Head(q))
        BY <1>3, <1>8, <2>3 DEF Pending
    <3>. QED BY <2>1, <3>1, <3>2 DEF Pending, OwnSyn
  <2>. QED BY <2>2, <2>3
<1>. QED BY <1>7, <1>9

\* Nothing is written or consumed.
LEMMA StillStep ==
    ASSUME TypeOK, RecvInv, Later, UNCHANGED <<recvq, env>>
    PROVE  RecvInv' /\ Forward
BY DEF RecvInv, Forward, Later, Pending, OwnSyn, Known

LEMMA ClientLater ==
    ASSUME TypeOK, NEW c \in Clients, ClientStep(c) \/ Kill(c)
    PROVE  Later
BY DEF Later, TypeOK, ClientStep, Kill, Close, Connect, SendSyn, RecvReply, SendTxt, RecvEcho, SendFin,
       HangUp, ClientGoto, Enter

LEMMA ClientRecv ==
    ASSUME TypeOK, RecvInv, NEW c \in Clients, ClientStep(c) \/ Kill(c)
    PROVE  RecvInv' /\ Forward
<1>0. Later /\ UNCHANGED env
    BY ClientLater, ClientFrame DEF setting
<1>1. In(c) \in Socks /\ In(c) = <<c, "in">> /\ In(c)[1] = c /\ In(c)[2] = "in"
    BY InSock DEF In
<1>2. \A d \in Clients : In(c) = In(d) => d = c
    BY DEF In
<1>3. CASE SendSyn(c)
  <2>1. PICK type \in {"ack", "none"} : Write(In(c), Msg(type, c, 0))
      BY <1>1, <1>3 DEF SendSyn
  <2>2. Msg(type, c, 0) \in Messages /\ Msg(type, c, 0).owner = c /\ Msg(type, c, 0).n = 0
      /\ Msg(type, c, 0).type = type
      BY MsgType DEF Msg, Types, ServerTypes
  <2>6. Known(Msg(type, c, 0))
      BY <2>2, NullIsNone DEF Known, Types, ServerTypes, ClientTypes, Sealed, Msg
  <2>3. client' = [client EXCEPT ![c] = "reply"] /\ client[c] = "syn"
      BY <1>3 DEF SendSyn, ClientGoto
  <2>4. Pending(c) /\ recvq[In(c)] = <<>>
      BY <2>3 DEF Pending, RecvInv
  <2>5. \A d \in Clients : In(c) = In(d) => client'[d] \notin {"start", "syn"}
      BY <1>2, <2>3 DEF TypeOK
  <2>. HIDE DEF Write
  <2>. QED BY <1>0, <1>1, <2>1, <2>2, <2>4, <2>5, <2>6, WriteStep
<1>4. ASSUME SendTxt(c) \/ SendFin(c) PROVE RecvInv' /\ Forward
  <2>1. PICK type \in {"trans", "fins"}, n \in Nat : Write(In(c), Msg(type, c, n))
    <3>1. got[c] \in Seq(Messages)
        BY DEF TypeOK
    <3>2. Len(got[c]) + 1 \in Nat
        BY <3>1, LenProperties
    <3>. QED BY <1>1, <1>4, <3>2 DEF SendTxt, SendFin
  <2>2. Msg(type, c, n) \in Messages /\ Msg(type, c, n).owner = c /\ Msg(type, c, n).type = type
        /\ Known(Msg(type, c, n)) /\ ~ OwnSyn(Msg(type, c, n))
      BY MsgType DEF Msg, OwnSyn, Known, Types, ServerTypes, ClientTypes, Sealed
  <2>3. client'[c] \notin {"start", "syn"}
      BY <1>4 DEF SendTxt, SendFin, ClientGoto, TypeOK
  <2>4. \A d \in Clients : In(c) = In(d) => client'[d] \notin {"start", "syn"}
      BY <1>2, <2>3
  <2>. QED BY <1>0, <1>1, <2>1, <2>2, <2>4, WriteStep
<1>5. CASE Connect(c) \/ RecvReply(c) \/ RecvEcho(c) \/ HangUp(c)
  <2>1. UNCHANGED recvq
      BY <1>5 DEF Connect, RecvReply, RecvEcho, HangUp
  <2>. QED BY <1>0, <2>1, StillStep
<1>. QED BY <1>3, <1>4, <1>5 DEF ClientStep, Close, Kill

LEMMA PeerRecv ==
    ASSUME TypeOK, RecvInv, SendInv, PeerEcho
    PROVE  RecvInv' /\ Forward
<1>. DEFINE s == Head(peer.conns)
            m == Head(sendq[s])
<1>0. peer.conns # <<>> /\ sendq[s] # <<>> /\ Write(s, m) /\ UNCHANGED client
    BY DEF PeerEcho
<1>1. s \in Socks /\ s[2] = "out"
    BY <1>0, TailRange DEF TypeOK, SendInv
<1>2. m \in Messages /\ m \in Range(sendq[s])
    BY <1>0, <1>1, TailRange DEF TypeOK
<1>. HIDE DEF s, m
<1>3. m.owner \in {s[1], NULL} /\ ~ OwnSyn(m) /\ Known(m)
    BY <1>1, <1>2 DEF SendInv
<1>5. UNCHANGED env
    BY ClientFrame DEF setting
<1>4. \A c \in Clients : s # In(c)
    BY <1>1 DEF In
<1>. QED BY <1>0, <1>1, <1>2, <1>3, <1>4, <1>5, WriteStep DEF Later

LEMMA RecvStep ==
    ASSUME TypeOK, RecvInv, SendInv, JobInv, Next
    PROVE  RecvInv' /\ Forward
<1>0. UNCHANGED env
    BY NextSetting
<1>1. CASE MainStep
    BY <1>0, <1>1, MainFrame, StillStep DEF Later, TypeOK
<1>2. ASSUME NEW c \in Clients, ClientStep(c) \/ Kill(c) PROVE RecvInv' /\ Forward
    BY <1>2, ClientRecv
<1>3. CASE PeerEcho
    BY <1>3, PeerRecv
<1>4. CASE Stops
    BY <1>0, <1>4, StopFrame, StillStep DEF Later, net, outside
<1>5. ASSUME NEW w \in Workers, AckRecv(w) \/ TransRecv(w) \/ FinRecv(w)
      PROVE  RecvInv' /\ Forward
  <2>1. Stops \/ (job[w] \in Socks /\ Consume(job[w]) /\ UNCHANGED client)
      BY <1>5 DEF AckRecv, TransRecv, FinRecv, JobInv, outside, Stops
  <2>. QED BY <1>0, <1>4, <2>1, ConsumeStep
<1>6. ASSUME NEW w \in Workers, NEW s \in Socks, NEW h \in Socks, Take(w, s) \/ TakeMixed(w, s, h)
      PROVE  RecvInv' /\ Forward
  <2>1. UNCHANGED <<net, outside>>
      BY <1>6, FactoryIs DEF Take, TakeMixed
  <2>. QED BY <1>0, <2>1, StillStep DEF net, outside, Later
<1>7. ASSUME NEW w \in Workers,
             \/ AckDecrypt(w) \/ AckConnect(w) \/ AckInsert(w) \/ AckInsertBack(w) \/ AckReply(w)
             \/ TransFind(w) \/ TransRead(w) \/ TransSend(w) \/ FinQueue(w) \/ FinErase(w)
             \/ SynEncrypt(w) \/ SendBack(w) \/ FincSend(w)
      PROVE  RecvInv' /\ Forward
  <2>1. UNCHANGED <<recvq, client>>
      BY <1>7 DEF AckDecrypt, AckConnect, AckInsert, AckInsertBack, AckReply, TransFind, TransRead,
                  TransSend, FinQueue, FinErase, SynEncrypt, SendBack, FincSend, net, outside
  <2>. QED BY <1>0, <2>1, StillStep DEF Later
<1>. QED BY <1>1, <1>2, <1>3, <1>4, <1>5, <1>6, <1>7, Steps

(* A registered pair stays until it is queued. *)

Kept == \A c \in Clients : Registered(c) => Registered(c)'

LEMMA KeptStep ==
    ASSUME TypeOK, RecvInv, JobInv, AckInv, MutexInv, MapInv, Next
    PROVE  Kept
<1>1. ASSUME NEW w \in Workers, AckInsert(w) PROVE Kept
  <2>1. job[w] \in Socks /\ g_sock_map[job[w]] = NULL
      BY <1>1 DEF AckInsert, JobInv, AckInv, AckOf, AckPlaces, Connecting, Unused
  <2>2. \A s \in Socks : g_sock_map[s] # NULL => g_sock_map'[s] = g_sock_map[s]
      BY <1>1, <2>1 DEF AckInsert, TypeOK
  <2>3. UNCHANGED <<g_allow_map, g_leave_queue>>
      BY <1>1 DEF AckInsert, setting
  <2>. QED BY <2>2, <2>3, InSock, OtherSock, NullIsNone DEF Kept, Registered, Paired
<1>2. ASSUME NEW w \in Workers, AckInsertBack(w) PROVE Kept
  <2>1. dst[w] \in Socks /\ g_sock_map[dst[w]] = NULL
      BY <1>2, OtherSock DEF AckInsertBack, JobInv, AckInv, AckOf, AckPlaces, Connecting, Unused
  <2>2. \A s \in Socks : g_sock_map[s] # NULL => g_sock_map'[s] = g_sock_map[s]
      BY <1>2, <2>1 DEF AckInsertBack, TypeOK
  <2>3. UNCHANGED <<g_allow_map, g_leave_queue>>
      BY <1>2 DEF AckInsertBack, setting
  <2>. QED BY <2>2, <2>3, InSock, OtherSock, NullIsNone DEF Kept, Registered, Paired
<1>3. ASSUME NEW w \in Workers, FinQueue(w) PROVE Kept
  <2>1. Range(g_leave_queue) \subseteq Range(g_leave_queue')
    <3>1. CASE UNCHANGED g_leave_queue
        BY <3>1
    <3>2. ASSUME NEW s \in Socks, g_sock_map[s] # NULL, g_leave_queue' = g_leave_queue \o <<s, g_sock_map[s]>>
          PROVE  <2>1
      <4>1. g_leave_queue \in Seq(Socks) /\ g_sock_map[s] \in Socks
          BY <3>2 DEF TypeOK
      <4>. QED BY <3>2, <4>1, PushRange
    <3>. QED BY <1>3, <3>1, <3>2 DEF FinQueue, Mapped
  <2>2. UNCHANGED <<g_sock_map, g_allow_map>>
      BY <1>3, NothingPastEnd DEF FinQueue, setting
  <2>. QED BY <2>1, <2>2 DEF Kept, Registered, Paired
<1>4. ASSUME NEW w \in Workers, FinErase(w) PROVE Kept
  <2>1. /\ dst[w] \in Socks /\ g_sock_map[dst[w]] = Other(dst[w])
        /\ dst[w] \in Range(g_leave_queue) /\ Other(dst[w]) \in Range(g_leave_queue)
      BY <1>4 DEF FinErase, MapInv, Paired
  <2>2. \A s \in Socks : s \notin {dst[w], Other(dst[w])} => g_sock_map'[s] = g_sock_map[s]
      BY <1>4, <2>1 DEF FinErase
  <2>3. UNCHANGED <<g_allow_map, g_leave_queue>>
      BY <1>4 DEF FinErase, setting
  <2>. SUFFICES ASSUME NEW c \in Clients, Registered(c), In(c) \notin Range(g_leave_queue)
                PROVE  Paired(In(c))'
      BY <2>3 DEF Kept, Registered
  <2>4. In(c) \notin {dst[w], Other(dst[w])} /\ Other(In(c)) \notin {dst[w], Other(dst[w])}
      BY <2>1, InSock, OtherSock
  <2>. QED BY <2>2, <2>4, InSock, OtherSock DEF Registered, Paired
<1>5. CASE \A w \in Workers : ~ (AckInsert(w) \/ AckInsertBack(w) \/ FinQueue(w) \/ FinErase(w))
    BY <1>5, MapFrame DEF Kept, Registered, Paired, setting
<1>. QED BY <1>1, <1>2, <1>3, <1>4, <1>5

(* What is on its way out of the server. *)

Sendable(s, m) ==
    /\ m.owner \in {s[1], NULL} /\ ~ OwnSyn(m)
    /\ m.type = "ok" => s[2] = "in" /\ Registered(s[1])
    /\ m.type # "ok" => Known(m)

LEMMA FewerSent ==
    ASSUME TypeOK, SendInv, Kept, UNCHANGED env,
           \A s \in Socks : Range(sendq'[s]) \subseteq Range(sendq[s]),
           \A s \in Range(peer'.conns) : s[2] = "out"
    PROVE  SendInv'
<1>1. \A s \in Socks : s[1] \in Clients
    BY DEF Socks
<1>. QED BY <1>1 DEF SendInv, Kept, OwnSyn, Known

LEMMA DeliverStep ==
    ASSUME TypeOK, SendInv, Kept, NEW s \in Socks, NEW m \in Messages, Deliver(s, m), Sendable(s, m),
           UNCHANGED <<peer, env>>
    PROVE  SendInv'
<1>1. CASE UNCHANGED sendq
    BY <1>1, FewerSent DEF SendInv
<1>2. CASE sendq' = [sendq EXCEPT ![s] = Append(@, m)]
  <2>1. /\ Range(sendq'[s]) = Range(sendq[s]) \cup {m}
        /\ \A r \in Socks : r # s => sendq'[r] = sendq[r]
      BY <1>2, AppendRange DEF TypeOK
  <2>2. \A r \in Socks : r[1] \in Clients
      BY DEF Socks
  <2>3. ASSUME NEW r \in Socks, NEW n \in Range(sendq'[r]) PROVE Sendable(r, n)
      BY <2>1, <2>3 DEF SendInv, Sendable
  <2>. QED BY <2>2, <2>3 DEF SendInv, Sendable, Kept, OwnSyn, Known
<1>. QED BY <1>1, <1>2 DEF Deliver

LEMMA TailSent ==
    ASSUME TypeOK, NEW s \in Socks, sendq[s] # <<>>, sendq' = [sendq EXCEPT ![s] = Tail(@)]
    PROVE  \A r \in Socks : Range(sendq'[r]) \subseteq Range(sendq[r])
<1>1. sendq \in [Socks -> Seq(Messages)]
    BY DEF TypeOK
<1>2. Range(Tail(sendq[s])) \subseteq Range(sendq[s])
    BY <1>1, TailRange
<1>. QED BY <1>1, <1>2

LEMMA EmptySent ==
    ASSUME TypeOK, NEW s \in Socks, sendq' = [sendq EXCEPT ![s] = <<>>]
    PROVE  \A r \in Socks : Range(sendq'[r]) \subseteq Range(sendq[r])
<1>1. Range(<<>>) = {}
    BY DEF Range
<1>. QED BY <1>1 DEF TypeOK

LEMMA SendStep ==
    ASSUME TypeOK, RecvInv, SendInv, JobInv, TransInv, AckInv, Kept, Next
    PROVE  SendInv'
<1>0. (\A s \in Range(peer.conns) : s[2] = "out") /\ UNCHANGED env
    BY NextSetting DEF SendInv
<1>1. ASSUME NEW w \in Workers, AckReply(w) PROVE SendInv'
  <2>1. PICK type \in {"ok", "error"} :
            /\ Deliver(job[w], Msg(type, job[w][1], 0)) /\ (type = "ok" <=> pc[w] = "ack_ok")
      BY <1>1 DEF AckReply
  <2>2. job[w] \in Socks /\ job[w][1] \in Clients
      BY <1>1 DEF AckReply, JobInv, Socks
  <2>. DEFINE m == Msg(type, job[w][1], 0)
  <2>3. m \in Messages /\ m.owner = job[w][1] /\ m.type = type
      BY <2>2, MsgType DEF Msg
  <2>4. Sendable(job[w], m)
      BY <2>1, <2>2, <2>3 DEF Sendable, OwnSyn, AckInv, AckOf, Known, ClientTypes, Sealed, Msg
  <2>5. UNCHANGED peer
      BY <1>1 DEF AckReply, outside
  <2>. HIDE DEF m
  <2>. QED BY <1>0, <2>1, <2>2, <2>3, <2>4, <2>5, DeliverStep DEF m
<1>2. ASSUME NEW w \in Workers, TransSend(w) PROVE SendInv'
  <2>0. job[w] \in Socks /\ dst[w] = Other(job[w]) /\ buf[w] \in Messages
      BY <1>2 DEF TransSend, JobInv, TransInv, TransOf
  <2>1. dst[w] \in Socks /\ dst[w][1] = job[w][1] /\ buf[w] \in Messages /\ Deliver(dst[w], buf[w])
      BY <1>2, <2>0, OtherSock DEF TransSend, Other
  <2>2. Sendable(dst[w], buf[w])
      BY <1>2, <2>1 DEF TransSend, TransInv, TransOf, Sendable, Known, Types, ServerTypes, ClientTypes
  <2>3. UNCHANGED peer
      BY <1>2 DEF TransSend, outside
  <2>. QED BY <1>0, <2>1, <2>2, <2>3, DeliverStep
<1>3. ASSUME NEW w \in Workers, AckConnect(w) PROVE SendInv'
  <2>1. Other(job[w]) \in Socks /\ Other(job[w])[2] = "out"
      BY <1>3, OtherSock DEF AckConnect, JobInv, AckInv, AckOf, AckPlaces, Connecting, Other
  <2>2. peer.conns \in Seq(Socks) /\ UNCHANGED sendq
        /\ peer'.conns \in {peer.conns, Append(peer.conns, Other(job[w]))}
      BY <1>3 DEF AckConnect, TypeOK
  <2>3. Range(Append(peer.conns, Other(job[w]))) = Range(peer.conns) \cup {Other(job[w])}
      BY <2>1, <2>2, AppendRange
  <2>4. Range(peer'.conns) \subseteq Range(peer.conns) \cup {Other(job[w])}
      BY <2>2, <2>3
  <2>. QED BY <1>0, <2>1, <2>2, <2>4, FewerSent
<1>4. ASSUME NEW c \in Clients, ClientStep(c) \/ Kill(c) PROVE SendInv'
  <2>1. In(c) \in Socks /\ In(c) = <<c, "in">>
      BY InSock DEF In
  <2>2. UNCHANGED peer
      BY <1>4 DEF ClientStep, Kill, Close, Connect, SendSyn, RecvReply, SendTxt, RecvEcho, SendFin, HangUp
  <2>3. \A r \in Socks : Range(sendq'[r]) \subseteq Range(sendq[r])
    <3>1. CASE RecvReply(c) \/ RecvEcho(c)
        BY <2>1, <3>1, TailSent DEF RecvReply, RecvEcho, Read
    <3>2. CASE HangUp(c)
        BY <2>1, <3>2, EmptySent DEF HangUp
    <3>3. CASE Connect(c) \/ SendSyn(c) \/ SendTxt(c) \/ SendFin(c)
        BY <3>3 DEF Connect, SendSyn, SendTxt, SendFin
    <3>. QED BY <1>4, <3>1, <3>2, <3>3 DEF ClientStep, Kill, Close
  <2>. QED BY <1>0, <2>2, <2>3, FewerSent
<1>5. CASE PeerEcho
  <2>. DEFINE s == Head(peer.conns)
  <2>1. peer.conns # <<>> /\ peer.conns \in Seq(Socks) /\ sendq[s] # <<>>
        /\ sendq' = [sendq EXCEPT ![s] = Tail(@)]
        /\ peer'.conns \in {peer.conns, Tail(peer.conns)}
      BY <1>5 DEF PeerEcho, TypeOK
  <2>2. s \in Socks /\ Range(Tail(peer.conns)) \subseteq Range(peer.conns)
      BY <2>1, TailRange
  <2>. HIDE DEF s
  <2>3. \A r \in Socks : Range(sendq'[r]) \subseteq Range(sendq[r])
      BY <2>1, <2>2, TailSent
  <2>. QED BY <1>0, <2>1, <2>2, <2>3, FewerSent
<1>6. CASE UNCHANGED <<sendq, peer>>
    BY <1>0, <1>6, FewerSent
<1>7. ASSUME NEW w \in Workers,
             \/ AckRecv(w) \/ AckDecrypt(w) \/ AckInsert(w) \/ AckInsertBack(w)
             \/ TransFind(w) \/ TransRead(w) \/ TransRecv(w) \/ FinRecv(w) \/ FinQueue(w)
             \/ FinErase(w) \/ SynEncrypt(w)
      PROVE  UNCHANGED <<sendq, peer>>
    BY <1>7, StopFrame DEF AckRecv, AckDecrypt, AckInsert, AckInsertBack, TransFind, TransRead, TransRecv,
                           FinRecv, FinQueue, FinErase, SynEncrypt, Stops, net, outside
<1>8. ASSUME NEW w \in Workers, NEW s \in Socks, NEW h \in Socks, Take(w, s) \/ TakeMixed(w, s, h)
      PROVE  UNCHANGED <<sendq, peer>>
    BY <1>8, FactoryIs DEF Take, TakeMixed, net, outside
<1>9. MainStep \/ Stops => UNCHANGED <<sendq, peer>>
    BY MainFrame, StopFrame DEF net, outside
<1>10. ASSUME NEW w \in Workers, SendBack(w) \/ FincSend(w) PROVE SendInv'
  <2>1. PICK m \in Backs : Deliver(job[w], m)
      BY <1>10, BackSends
  <2>2. job[w] \in Socks /\ m \in Messages /\ UNCHANGED peer
      BY <1>10, BackSends, BackIs DEF outside
  <2>3. Sendable(job[w], m)
      BY <1>10, BackSends, BackIs DEF Sendable, ServerTypes
  <2>. QED BY <1>0, <2>1, <2>2, <2>3, DeliverStep
<1>. QED BY <1>1, <1>2, <1>3, <1>4, <1>5, <1>6, <1>7, <1>8, <1>9, <1>10, Steps

\* A client sends only after OK.
LEMMA ClientInvStep ==
    ASSUME TypeOK, RecvInv, SendInv, ClientInv, Kept, Next
    PROVE  ClientInv'
<1>1. ASSUME NEW c \in Clients, ClientStep(c) \/ Kill(c) PROVE ClientInv'
  <2>1. In(c) \in Socks /\ In(c) = <<c, "in">> /\ In(c)[1] = c
      BY InSock DEF In
  <2>2. \A d \in Clients : d # c => client'[d] = client[d]
      BY <1>1 DEF TypeOK, ClientStep, Kill, Close, Connect, SendSyn, RecvReply, SendTxt, RecvEcho,
                  SendFin, HangUp, ClientGoto
  <2>3. client'[c] \in {"send", "echo"} => Registered(c)
    <3>1. CASE RecvReply(c)
      <4>1. sendq[In(c)] # <<>> /\ client'[c] \in {"send", "echo"} => Head(sendq[In(c)]).type = "ok"
          BY <2>1, <3>1 DEF RecvReply, ClientGoto, TypeOK
      <4>2. sendq[In(c)] # <<>> => Head(sendq[In(c)]) \in Range(sendq[In(c)])
          BY <2>1, TailRange DEF TypeOK
      <4>. QED BY <2>1, <3>1, <4>1, <4>2 DEF RecvReply, SendInv
    <3>2. CASE SendTxt(c) \/ RecvEcho(c)
        BY <3>2 DEF SendTxt, RecvEcho, ClientInv
    <3>3. CASE Connect(c) \/ SendSyn(c) \/ SendFin(c) \/ HangUp(c)
        BY <3>3 DEF Connect, SendSyn, SendFin, HangUp, ClientGoto, TypeOK
    <3>. QED BY <1>1, <3>1, <3>2, <3>3 DEF ClientStep, Kill, Close
  <2>. QED BY <2>2, <2>3 DEF ClientInv, Kept
<1>2. CASE MainStep
  <2>1. \A c \in Clients : client'[c] \in {client[c], "done"}
      BY <1>2, MainFrame DEF TypeOK
  <2>. QED BY <2>1 DEF ClientInv, Kept
<1>3. CASE UNCHANGED client
    BY <1>3 DEF ClientInv, Kept
<1>4. ASSUME NEW w \in Workers, NEW s \in Socks, NEW h \in Socks, Take(w, s) \/ TakeMixed(w, s, h)
      PROVE  UNCHANGED client
    BY <1>4, FactoryIs DEF Take, TakeMixed, outside
<1>5. ASSUME NEW w \in Workers,
             \/ AckRecv(w) \/ AckDecrypt(w) \/ AckConnect(w) \/ AckInsert(w) \/ AckInsertBack(w)
             \/ AckReply(w) \/ TransFind(w) \/ TransRead(w) \/ TransRecv(w) \/ TransSend(w)
             \/ FinRecv(w) \/ FinQueue(w) \/ FinErase(w)
             \/ SynEncrypt(w) \/ SendBack(w) \/ FincSend(w)
      PROVE  UNCHANGED client
    BY <1>5, StopFrame DEF AckRecv, AckDecrypt, AckConnect, AckInsert, AckInsertBack, AckReply, TransFind,
                           TransRead, TransRecv, TransSend, FinRecv, FinQueue, FinErase, SynEncrypt,
                           SendBack, FincSend, Stops, outside
<1>6. PeerEcho \/ Stops => UNCHANGED client
    BY StopFrame DEF PeerEcho, outside
<1>. QED BY <1>1, <1>2, <1>3, <1>4, <1>5, <1>6, Steps

(* The workers. *)

Same(v) == pc'[v] = pc[v] /\ job'[v] = job[v] /\ buf'[v] = buf[v] /\ dst'[v] = dst[v]

Begins(v) ==
    /\ pc[v] = "idle" /\ pc'[v] \in Starts /\ job'[v] \in Socks
    /\ pc'[v] \in JunkPlaces => "junk" \in env.faults
    /\ buf'[v] = buf[v] /\ dst'[v] = dst[v]

Handles(v) ==
    \/ AckRecv(v) \/ AckDecrypt(v) \/ AckConnect(v) \/ AckInsert(v) \/ AckInsertBack(v)
    \/ AckReply(v) \/ TransFind(v) \/ TransRead(v) \/ TransRecv(v) \/ TransSend(v)
    \/ FinRecv(v) \/ FinQueue(v) \/ FinErase(v)
    \/ SynEncrypt(v) \/ SendBack(v) \/ FincSend(v)

\* Nobody but a worker itself changes what it has.
LEMMA HandlesAlone ==
    ASSUME TypeOK, NEW v \in Workers, NEW w \in Workers \ {v}, Handles(w)
    PROVE  Same(v)
<1>1. CASE AckRecv(w)
    BY <1>1, StopFrame DEF AckRecv, Stops, worker, Same, Goto, TypeOK
<1>2. CASE AckDecrypt(w) \/ AckConnect(w) \/ AckInsert(w) \/ AckInsertBack(w) \/ AckReply(w)
    BY <1>2 DEF AckDecrypt, AckConnect, AckInsert, AckInsertBack, AckReply, Same, Goto, Finish, TypeOK
<1>3. CASE TransFind(w) \/ TransRead(w) \/ TransRecv(w) \/ TransSend(w)
    BY <1>3 DEF TransFind, TransRead, TransRecv, TransSend, Same, Goto, Finish, TypeOK
<1>4. CASE FinRecv(w) \/ FinQueue(w) \/ FinErase(w)
    BY <1>4 DEF FinRecv, FinQueue, FinErase, Same, Goto, Finish, TypeOK
<1>5. CASE SynEncrypt(w) \/ SendBack(w) \/ FincSend(w)
    BY <1>5 DEF SynEncrypt, SendBack, FincSend, Same, Goto, Finish, TypeOK
<1>. QED BY <1>1, <1>2, <1>3, <1>4, <1>5 DEF Handles

LEMMA OwnStep ==
    ASSUME TypeOK, RecvInv, Next, NEW v \in Workers
    PROVE  Same(v) \/ Begins(v) \/ Handles(v)
<1>1. CASE MainStep
    BY <1>1, MainFrame DEF Same
<1>2. CASE (\E c \in Clients : ClientStep(c) \/ Kill(c)) \/ PeerEcho
    BY <1>2, ClientFrame DEF worker, Same
<1>3. CASE Stops
    BY <1>3, StopFrame DEF worker, Same
<1>4. ASSUME NEW w \in Workers, NEW s \in Socks, NEW h \in Socks, Take(w, s) \/ TakeMixed(w, s, h)
      PROVE  Same(v) \/ Begins(v)
  <2>1. /\ UNCHANGED <<buf, dst>> /\ pc[w] = "idle"
        /\ \/ UNCHANGED <<pc, job>>
           \/ /\ \E l \in Starts : Goto(w, l) /\ (l \in JunkPlaces => "junk" \in env.faults)
              /\ job' = [job EXCEPT ![w] = s]
      BY <1>4, FactoryIs DEF Take, TakeMixed
  <2>2. CASE UNCHANGED <<pc, job>>
      BY <2>1, <2>2 DEF Same
  <2>3. CASE w # v
      BY <2>1, <2>3 DEF Same, Goto, TypeOK
  <2>4. ASSUME w = v, NEW l \in Starts, Goto(w, l), l \in JunkPlaces => "junk" \in env.faults,
               job' = [job EXCEPT ![w] = s]
        PROVE  Begins(v)
    <3>1. pc'[v] = l /\ job'[v] = s
        BY <2>4 DEF Goto, TypeOK
    <3>. QED BY <2>1, <2>4, <3>1 DEF Begins
  <2>. QED BY <2>1, <2>2, <2>3, <2>4
<1>5. ASSUME NEW w \in Workers, Handles(w) PROVE Same(v) \/ Handles(v)
    BY <1>5, HandlesAlone
<1>. QED BY <1>1, <1>2, <1>3, <1>4, <1>5, Steps DEF Handles

\* Where a handler's step leads.
LEMMA HandlesTo ==
    ASSUME TypeOK, NEW v \in Workers, Handles(v), ~ Same(v)
    PROVE  /\ pc'[v] = "idle" \/ job'[v] = job[v]
           /\ \/ AckRecv(v) /\ pc'[v] = "ack_decrypt"
              \/ AckDecrypt(v) /\ pc'[v] \in {"ack_connect", "ack_error"}
              \/ AckConnect(v) /\ pc'[v] = "ack_insert"
              \/ AckInsert(v) /\ pc'[v] = "ack_insert_back"
              \/ AckInsertBack(v) /\ pc'[v] = "ack_ok"
              \/ TransFind(v) /\ pc'[v] = "trans_read"
              \/ TransRead(v) /\ pc'[v] = "trans_recv"
              \/ TransRecv(v) /\ pc'[v] = "trans_send"
              \/ FinRecv(v) /\ pc'[v] = "fin_lock"
              \/ FinQueue(v) /\ pc'[v] = "fin_erase"
              \/ SynEncrypt(v) /\ pc'[v] = "syn_send"
              \/ FincSend(v) /\ pc'[v] = "finc_close"
              \/ Handles(v) /\ pc'[v] = "idle"
<1>1. CASE AckRecv(v)
    BY <1>1, StopFrame DEF AckRecv, Stops, worker, Same, Goto, TypeOK
<1>2. CASE AckDecrypt(v) \/ AckConnect(v) \/ AckInsert(v) \/ AckInsertBack(v) \/ AckReply(v)
    BY <1>2 DEF AckDecrypt, AckConnect, AckInsert, AckInsertBack, AckReply, Goto, Finish, TypeOK
<1>3. CASE TransFind(v) \/ TransRead(v) \/ TransRecv(v) \/ TransSend(v)
    BY <1>3 DEF TransFind, TransRead, TransRecv, TransSend, Goto, Finish, TypeOK
<1>4. CASE FinRecv(v) \/ FinQueue(v) \/ FinErase(v)
    BY <1>4 DEF FinRecv, FinQueue, FinErase, Goto, Finish, TypeOK
<1>5. CASE SynEncrypt(v) \/ SendBack(v) \/ FincSend(v)
    BY <1>5 DEF SynEncrypt, SendBack, FincSend, Goto, Finish, TypeOK
<1>. QED BY <1>1, <1>2, <1>3, <1>4, <1>5 DEF Handles

Holds == {"ack_insert_back", "fin_erase"}

\* Where a handler's step starts.
LEMMA HandlesFrom ==
    ASSUME NEW v \in Workers, Handles(v)
    PROVE  /\ pc[v] # "idle"
           /\ SynEncrypt(v) \/ FincSend(v) => pc[v] \in JunkPlaces
           /\ pc[v] \in Holds => AckInsertBack(v) \/ FinErase(v)
BY DEF Handles, AckRecv, AckDecrypt, AckConnect, AckInsert, AckInsertBack, AckReply, TransFind,
       TransRead, TransRecv, TransSend, FinRecv, FinQueue, FinErase, SynEncrypt, SendBack, FincSend,
       JunkPlaces, Holds

LEMMA JobStep ==
    ASSUME TypeOK, RecvInv, JobInv, Next
    PROVE  JobInv'
<1>0. UNCHANGED env
    BY NextSetting
<1>. SUFFICES ASSUME NEW v \in Workers
              PROVE  /\ pc'[v] # "idle" => job'[v] \in Socks
                     /\ pc'[v] \in JunkPlaces => "junk" \in env.faults
    BY <1>0 DEF JobInv
<1>1. CASE Same(v)
    BY <1>1 DEF Same, JobInv
<1>2. CASE Begins(v)
    BY <1>2 DEF Begins
<1>3. CASE Handles(v) /\ ~ Same(v)
  <2>1. pc[v] # "idle" /\ (SynEncrypt(v) \/ FincSend(v) => "junk" \in env.faults)
      BY <1>3, HandlesFrom DEF JobInv
  <2>2. pc'[v] # "idle" => job'[v] \in Socks
      BY <1>3, <2>1, HandlesTo DEF JobInv
  <2>3. pc'[v] \in JunkPlaces => SynEncrypt(v) \/ FincSend(v)
      BY <1>3, HandlesTo DEF JunkPlaces
  <2>. QED BY <2>1, <2>2, <2>3
<1>. QED BY <1>1, <1>2, <1>3, OwnStep

\* What was received stays received.
LEMMA StaysReceived ==
    ASSUME TypeOK, JobInv, Forward, NEW v \in Workers, job'[v] = job[v], pc[v] # "idle",
           ~ Pending(job[v][1])
    PROVE  ~ Pending(job[v][1])'
<1>1. job[v][1] \in Clients
    BY DEF JobInv, Socks
<1>. DEFINE c == job[v][1]
<1>2. PICK d \in Clients : d = job[v][1] /\ d = job'[v][1]
    BY <1>1
<1>3. ~ Pending(d)'
    BY <1>2 DEF Forward
<1>. QED BY <1>2, <1>3 DEF Pending, OwnSyn

LEMMA TransStep ==
    ASSUME TypeOK, RecvInv, JobInv, TransInv, MapInv, Forward, Next
    PROVE  TransInv'
<1>. SUFFICES ASSUME NEW v \in Workers PROVE TransOf(v)'
    BY DEF TransInv
<1>0. (job[v] \in Socks => job[v][1] \in Clients) /\ UNCHANGED env
    BY NextSetting DEF Socks
<1>a. pc[v] # "idle" => job[v] \in Socks
    BY DEF JobInv
<1>1. CASE Same(v)
  <2>1. CASE pc[v] \in {"trans_read", "trans_recv", "trans_send"}
    <3>1. TransOf(v) /\ ~ Pending(job[v][1])
        BY <2>1 DEF TransInv, TransOf
    <3>2. ~ Pending(job[v][1])'
        BY <1>1, <2>1, <3>1, StaysReceived DEF Same
    <3>. QED BY <1>0, <1>1, <3>1, <3>2 DEF TransOf, Same, OwnSyn, Known
  <2>2. CASE pc[v] \notin {"trans_read", "trans_recv", "trans_send"}
      BY <1>1, <2>2 DEF TransOf, Same
  <2>. QED BY <2>1, <2>2
<1>2. CASE Begins(v)
    BY <1>2 DEF Begins, Starts, TransOf
<1>3. CASE TransFind(v) /\ pc'[v] = "trans_read"
  <2>1. PICK s \in Lookup(job[v]) : s # NULL /\ dst' = [dst EXCEPT ![v] = s] /\ UNCHANGED job
      BY <1>3 DEF TransFind, Finish, Goto, TypeOK
  <2>2. job[v] \in Socks /\ s = g_sock_map[job[v]] /\ pc[v] # "idle"
      BY <1>3, <2>1 DEF TransFind, JobInv, Lookup
  <2>3. s = Other(job[v]) /\ ~ Pending(job[v][1])
      BY <2>1, <2>2 DEF MapInv
  <2>4. ~ Pending(job[v][1])'
      BY <2>1, <2>2, <2>3, StaysReceived
  <2>5. dst'[v] = Other(job'[v])
      BY <2>1, <2>3 DEF TypeOK
  <2>. QED BY <1>3, <2>4, <2>5 DEF TransOf, Other
<1>4. CASE TransRecv(v) /\ pc'[v] = "trans_send"
  <2>1. /\ job[v] \in Socks /\ job[v][1] \in Clients /\ UNCHANGED <<job, dst>> /\ pc[v] = "trans_recv"
        /\ \E m \in IF Received(job[v]) = NULL THEN Garbage ELSE {Received(job[v])} :
              buf' = [buf EXCEPT ![v] = m]
      BY <1>0, <1>a, <1>4 DEF TransRecv, Finish, Goto, TypeOK
  <2>2. dst[v] = Other(job[v]) /\ ~ Pending(job[v][1])
      BY <2>1 DEF TransInv, TransOf
  <2>3. ~ Pending(job[v][1])'
      BY <2>1, <2>2, StaysReceived
  <2>4. Received(job[v]) # NULL =>
          /\ Received(job[v]) \in Messages /\ Received(job[v]).owner \in {job[v][1], NULL}
          /\ Known(Received(job[v])) /\ ~ OwnSyn(Received(job[v]))
    <3>1. job[v][2] = "in" => In(job[v][1]) = job[v]
        BY <2>1 DEF In, Socks
    <3>. QED BY <2>1, <2>2, <3>1, ReceivedIs DEF Pending
  <2>5. \A m \in Garbage : m \in Messages /\ m.owner = NULL /\ Known(m) /\ ~ OwnSyn(m)
      BY GarbageIs
  <2>6. buf'[v] \in Messages /\ buf'[v].owner \in {job[v][1], NULL}
        /\ Known(buf'[v]) /\ ~ OwnSyn(buf'[v])
    <3>1. PICK m \in IF Received(job[v]) = NULL THEN Garbage ELSE {Received(job[v])} :
              buf' = [buf EXCEPT ![v] = m]
        BY <2>1
    <3>2. buf'[v] = m
        BY <3>1 DEF TypeOK
    <3>. QED BY <2>4, <2>5, <3>1, <3>2
  <2>. QED BY <1>0, <1>4, <2>1, <2>2, <2>3, <2>6 DEF TransOf, OwnSyn, Known
<1>5. CASE pc'[v] \notin {"trans_read", "trans_recv", "trans_send"}
    BY <1>5 DEF TransOf
<1>6. CASE TransRead(v) /\ pc'[v] = "trans_recv"
  <2>1. pc[v] = "trans_read" /\ UNCHANGED <<job, dst>>
      BY <1>6 DEF TransRead
  <2>2. dst[v] = Other(job[v]) /\ ~ Pending(job[v][1])
      BY <2>1 DEF TransInv, TransOf
  <2>3. ~ Pending(job[v][1])'
      BY <2>1, <2>2, StaysReceived
  <2>. QED BY <1>6, <2>1, <2>2, <2>3 DEF TransOf, Other
<1>. QED BY <1>1, <1>2, <1>3, <1>4, <1>5, <1>6, OwnStep, HandlesTo

\* Nobody enters or leaves a critical section but by these four steps.
LEMMA HoldsFrame ==
    ASSUME TypeOK, RecvInv, Next, NEW v \in Workers,
           ~ (AckInsert(v) \/ AckInsertBack(v) \/ FinQueue(v) \/ FinErase(v))
    PROVE  /\ pc'[v] \in Holds <=> pc[v] \in Holds
           /\ pc[v] \in Holds => Same(v)
<1>1. CASE Same(v)
    BY <1>1 DEF Same
<1>2. CASE Begins(v)
    BY <1>2 DEF Begins, Starts, Holds
<1>3. CASE Handles(v) /\ ~ Same(v)
  <2>1. pc[v] \notin Holds
      BY <1>3, HandlesFrom
  <2>2. pc'[v] \notin Holds
      BY <1>3, HandlesTo DEF Holds
  <2>. QED BY <2>1, <2>2
<1>. QED BY <1>1, <1>2, <1>3, OwnStep

LEMMA MutexStep ==
    ASSUME TypeOK, RecvInv, MutexInv, Next
    PROVE  MutexInv'
<1>1. ASSUME NEW w \in Workers, AckInsert(w) \/ AckInsertBack(w) \/ FinQueue(w) \/ FinErase(w)
      PROVE  MutexInv'
  <2>1. \A v \in Workers \ {w} : pc'[v] = pc[v]
      BY <1>1, HandlesAlone DEF Handles, Same
  <2>2. CASE AckInsert(w)
      BY <2>1, <2>2, NullIsNone DEF AckInsert, Goto, MutexInv, TypeOK
  <2>3. CASE AckInsertBack(w)
      BY <2>1, <2>3, NullIsNone DEF AckInsertBack, Goto, MutexInv, TypeOK
  <2>4. CASE FinQueue(w)
    <3>1. CASE Finish(w) /\ UNCHANGED g_mutex
        BY <2>1, <2>4, <3>1, NullIsNone DEF FinQueue, Finish, Goto, MutexInv, TypeOK
    <3>2. CASE Goto(w, "fin_erase") /\ g_mutex' = w
        BY <2>1, <2>4, <3>2, NullIsNone DEF FinQueue, Goto, MutexInv, TypeOK
    <3>3. (Finish(w) /\ UNCHANGED g_mutex) \/ (Goto(w, "fin_erase") /\ g_mutex' = w)
        BY <2>4 DEF FinQueue
    <3>. QED BY <3>1, <3>2, <3>3
  <2>5. CASE FinErase(w)
      BY <2>1, <2>5, NullIsNone DEF FinErase, Finish, Goto, MutexInv, TypeOK
  <2>. QED BY <1>1, <2>2, <2>3, <2>4, <2>5
<1>2. CASE \A w \in Workers : ~ (AckInsert(w) \/ AckInsertBack(w) \/ FinQueue(w) \/ FinErase(w))
    BY <1>2, MapFrame, HoldsFrame DEF MutexInv, Holds
<1>. QED BY <1>1, <1>2

(* The connection of a session. *)

\* A worker that receives a SYN is the only one that ever connects this session.
LEMMA SynConsumed ==
    ASSUME TypeOK, RecvInv, JobInv, NEW v \in Workers, AckRecv(v), pc'[v] = "ack_decrypt"
    PROVE  /\ job[v] \in Socks /\ job'[v] = job[v] /\ UNCHANGED <<g_sock_map, g_leave_queue>>
           /\ buf'[v].owner \in {job[v][1], NULL}
           /\ buf'[v].owner # NULL =>
                 job[v][2] = "in" /\ Pending(job[v][1]) /\ ~ Pending(job[v][1])'
<1>. DEFINE m == Received(job[v])
<1>1. ~ Die
    BY DEF AckRecv, Die, Ends, worker
<1>2. /\ m # NULL /\ IsSyn(m) /\ Consume(job[v]) /\ UNCHANGED <<server, job, client, env>>
      /\ buf' = [buf EXCEPT ![v] = m] /\ pc[v] = "ack_recv"
    BY <1>1 DEF AckRecv, outside, setting
<1>3. job[v] \in Socks
    BY <1>2 DEF JobInv
<1>4. /\ recvq[job[v]] # <<>> /\ m = Head(recvq[job[v]]) /\ m.owner \in {job[v][1], NULL}
      /\ OwnSyn(m) => job[v][2] = "in"
    BY <1>2, <1>3, ReceivedIs
<1>5. buf'[v] = m /\ (m.owner # NULL => OwnSyn(m))
    BY <1>2 DEF IsSyn, OwnSyn, Sealed, Msg, TypeOK
<1>6. ASSUME OwnSyn(m) PROVE Pending(job[v][1]) /\ ~ Pending(job[v][1])'
  <2>1. In(job[v][1]) = job[v]
      BY <1>3, <1>4, <1>6 DEF In, Socks
  <2>2. Pending(job[v][1])
      BY <1>4, <1>6, <2>1 DEF Pending
  <2>3. PICK s \in Socks : s = job[v] /\ s = job'[v]
      BY <1>2, <1>3
  <2>4. ~ Pending(s[1])'
      BY <1>2, <1>4, <1>6, <2>3, ConsumeStep
  <2>. QED BY <2>2, <2>3, <2>4 DEF Pending, OwnSyn
<1>. QED BY <1>2, <1>3, <1>4, <1>5, <1>6 DEF server

LEMMA ApartStep ==
    ASSUME TypeOK, RecvInv, JobInv, AckInv, Next
    PROVE  AckApart'
<1>1. ASSUME NEW v \in Workers, Connecting(v)'
      PROVE  /\ job'[v] = job[v]
             /\ Connecting(v) \/ (AckRecv(v) /\ Pending(job[v][1]))
  <2>1. CASE Same(v)
      BY <1>1, <2>1 DEF Same, Connecting
  <2>2. CASE Begins(v)
      BY <1>1, <2>2 DEF Begins, Starts, AckPlaces, Connecting
  <2>3. CASE AckRecv(v) /\ pc'[v] = "ack_decrypt"
      BY <1>1, <2>3, SynConsumed DEF Connecting
  <2>4. CASE AckDecrypt(v) /\ pc'[v] = "ack_connect"
      BY <2>4, NullIsNone DEF AckDecrypt, Goto, AckPlaces, Connecting, TypeOK
  <2>5. CASE AckConnect(v) \/ AckInsert(v)
      BY <2>5 DEF AckConnect, AckInsert, AckPlaces, Connecting
  <2>. QED BY <1>1, <2>1, <2>2, <2>3, <2>4, <2>5, OwnStep, HandlesTo DEF AckPlaces, Connecting
<1>2. \A v \in Workers : Connecting(v) => ~ Pending(job[v][1])
    BY DEF AckInv, AckOf
<1>3. ASSUME NEW v \in Workers, NEW w \in Workers \ {v}, AckRecv(v), Connecting(w)',
             Pending(job[v][1])
      PROVE  job[w] # job[v]
    BY <1>2, <1>3, HandlesAlone DEF Handles, Same, Connecting
<1>. QED BY <1>1, <1>3 DEF AckInv, AckApart, Connecting

\* What g_sock_map and g_leave_queue say of the sockets of v is v's to change.
LEMMA Untouched ==
    ASSUME TypeOK, RecvInv, JobInv, AckInv, MutexInv, MapInv, Next,
           NEW v \in Workers, Connecting(v), ~ (AckInsert(v) \/ AckInsertBack(v)),
           NEW s \in {job[v], Other(job[v])}
    PROVE  g_sock_map'[s] = g_sock_map[s] /\ (s \in Range(g_leave_queue') <=> s \in Range(g_leave_queue))
<1>0. job[v] \in Socks /\ job[v][2] = "in" /\ s \in Socks /\ Other(s) \in {job[v], Other(job[v])}
    BY OtherSock DEF JobInv, AckInv, AckOf, AckPlaces, Connecting
<1>a. g_mutex # v => Unused(job[v]) /\ Unused(Other(job[v]))
    BY DEF AckInv, AckOf, MutexInv, Connecting
<1>1. ASSUME NEW w \in Workers, AckInsert(w)
      PROVE  g_sock_map'[s] = g_sock_map[s] /\ UNCHANGED g_leave_queue
  <2>1. w # v /\ Connecting(w) /\ job[w] \in Socks /\ job[w][2] = "in"
      BY <1>1 DEF AckInsert, AckPlaces, Connecting, JobInv, AckInv, AckOf
  <2>2. job[w] # job[v] /\ job[w] # Other(job[v])
      BY <1>0, <2>1 DEF AckInv, AckApart, Other
  <2>. QED BY <1>0, <1>1, <2>1, <2>2 DEF AckInsert, TypeOK
<1>2. ASSUME NEW w \in Workers, AckInsertBack(w)
      PROVE  g_sock_map'[s] = g_sock_map[s] /\ UNCHANGED g_leave_queue
  <2>1. w # v /\ Connecting(w) /\ job[w] \in Socks /\ job[w][2] = "in" /\ dst[w] = Other(job[w])
      BY <1>2 DEF AckInsertBack, AckPlaces, Connecting, JobInv, AckInv, AckOf
  <2>2. job[w] # job[v]
      BY <2>1 DEF AckInv, AckApart
  <2>3. dst[w] # job[v] /\ dst[w] # Other(job[v])
      BY <1>0, <2>1, <2>2, OtherSock DEF Other
  <2>. QED BY <1>0, <1>2, <2>3 DEF AckInsertBack, TypeOK
<1>3. ASSUME NEW w \in Workers, FinQueue(w)
      PROVE  UNCHANGED g_sock_map /\ (s \in Range(g_leave_queue') <=> s \in Range(g_leave_queue))
  <2>1. Unused(job[v]) /\ Unused(Other(job[v]))
      BY <1>3, <1>a, NullIsNone DEF FinQueue
  <2>2. ASSUME NEW r \in Socks, g_sock_map[r] # NULL, g_leave_queue' = g_leave_queue \o <<r, g_sock_map[r]>>
        PROVE  s \in Range(g_leave_queue') <=> s \in Range(g_leave_queue)
    <3>1. g_sock_map[r] = Other(r)
        BY <2>2 DEF MapInv
    <3>2. s # r /\ s # Other(r)
        BY <1>0, <2>1, <2>2, OtherSock DEF Unused
    <3>3. Range(g_leave_queue') = Range(g_leave_queue) \cup {r, Other(r)}
      <4>1. g_leave_queue \in Seq(Socks) /\ Other(r) \in Socks
          BY OtherSock DEF TypeOK
      <4>2. g_leave_queue' = g_leave_queue \o <<r, Other(r)>>
          BY <2>2, <3>1
      <4>. QED BY <4>1, <4>2, PushRange
    <3>. QED BY <3>2, <3>3
  <2>. QED BY <1>3, <2>2, NothingPastEnd DEF FinQueue, Mapped
<1>4. ASSUME NEW w \in Workers, FinErase(w)
      PROVE  g_sock_map'[s] = g_sock_map[s] /\ UNCHANGED g_leave_queue
  <2>1. g_mutex = w /\ pc[v] # "fin_erase"
      BY <1>4 DEF FinErase, MutexInv, AckPlaces, Connecting
  <2>2. g_mutex # v
      BY <1>4, <2>1 DEF FinErase
  <2>3. g_sock_map[s] = NULL
      BY <1>a, <2>2 DEF Unused
  <2>. QED BY <1>0, <1>4, <2>3 DEF FinErase
<1>5. CASE \A w \in Workers : ~ (AckInsert(w) \/ AckInsertBack(w) \/ FinQueue(w) \/ FinErase(w))
    BY <1>5, MapFrame
<1>. QED BY <1>1, <1>2, <1>3, <1>4, <1>5

LEMMA AckStep ==
    ASSUME TypeOK, RecvInv, JobInv, AckInv, MutexInv, MapInv, Forward, Kept, Next
    PROVE  AckInv'
<1>a. AckApart'
    BY ApartStep
<1>. SUFFICES ASSUME NEW v \in Workers PROVE AckOf(v)'
    BY <1>a DEF AckInv
<1>0. AckOf(v) /\ (Connecting(v) \/ pc[v] = "ack_ok" =>
          job[v] \in Socks /\ job[v][1] \in Clients /\ In(job[v][1]) = job[v])
    BY DEF AckInv, AckOf, AckPlaces, Connecting, JobInv, Socks, In
<1>b. Connecting(v) /\ ~ (AckInsert(v) \/ AckInsertBack(v)) =>
        /\ g_sock_map'[job[v]] = g_sock_map[job[v]]
        /\ g_sock_map'[Other(job[v])] = g_sock_map[Other(job[v])]
        /\ job[v] \in Range(g_leave_queue') <=> job[v] \in Range(g_leave_queue)
        /\ Other(job[v]) \in Range(g_leave_queue') <=> Other(job[v]) \in Range(g_leave_queue)
    BY Untouched
<1>c. (Connecting(v) \/ pc[v] = "ack_ok") /\ job'[v] = job[v] => ~ Pending(job[v][1])'
    BY <1>0, StaysReceived DEF AckOf, AckPlaces, Connecting
<1>d. UNCHANGED g_allow_map
    BY NextSetting
<1>1. CASE Same(v)
  <2>1. CASE Connecting(v)
    <3>1. ~ (AckInsert(v) \/ AckInsertBack(v))
        BY <1>1 DEF AckInsert, AckInsertBack, Goto, Same, TypeOK
    <3>. QED BY <1>0, <1>1, <1>b, <1>c, <1>d, <2>1, <3>1 DEF AckOf, AckPlaces, Connecting, Unused, Same, Other
  <2>2. CASE pc[v] = "ack_ok"
    <3>1. PICK c \in Clients : c = job[v][1] /\ c = job'[v][1]
        BY <1>0, <1>1, <2>2 DEF Same
    <3>2. Registered(c)'
        BY <1>0, <2>2, <3>1 DEF AckOf, Kept
    <3>3. Registered(job[v][1])'
        BY <3>1, <3>2 DEF Registered, Paired, In, Other
    <3>. QED BY <1>0, <1>1, <1>c, <2>2, <3>3 DEF AckOf, AckPlaces, Connecting, Same
  <2>3. CASE ~ Connecting(v) /\ pc[v] # "ack_ok"
      BY <1>0, <1>1, <2>3 DEF AckOf, AckPlaces, Connecting, Same
  <2>. QED BY <2>1, <2>2, <2>3
<1>2. CASE Begins(v)
    BY <1>2 DEF Begins, Starts, AckOf, AckPlaces, Connecting
<1>3. CASE AckRecv(v) /\ pc'[v] = "ack_decrypt"
  <2>1. /\ job[v] \in Socks /\ job'[v] = job[v] /\ UNCHANGED <<g_sock_map, g_leave_queue>>
        /\ buf'[v].owner \in {job[v][1], NULL}
        /\ buf'[v].owner # NULL =>
              job[v][2] = "in" /\ Pending(job[v][1]) /\ ~ Pending(job[v][1])'
      BY <1>3, SynConsumed
  <2>2. Other(job[v]) \in Socks /\ Other(job[v])[1] = job[v][1]
      BY <2>1, OtherSock DEF Other
  <2>3. buf'[v].owner # NULL => Unused(job[v]) /\ Unused(Other(job[v]))
      BY <2>1, <2>2 DEF MapInv, Unused
  <2>. QED BY <1>3, <2>1, <2>3 DEF AckOf, AckPlaces, Connecting, Unused, Other
<1>4. CASE AckDecrypt(v)
  <2>1. /\ job'[v] = job[v] /\ pc[v] = "ack_decrypt"
        /\ pc'[v] \in {"ack_connect", "ack_error"}
        /\ pc'[v] = "ack_connect" => buf[v].owner \in g_allow_map /\ buf[v].owner \in Clients
      BY <1>0, <1>4 DEF AckDecrypt, Goto, TypeOK
  <2>2. pc'[v] = "ack_connect" => Connecting(v) /\ job[v][1] \in g_allow_map
      BY <1>0, <2>1, NullIsNone DEF Connecting, AckPlaces, AckOf
  <2>. QED BY <1>0, <1>b, <1>c, <1>d, <2>1, <2>2 DEF AckOf, AckPlaces, Connecting, Unused, Other,
                                                     AckInsert, AckInsertBack
<1>5. CASE AckConnect(v)
  <2>1. job'[v] = job[v] /\ pc[v] = "ack_connect" /\ pc'[v] = "ack_insert" /\ dst'[v] = Other(job[v])
      BY <1>5 DEF AckConnect, Goto, TypeOK
  <2>. QED BY <1>0, <1>b, <1>c, <1>d, <2>1 DEF AckOf, AckPlaces, Connecting, Unused, Other,
                                               AckInsert, AckInsertBack
<1>6. CASE AckInsert(v)
  <2>1. /\ job'[v] = job[v] /\ dst'[v] = dst[v] /\ UNCHANGED g_leave_queue
        /\ pc[v] = "ack_insert" /\ pc'[v] = "ack_insert_back"
        /\ g_sock_map' = [g_sock_map EXCEPT ![job[v]] = IF @ = NULL THEN dst[v] ELSE @]
      BY <1>6 DEF AckInsert, Goto, TypeOK
  <2>2. job[v] \in Socks /\ Other(job[v]) # job[v] /\ Other(job[v]) \in Socks
        /\ dst[v] = Other(job[v]) /\ Unused(job[v]) /\ Unused(Other(job[v]))
      BY <1>0, <2>1, OtherSock DEF AckOf, AckPlaces, Connecting
  <2>3. g_sock_map'[job[v]] = dst[v] /\ g_sock_map'[dst[v]] = NULL
      BY <2>1, <2>2 DEF Unused, TypeOK
  <2>. QED BY <1>0, <1>c, <1>d, <2>1, <2>2, <2>3 DEF AckOf, AckPlaces, Connecting, Unused, Other
<1>7. CASE AckInsertBack(v)
  <2>1. /\ job'[v] = job[v] /\ UNCHANGED g_leave_queue
        /\ pc[v] = "ack_insert_back" /\ pc'[v] = "ack_ok"
        /\ g_sock_map' = [g_sock_map EXCEPT ![dst[v]] = IF @ = NULL THEN job[v] ELSE @]
      BY <1>7 DEF AckInsertBack, Goto, TypeOK
  <2>2. /\ job[v] \in Socks /\ Other(job[v]) # job[v] /\ Other(job[v]) \in Socks
        /\ dst[v] = Other(job[v]) /\ g_sock_map[job[v]] = Other(job[v]) /\ Unused(dst[v])
        /\ job[v][1] \in g_allow_map /\ In(job[v][1]) = job[v]
      BY <1>0, <2>1, OtherSock DEF AckOf, AckPlaces, Connecting
  <2>3. g_sock_map'[job[v]] = Other(job[v]) /\ g_sock_map'[Other(job[v])] = job[v]
      BY <2>1, <2>2 DEF Unused, TypeOK
  <2>4. Registered(job[v][1])'
      BY <1>d, <2>1, <2>2, <2>3 DEF Registered, Paired
  <2>. QED BY <1>0, <1>c, <2>1, <2>4 DEF AckOf, AckPlaces, Connecting
<1>8. CASE pc'[v] \notin AckPlaces \cup {"ack_ok"}
    BY <1>8 DEF AckOf, AckPlaces, Connecting
<1>. QED BY <1>1, <1>2, <1>3, <1>4, <1>5, <1>6, <1>7, <1>8, OwnStep, HandlesTo DEF AckPlaces

(* The map. *)

LEMMA MapStep ==
    ASSUME TypeOK, RecvInv, JobInv, AckInv, MutexInv, MapInv, Forward, Next
    PROVE  MapInv'
<1>0. /\ \A s \in Socks : s[1] \in Clients /\ Other(s)[1] = s[1]
      /\ Range(g_leave_queue) \subseteq Socks
      /\ \A c \in Clients : ~ Pending(c) => ~ Pending(c)'
  <2>1. \A s \in Socks : s[1] \in Clients /\ Other(s)[1] = s[1]
      BY DEF Socks, Other
  <2>2. \A i \in DOMAIN g_leave_queue : g_leave_queue[i] \in Socks
      BY DEF TypeOK
  <2>3. Range(g_leave_queue) \subseteq Socks
      BY <2>2 DEF Range
  <2>. QED BY <2>1, <2>3 DEF Forward
<1>a. g_mutex = NULL => \A v \in Workers : pc[v] \notin Holds
    BY NullIsNone DEF MutexInv, Holds
<1>b. \A v, w \in Workers : pc[v] \in Holds /\ pc[w] \in Holds => v = w
    BY DEF MutexInv, Holds
<1>c. MutexInv'
    BY MutexStep
<1>1. ASSUME NEW w \in Workers, AckInsert(w) PROVE MapInv'
  <2>. DEFINE k == job[w]
  <2>1. /\ k \in Socks /\ Other(k) \in Socks /\ Other(k) # k /\ dst[w] = Other(k)
        /\ Unused(k) /\ Unused(Other(k)) /\ ~ Pending(k[1])
      BY <1>1, OtherSock DEF AckInsert, JobInv, AckInv, AckOf, AckPlaces, Connecting
  <2>2. /\ UNCHANGED g_leave_queue /\ job'[w] = k /\ pc'[w] = "ack_insert_back"
        /\ \A s \in Socks : g_sock_map'[s] = IF s = k THEN Other(k) ELSE g_sock_map[s]
      BY <1>1, <2>1 DEF AckInsert, Goto, Unused, TypeOK
  <2>3. \A v \in Workers : pc[v] \notin Holds
      BY <1>1, <1>a DEF AckInsert
  <2>4. \A v \in Workers : pc'[v] # "fin_erase"
      BY <1>1, <1>c, <2>2 DEF AckInsert, MutexInv
  <2>. HIDE DEF k
  <2>5. \A s \in Socks : g_sock_map'[s] # NULL =>
          /\ g_sock_map'[s] = Other(s) /\ ~ Pending(s[1])
          /\ \/ g_sock_map'[Other(s)] = s
             \/ s = k
      BY <2>1, <2>2, <2>3, OtherSock DEF MapInv, Unused, Holds
  <2>6. \A s \in Range(g_leave_queue) : g_sock_map'[s] = NULL
      BY <1>0, <2>1, <2>2, <2>3 DEF MapInv, Unused, Holds
  <2>. QED BY <1>0, <2>2, <2>4, <2>5, <2>6 DEF MapInv
<1>2. ASSUME NEW w \in Workers, AckInsertBack(w) PROVE MapInv'
  <2>. DEFINE k == job[w]
  <2>1. /\ k \in Socks /\ Other(k) \in Socks /\ Other(k) # k /\ dst[w] = Other(k) /\ Other(Other(k)) = k
        /\ g_sock_map[k] = Other(k) /\ k \notin Range(g_leave_queue) /\ Unused(Other(k)) /\ ~ Pending(k[1])
      BY <1>2, OtherSock DEF AckInsertBack, JobInv, AckInv, AckOf, AckPlaces, Connecting
  <2>2. /\ UNCHANGED g_leave_queue
        /\ \A s \in Socks : g_sock_map'[s] = IF s = Other(k) THEN k ELSE g_sock_map[s]
      BY <1>2, <2>1 DEF AckInsertBack, Unused, TypeOK
  <2>3. \A v \in Workers : pc[v] \in Holds => v = w
      BY <1>2, <1>b DEF AckInsertBack, Holds
  <2>4. \A v \in Workers : pc'[v] \notin Holds
      BY <1>2, <1>c, NullIsNone DEF AckInsertBack, MutexInv, Holds
  <2>5. \A s \in Socks : g_sock_map[s] # NULL =>
          g_sock_map[s] = Other(s) /\ ~ Pending(s[1]) /\ (g_sock_map[Other(s)] = s \/ s = k)
      BY <2>3 DEF MapInv, Holds
  <2>6. \A s \in Range(g_leave_queue) : g_sock_map[s] = NULL
      BY <1>2, <2>3 DEF MapInv, Holds, AckInsertBack
  <2>. HIDE DEF k
  <2>7. \A s \in Socks : g_sock_map'[s] # NULL =>
          g_sock_map'[s] = Other(s) /\ ~ Pending(s[1]) /\ g_sock_map'[Other(s)] = s
      BY <1>0, <2>1, <2>2, <2>5, OtherSock
  <2>8. \A s \in Range(g_leave_queue) : g_sock_map'[s] = NULL
      BY <1>0, <2>1, <2>2, <2>6 DEF Unused
  <2>. QED BY <1>0, <2>2, <2>4, <2>7, <2>8 DEF MapInv, Holds
<1>3. ASSUME NEW w \in Workers, FinQueue(w), ~ Same(w), pc'[w] = "fin_erase" PROVE MapInv'
  <2>1. PICK s \in Socks : /\ g_sock_map[s] # NULL /\ dst' = [dst EXCEPT ![w] = s]
                           /\ g_leave_queue' = g_leave_queue \o <<s, g_sock_map[s]>>
      BY <1>3 DEF FinQueue, Mapped, Finish, Goto, TypeOK
  <2>2. UNCHANGED g_sock_map /\ \A v \in Workers : pc[v] \notin Holds
      BY <1>3, <1>a, NothingPastEnd DEF FinQueue
  <2>3. \A r \in Socks : g_sock_map[r] # NULL =>
          g_sock_map[r] = Other(r) /\ ~ Pending(r[1]) /\ g_sock_map[Other(r)] = r
      BY <2>2 DEF MapInv, Holds
  <2>4. \A r \in Range(g_leave_queue) : g_sock_map[r] = NULL /\ ~ Pending(r[1])
      BY <2>2 DEF MapInv, Holds
  <2>5. Range(g_leave_queue') = Range(g_leave_queue) \cup {s, Other(s)}
    <3>1. g_leave_queue \in Seq(Socks) /\ Other(s) \in Socks
        BY OtherSock DEF TypeOK
    <3>2. g_leave_queue' = g_leave_queue \o <<s, Other(s)>>
        BY <2>1, <2>3
    <3>. QED BY <3>1, <3>2, PushRange
  <2>6. dst'[w] = s
      BY <2>1 DEF TypeOK
  <2>7. \A v \in Workers : pc'[v] = "fin_erase" => v = w
      BY <1>3, <1>c DEF MutexInv
  <2>8. \A r \in Range(g_leave_queue') : ~ Pending(r[1]) /\ r \in Socks
    <3>1. Other(s) \in Socks /\ Other(s)[1] = s[1] /\ ~ Pending(s[1])
        BY <1>0, <2>1, <2>3, OtherSock
    <3>. QED BY <1>0, <2>1, <2>4, <2>5, <3>1
  <2>9. \A r \in Socks : g_sock_map'[r] # NULL =>
          g_sock_map'[r] = Other(r) /\ ~ Pending(r[1])' /\ g_sock_map'[Other(r)] = r
      BY <1>0, <2>2, <2>3
  <2>10. \A r \in Range(g_leave_queue') : ~ Pending(r[1])'
      BY <1>0, <2>8
  <2>11. \A r \in Range(g_leave_queue') : g_sock_map'[r] # NULL => r \in {dst'[w], Other(dst'[w])}
      BY <2>2, <2>4, <2>5, <2>6
  <2>12. /\ dst'[w] \in Socks /\ g_sock_map'[dst'[w]] = Other(dst'[w])
         /\ g_sock_map'[Other(dst'[w])] = dst'[w] /\ {dst'[w], Other(dst'[w])} \subseteq Range(g_leave_queue')
      BY <2>1, <2>2, <2>3, <2>5, <2>6
  <2>. QED BY <1>3, <2>7, <2>9, <2>10, <2>11, <2>12 DEF MapInv, Paired
<1>4. ASSUME NEW w \in Workers, FinErase(w) PROVE MapInv'
  <2>. DEFINE d == dst[w]
  <2>1. d \in Socks /\ g_sock_map[d] = Other(d)
      BY <1>4 DEF FinErase, MapInv, Paired
  <2>2. /\ UNCHANGED g_leave_queue
        /\ \A s \in Socks : g_sock_map'[s] = IF s \in {d, Other(d)} THEN NULL ELSE g_sock_map[s]
      BY <1>4, <2>1 DEF FinErase
  <2>3. \A v \in Workers : pc[v] \in Holds => v = w
      BY <1>4, <1>b DEF FinErase, Holds
  <2>4. \A v \in Workers : pc'[v] \notin Holds
      BY <1>4, <1>c, NullIsNone DEF FinErase, MutexInv, Holds
  <2>5. \A s \in Socks : g_sock_map[s] # NULL =>
          g_sock_map[s] = Other(s) /\ ~ Pending(s[1]) /\ g_sock_map[Other(s)] = s
      BY <1>4, <2>3 DEF MapInv, Holds, FinErase
  <2>6. \A s \in Range(g_leave_queue) : g_sock_map[s] # NULL => s \in {d, Other(d)}
      BY <2>3 DEF MapInv, Holds
  <2>. HIDE DEF d
  <2>7. \A s \in Socks : g_sock_map'[s] # NULL =>
          g_sock_map'[s] = Other(s) /\ ~ Pending(s[1]) /\ g_sock_map'[Other(s)] = s
      BY <2>1, <2>2, <2>5, OtherSock
  <2>8. \A s \in Range(g_leave_queue) : g_sock_map'[s] = NULL
      BY <1>0, <2>2, <2>6
  <2>. QED BY <1>0, <2>2, <2>4, <2>7, <2>8 DEF MapInv, Holds
<1>5. CASE \A w \in Workers : /\ ~ (AckInsert(w) \/ AckInsertBack(w) \/ FinErase(w))
                              /\ FinQueue(w) => Same(w) \/ pc'[w] # "fin_erase"
  <2>1. UNCHANGED <<g_sock_map, g_leave_queue>>
    <3>1. ASSUME NEW w \in Workers, FinQueue(w) PROVE UNCHANGED <<g_sock_map, g_leave_queue>>
        BY <1>5, <3>1, NothingPastEnd DEF FinQueue, Goto, Same, TypeOK
    <3>. QED BY <1>5, <3>1, MapFrame
  <2>2. ASSUME NEW v \in Workers PROVE (pc'[v] \in Holds <=> pc[v] \in Holds) /\ (pc[v] \in Holds => Same(v))
    <3>1. CASE FinQueue(v)
        BY <1>5, <3>1 DEF FinQueue, Goto, Finish, Same, TypeOK, Holds
    <3>. QED BY <1>5, <3>1, HoldsFrame
  <2>3. \A v \in Workers : pc[v] \in Holds => pc'[v] = pc[v] /\ job'[v] = job[v] /\ dst'[v] = dst[v]
      BY <2>2 DEF Same
  <2>4. \A s \in Socks : g_sock_map'[s] # NULL =>
          /\ g_sock_map'[s] = Other(s) /\ ~ Pending(s[1])
          /\ \/ g_sock_map'[Other(s)] = s
             \/ \E w \in Workers : pc'[w] = "ack_insert_back" /\ job'[w] = s
    <3>. SUFFICES ASSUME NEW s \in Socks, g_sock_map[s] # NULL
                  PROVE  /\ g_sock_map[s] = Other(s) /\ ~ Pending(s[1])
                         /\ \/ g_sock_map[Other(s)] = s
                            \/ \E w \in Workers : pc'[w] = "ack_insert_back" /\ job'[w] = s
        BY <2>1
    <3>. QED BY <2>3 DEF MapInv, Holds
  <2>5. \A s \in Range(g_leave_queue') : g_sock_map'[s] # NULL =>
          \E w \in Workers : pc'[w] = "fin_erase" /\ s \in {dst'[w], Other(dst'[w])}
    <3>. SUFFICES ASSUME NEW s \in Range(g_leave_queue), g_sock_map[s] # NULL
                  PROVE  \E w \in Workers : pc'[w] = "fin_erase" /\ s \in {dst'[w], Other(dst'[w])}
        BY <2>1
    <3>1. PICK w \in Workers : pc[w] = "fin_erase" /\ s \in {dst[w], Other(dst[w])}
        BY DEF MapInv
    <3>. QED BY <2>3, <3>1 DEF Holds
  <2>6. ASSUME NEW w \in Workers, pc'[w] = "fin_erase"
        PROVE  dst'[w] \in Socks /\ Paired(dst[w]) /\ dst'[w] = dst[w]
               /\ {dst[w], Other(dst[w])} \subseteq Range(g_leave_queue)
    <3>1. pc[w] = "fin_erase" /\ dst'[w] = dst[w]
        BY <2>2, <2>3, <2>6 DEF Holds
    <3>. QED BY <3>1 DEF MapInv
  <2>7. \A s \in Range(g_leave_queue) : ~ Pending(s[1])'
      BY <1>0 DEF MapInv
  <2>8. \A s \in Socks : g_sock_map'[s] # NULL => ~ Pending(s[1])'
      BY <1>0, <2>4
  <2>. QED BY <2>1, <2>4, <2>5, <2>6, <2>7, <2>8 DEF MapInv, Paired
<1>. QED BY <1>1, <1>2, <1>3, <1>4, <1>5
-------------------------------------------------------------------------------
(* The invariant and the theorems. *)

LEMMA InitIInv == Init => IInv
<1>. SUFFICES ASSUME Init PROVE IInv
    OBVIOUS
<1>0. \A S : <<>> \in Seq(S) /\ Range(<<>>) = {} /\ Len(<<>>) = 0
    BY DEF Range
<1>1. TypeOK
  <2>1. PeerLoops \in 1 .. PeerLoops
      BY NatAssumption DEF NatAssumption
  <2>2. peer \in [conns : Seq(Socks), left : 1 .. PeerLoops]
      BY <1>0, <2>1 DEF Init
  <2>3. "idle" \in WorkerPlaces
      BY DEF WorkerPlaces
  <2>. QED BY <1>0, <2>2, <2>3 DEF Init, TypeOK
<1>2. Listen \notin batch
    BY DEF Init
<1>3. \A w \in Workers : pc[w] = "idle"
    BY DEF Init
<1>4. /\ \A s \in Socks : recvq[s] = <<>> /\ sendq[s] = <<>> /\ g_sock_map[s] = NULL
      /\ g_leave_queue = <<>> /\ g_mutex = NULL /\ peer.conns = <<>>
      /\ \A c \in Clients : client[c] = "start"
    BY DEF Init
<1>5. RecvInv
    BY <1>0, <1>4, InSock DEF RecvInv
<1>6. SendInv /\ ClientInv
    BY <1>0, <1>4 DEF SendInv, ClientInv
<1>7. JobInv /\ TransInv /\ AckInv
    BY <1>3 DEF JobInv, JunkPlaces, TransInv, TransOf, AckInv, AckApart, AckOf, AckPlaces, Connecting
<1>8. MutexInv
    BY <1>3, <1>4, NullIsNone DEF MutexInv
<1>9. MapInv
    BY <1>0, <1>3, <1>4 DEF MapInv
<1>. QED BY <1>1, <1>2, <1>5, <1>6, <1>7, <1>8, <1>9 DEF IInv, BatchInv

LEMMA TypesStep ==
    ASSUME TypeOK, BatchInv, RecvInv, JobInv, TransInv, MapInv, Next
    PROVE  TypeOK' /\ BatchInv'
<1>1. ASSUME NEW w \in Workers,
             \/ AckRecv(w) \/ AckDecrypt(w) \/ AckConnect(w) \/ AckInsert(w) \/ AckInsertBack(w)
             \/ AckReply(w)
      PROVE  TypeOK' /\ BatchInv'
    BY <1>1, AckTypes
<1>2. ASSUME NEW w \in Workers, TransFind(w) \/ TransRead(w) \/ TransRecv(w) \/ TransSend(w)
      PROVE  TypeOK' /\ BatchInv'
    BY <1>2, TransTypes
<1>3. ASSUME NEW w \in Workers, FinRecv(w) \/ FinQueue(w) \/ FinErase(w) PROVE TypeOK' /\ BatchInv'
    BY <1>3, FinTypes
<1>4. ASSUME NEW w \in Workers, NEW s \in Socks, NEW h \in Socks, Take(w, s) \/ TakeMixed(w, s, h)
      PROVE  TypeOK' /\ BatchInv'
    BY <1>4, TakeTypes
<1>5. MainStep \/ PeerEcho \/ Stops => TypeOK' /\ BatchInv'
    BY MainTypes, PeerTypes, StopTypes
<1>6. ASSUME NEW c \in Clients, ClientStep(c) \/ Kill(c) PROVE TypeOK' /\ BatchInv'
    BY <1>6, ClientKeepsTypes
<1>7. ASSUME NEW w \in Workers, SynEncrypt(w) \/ SendBack(w) \/ FincSend(w) PROVE TypeOK' /\ BatchInv'
    BY <1>7, BackTypes
<1>. QED BY <1>1, <1>2, <1>3, <1>4, <1>5, <1>6, <1>7, Steps

LEMMA NextIInv == IInv /\ [Next]_vars => IInv'
<1>1. ASSUME IInv, Next PROVE IInv'
  <2>. USE <1>1
  <2>0. TypeOK /\ BatchInv /\ RecvInv /\ SendInv /\ ClientInv /\ JobInv /\ TransInv /\ AckInv
        /\ MutexInv /\ MapInv
      BY DEF IInv
  <2>1. TypeOK' /\ BatchInv'
      BY <2>0, TypesStep
  <2>2. RecvInv' /\ Forward
      BY <2>0, RecvStep
  <2>3. Kept
      BY <2>0, KeptStep
  <2>4. SendInv' /\ ClientInv'
      BY <2>0, <2>3, SendStep, ClientInvStep
  <2>5. JobInv' /\ TransInv'
      BY <2>0, <2>2, JobStep, TransStep
  <2>6. AckInv'
      BY <2>0, <2>2, <2>3, AckStep
  <2>7. MutexInv' /\ MapInv'
      BY <2>0, <2>2, MutexStep, MapStep
  <2>. QED BY <2>1, <2>2, <2>4, <2>5, <2>6, <2>7 DEF IInv
<1>2. ASSUME IInv, UNCHANGED vars PROVE IInv'
  <2>1. UNCHANGED <<g_sock_map, g_leave_queue, g_mutex, epolled, batch, main, cur, found,
                    queued, pc, job, buf, dst, fd, backlog, edges, recvq, sendq, link,
                    client, got, peer, g_allow_map, env>>
      BY <1>2 DEF vars, server, worker, net, outside, setting
  <2>2. TypeOK' /\ BatchInv' /\ JobInv' /\ MutexInv'
      BY <1>2, <2>1 DEF IInv, TypeOK, BatchInv, JobInv, MutexInv
  <2>3. RecvInv' /\ SendInv' /\ ClientInv'
      BY <1>2, <2>1 DEF IInv, RecvInv, SendInv, ClientInv, Registered, Paired, OwnSyn, Known
  <2>4. TransInv'
      BY <1>2, <2>1 DEF IInv, TransInv, TransOf, Pending, OwnSyn, Known
  <2>5. AckInv'
      BY <1>2, <2>1 DEF IInv, AckInv, AckApart, AckOf, Connecting, Pending, OwnSyn, Unused, Registered, Paired
  <2>6. MapInv'
      BY <1>2, <2>1 DEF IInv, MapInv, Pending, OwnSyn, Paired
  <2>. QED BY <2>2, <2>3, <2>4, <2>5, <2>6 DEF IInv
<1>. QED BY <1>1, <1>2

LEMMA Invariant == Spec => []IInv
BY InitIInv, NextIInv, PTL DEF Spec

\* Every variable of the relay has its type: no handler stores a socket that is
\* not one, whatever fails and whoever dies.
THEOREM TypeCorrect == Spec => []TypeOK
<1>1. IInv => TypeOK
    BY DEF IInv
<1>. QED BY <1>1, Invariant, PTL

\* Outside the critical sections of g_mutex, the two directions of a session are
\* in g_sock_map together or not at all, and a queued socket is in no pair, until
\* CFinEventClient closes a socket of the server or a worker reads an erased pair.
THEOREM PairsCorrect == Spec => []MapPaired
<1>1. IInv => MapPaired
  <2>. SUFFICES ASSUME IInv, g_mutex = NULL
                PROVE  /\ \A s \in Socks : g_sock_map[s] # NULL =>
                             g_sock_map[s] = Other(s) /\ g_sock_map[Other(s)] = s
                       /\ \A s \in Range(g_leave_queue) : g_sock_map[s] = NULL
      BY DEF MapPaired
  <2>1. \A w \in Workers : pc[w] \notin {"ack_insert_back", "fin_erase"}
      BY NullIsNone DEF IInv, MutexInv
  <2>. QED BY <2>1 DEF IInv, MapInv
<1>. QED BY <1>1, Invariant, PTL

\* A client that was told OK, or that OK is on its way to, came from a registered
\* source, and its pair is in g_sock_map or in g_leave_queue, until CFinEventClient
\* closes a socket of the server or a worker reads an erased pair.
THEOREM OkCorrect == Spec => []OkMeansMapped
<1>1. IInv => OkMeansMapped
  <2>. SUFFICES ASSUME IInv, NEW c \in Clients,
                       client[c] \in {"send", "echo"} \/ Msg("ok", c, 0) \in Range(sendq[In(c)])
                PROVE  Registered(c)
      BY InSock DEF OkMeansMapped, Registered, Paired, In
  <2>1. CASE client[c] \in {"send", "echo"}
      BY <2>1 DEF IInv, ClientInv
  <2>2. CASE Msg("ok", c, 0) \in Range(sendq[In(c)])
    <3>1. In(c) \in Socks /\ In(c)[1] = c /\ Msg("ok", c, 0).type = "ok"
        BY InSock DEF In, Msg
    <3>. QED BY <2>2, <3>1 DEF IInv, SendInv
  <2>. QED BY <2>1, <2>2
<1>. QED BY <1>1, Invariant, PTL

\* The bytes of a session do not reach the sockets of another one, although every
\* handler finds where to send in a map that other threads change, until
\* CFinEventClient closes a socket of the server or a worker reads an erased pair.
THEOREM SessionsApart == Spec => []NoCrossTalk
<1>1. IInv => NoCrossTalk
  <2>. SUFFICES ASSUME IInv, NEW s \in Socks, NEW m \in Range(recvq[s]) \cup Range(sendq[s])
                PROVE  m.owner \in {s[1], NULL}
      BY DEF NoCrossTalk
  <2>1. CASE m \in Range(recvq[s])
    <3>1. recvq[s] \in Seq(Messages)
        BY DEF IInv, TypeOK
    <3>2. PICK i \in 1 .. Len(recvq[s]) : m = recvq[s][i]
        BY <2>1, <3>1 DEF Range
    <3>. QED BY <3>2 DEF IInv, RecvInv
  <2>2. CASE m \in Range(sendq[s])
      BY <2>2 DEF IInv, SendInv
  <2>. QED BY <2>1, <2>2
<1>. QED BY <1>1, Invariant, PTL
-------------------------------------------------------------------------------
(* Echoes: where the messages of one session are.                          *)

Out(c) == <<c, "out">>
Sides(c) == {In(c), Out(c)}

\* w holds something that a client of the session is to receive.
BusyPlaces == AckPlaces \cup {"ack_ok", "ack_error", "trans_send"}
Busy(w, c) == pc[w] \in BusyPlaces /\ job[w][1] = c

\* Nothing of the session is under way ...
Silent(c) ==
    /\ \A s \in Sides(c) : recvq[s] = <<>> /\ sendq[s] = <<>>
    /\ \A w \in Workers : ~ Busy(w, c)

\* ... or a single message is, in one queue or with one worker ...
At(c, p) ==
    /\ \A s \in Sides(c) :
          /\ recvq[s] # <<>> => p = <<"recvq", s>> /\ Len(recvq[s]) = 1
          /\ sendq[s] # <<>> => p = <<"sendq", s>> /\ Len(sendq[s]) = 1
    /\ \A w \in Workers : Busy(w, c) => p = <<"worker", w>>
Single(c) == \E p : At(c, p)

\* ... which is the one the client waits for.
Current(c) == Msg("trans", c, Len(got[c]) + 1)
OnlyCurrent(c) ==
    /\ \A s \in Sides(c) :
          /\ \A i \in 1 .. Len(recvq[s]) : recvq[s][i] = Current(c)
          /\ \A i \in 1 .. Len(sendq[s]) : sendq[s][i] = Current(c)
    /\ \A w \in Workers : Busy(w, c) => pc[w] = "trans_send" /\ buf[w] = Current(c)

\* A client speaks when it was answered.
TurnOf(c) ==
    link[Out(c)] # "refused" =>
        /\ client[c] \in {"start", "syn", "send"} => Silent(c)
        /\ client[c] \in {"reply", "echo"} => Single(c)
        /\ client[c] = "echo" => OnlyCurrent(c)
        /\ \A i \in 1 .. Len(got[c]) : got[c][i] = Msg("trans", c, i)

ToConnect(w) == Connecting(w) /\ pc[w] \in {"ack_decrypt", "ack_connect"}

\* A live client's connection is whole, and the peer closes none; nobody connects a
\* session again that was refused.
LinkOf(c) ==
    /\ client[c] # "done" => link[In(c)] \in {"none", "open"}
    /\ link[Out(c)] \in {"none", "open", "refused"}
    /\ link[Out(c)] = "refused" =>
          ~ Pending(c) /\ \A w \in Workers : ToConnect(w) => job[w] # In(c)

\* What comes from the client, to the peer and back, and what leaves for the client.
Coming(c, m) ==
    \/ m \in Range(recvq[In(c)]) \/ m \in Range(recvq[Out(c)]) \/ m \in Range(sendq[Out(c)])
    \/ \E w \in Workers : pc[w] = "trans_send" /\ job[w] = In(c) /\ buf[w] = m
Leaving(c, m) ==
    \/ m \in Range(sendq[In(c)])
    \/ \E w \in Workers : pc[w] = "trans_send" /\ job[w] = Out(c) /\ buf[w] = m

\* No message is ahead of what the client has sent.
Top(c) == IF client[c] \in {"echo", "done"} THEN Len(got[c]) + 1 ELSE Len(got[c])
BoundOf(c) ==
    \A m \in Messages : (Coming(c, m) \/ Leaving(c, m)) /\ m.owner # NULL => m.n <= Top(c)

\* A FIN in the server's hands, and an st_event nobody filled in, are there when the
\* client has sent all it ever will.
Gone(c) == client[c] \in {"close", "done"}
Late(m) == m.type = "fins" \/ m.owner = NULL
LatePlaces == {"fin_recv"} \cup JunkPlaces
FinOf(c) ==
    "mixed" \notin env.faults => \A m \in Messages : Coming(c, m) /\ Late(m) => Gone(c)
FinJobOf(c) ==
    ~ Gone(c) /\ "mixed" \notin env.faults =>
        \A w \in Workers : pc[w] \in LatePlaces => job[w][1] # c

\* The current message is once in the queues q of the session, or not at all.
One(q, c, m) ==
    \E s \in Sides(c) : \E i \in 1 .. Len(q[s]) :
        /\ q[s][i] = m
        /\ \A t \in Sides(c) : \A j \in 1 .. Len(q[t]) : q[t][j] = m => t = s /\ j = i
None(q, c, m) == \A s \in Sides(c) : \A i \in 1 .. Len(q[s]) : q[s][i] # m

Hand(w, c, m) == pc[w] = "trans_send" /\ job[w][1] = c /\ buf[w] = m
OneHand(c, m) ==
    \E w \in Workers : Hand(w, c, m) /\ \A v \in Workers : Hand(v, c, m) => v = w
NoHand(c, m) == \A w \in Workers : ~ Hand(w, c, m)

WayAt(c, m) ==
    \/ One(recvq, c, m) /\ None(sendq, c, m) /\ NoHand(c, m)
    \/ None(recvq, c, m) /\ One(sendq, c, m) /\ NoHand(c, m)
    \/ None(recvq, c, m) /\ None(sendq, c, m) /\ OneHand(c, m)
WayOf(c) ==
    "mixed" \notin env.faults /\ client[c] = "echo" =>
        \A m \in Messages : m = Current(c) => WayAt(c, m)

\* The pool mixes up events, and an st_event may have the type of a client's handler.
Tangled == {"mixed", "junk"} \subseteq env.faults

EchoOf(c) ==
    /\ Tangled \/ TurnOf(c)
    /\ LinkOf(c) /\ BoundOf(c) /\ FinOf(c) /\ FinJobOf(c) /\ WayOf(c)
EchoInv == \A c \in Clients : EchoOf(c)

(* What a step does to the messages.                                       *)

Alone(w) == \A v \in Workers \ {w} : Same(v)

\* Nothing is moved.
Calm ==
    /\ UNCHANGED <<recvq, sendq, got>>
    /\ \A v \in Workers :
          /\ pc'[v] \in BusyPlaces => pc[v] \in BusyPlaces /\ job'[v] = job[v]
          /\ pc'[v] = "trans_send" <=> pc[v] = "trans_send"
          /\ pc[v] = "trans_send" => job'[v] = job[v] /\ buf'[v] = buf[v]
    /\ \A c \in Clients : \/ client'[c] = client[c] \/ client'[c] = "done"
                          \/ client[c] = "start" /\ client'[c] = "syn"

\* w receives the first message of its socket.
Pulls(w) ==
    /\ pc[w] \in {"ack_recv", "trans_recv", "fin_recv"}
    /\ job[w] \in Socks /\ recvq[job[w]] # <<>>
    /\ recvq' = [recvq EXCEPT ![job[w]] = Tail(@)]
    /\ UNCHANGED <<sendq, got, client, link>> /\ job'[w] = job[w] /\ Alone(w)
    /\ pc[w] = "trans_recv" => pc'[w] = "trans_send" /\ buf'[w] = Head(recvq[job[w]])
    /\ pc[w] = "ack_recv" => pc'[w] = "ack_decrypt" /\ Head(recvq[job[w]]).type # "trans"
    /\ pc[w] = "fin_recv" => pc'[w] = "fin_lock"

\* w relays what was on its stack.
Makes(w) ==
    /\ pc[w] = "trans_recv" /\ job[w] \in Socks /\ Ended(job[w])
    /\ UNCHANGED <<recvq, sendq, got, client, link>> /\ Alone(w)
    /\ pc'[w] = "trans_send" /\ job'[w] = job[w] /\ buf'[w] \in Garbage

\* w sends its message on d, or finds it closed.
BackPlaces == {"syn_send", "txt_send", "finc_send"}
PushesTo(w, d, x) ==
    /\ x \in Messages
    /\ \/ pc[w] = "trans_send" /\ d = Other(job[w]) /\ x = buf[w]
       \/ /\ pc[w] \in {"ack_ok", "ack_error"} /\ d = job[w]
          /\ x.type \in {"ok", "error"} /\ x.n = 0 /\ x.owner # NULL
       \/ pc[w] \in BackPlaces /\ d = job[w] /\ x \in Backs
    /\ \/ link[d] = "closed" /\ UNCHANGED sendq
       \/ sendq' = [sendq EXCEPT ![d] = Append(@, x)]
Pushes(w) ==
    /\ pc[w] \in {"ack_ok", "ack_error", "trans_send"} \cup BackPlaces /\ job[w] \in Socks
    /\ pc'[w] \in {"idle", "finc_close"} /\ Alone(w) /\ UNCHANGED <<recvq, got, client>>
    /\ \E d \in Socks, x \in Messages : PushesTo(w, d, x)

\* The peer echoes a message of s.
Echoes(s) ==
    /\ s[2] = "out" /\ sendq[s] # <<>>
    /\ sendq' = [sendq EXCEPT ![s] = Tail(@)]
    /\ recvq' = [recvq EXCEPT ![s] = Append(@, Head(sendq[s]))]
    /\ UNCHANGED <<pc, job, buf, got, client, link>>

Speaks(c) ==
    \/ SendSyn(c) \/ RecvReply(c) \/ SendTxt(c) \/ RecvEcho(c) \/ SendFin(c) \/ HangUp(c)
-------------------------------------------------------------------------------
LEMMA CalmMoves ==
    ASSUME TypeOK, RecvInv, JobInv, NEW w \in Workers,
           \/ AckDecrypt(w) \/ AckConnect(w) \/ AckInsert(w) \/ AckInsertBack(w)
           \/ TransFind(w) \/ TransRead(w) \/ FinQueue(w) \/ FinErase(w) \/ SynEncrypt(w)
    PROVE  Calm
<1>1. UNCHANGED <<recvq, sendq, got, client>>
    BY DEF AckDecrypt, AckConnect, AckInsert, AckInsertBack, TransFind, TransRead, FinQueue,
           FinErase, SynEncrypt, net, outside
<1>2. \A v \in Workers \ {w} : Same(v)
    BY HandlesAlone DEF Handles
<1>3. /\ pc[w] # "trans_send" /\ pc'[w] # "trans_send"
      /\ pc'[w] \in BusyPlaces => pc[w] \in BusyPlaces /\ job'[w] = job[w]
  <2>1. CASE AckDecrypt(w) \/ AckConnect(w) \/ AckInsert(w) \/ AckInsertBack(w)
      BY <2>1 DEF AckDecrypt, AckConnect, AckInsert, AckInsertBack, Goto, TypeOK, BusyPlaces, AckPlaces
  <2>2. CASE TransFind(w)
      BY <2>2 DEF TransFind, Finish, Goto, TypeOK, BusyPlaces, AckPlaces
  <2>4. CASE TransRead(w)
      BY <2>4 DEF TransRead, Goto, TypeOK, BusyPlaces, AckPlaces
  <2>5. CASE SynEncrypt(w)
      BY <2>5 DEF SynEncrypt, Goto, TypeOK, BusyPlaces, AckPlaces
  <2>3. CASE FinQueue(w) \/ FinErase(w)
      BY <2>3 DEF FinQueue, FinErase, Finish, Goto, TypeOK, BusyPlaces, AckPlaces
  <2>. QED BY <2>1, <2>2, <2>3, <2>4, <2>5
<1>. QED BY <1>1, <1>2, <1>3 DEF Calm, Same

LEMMA PullMoves ==
    ASSUME TypeOK, RecvInv, JobInv, NEW w \in Workers, AckRecv(w) \/ TransRecv(w) \/ FinRecv(w)
    PROVE  Calm \/ Pulls(w) \/ Makes(w) \/ Stops
<1>. DEFINE s == job[w]
<1>0. /\ s \in Socks /\ recvq \in [Socks -> Seq(Messages)]
      /\ \A v \in Workers \ {w} : Same(v)
      /\ pc[w] \in {"ack_recv", "trans_recv", "fin_recv"}
    BY HandlesAlone DEF Handles, JobInv, TypeOK, AckRecv, TransRecv, FinRecv
<1>1. CASE AckRecv(w) /\ ~ Die
  <2>1. /\ Received(s) # NULL /\ IsSyn(Received(s)) /\ Consume(s) /\ Goto(w, "ack_decrypt")
        /\ UNCHANGED <<sendq, got, client, link, job>> /\ pc[w] = "ack_recv"
      BY <1>1 DEF AckRecv, outside
  <2>2. recvq[s] # <<>> /\ Received(s) = Head(recvq[s])
      BY <2>1 DEF Received
  <2>3. recvq' = [recvq EXCEPT ![s] = Tail(@)]
      BY <1>0, <2>1, <2>2 DEF Consume
  <2>4. Received(s).type # "trans"
      BY <2>1 DEF IsSyn, Sealed, Msg
  <2>. QED BY <1>0, <2>1, <2>2, <2>3, <2>4 DEF Pulls, Alone, Goto, TypeOK
<1>2. CASE FinRecv(w)
  <2>1. /\ Consume(s) /\ Goto(w, "fin_lock") /\ UNCHANGED <<sendq, got, client, link, job>>
        /\ pc[w] = "fin_recv"
      BY <1>2 DEF FinRecv, outside
  <2>2. pc'[w] = "fin_lock"
      BY <2>1 DEF Goto, TypeOK
  <2>3. CASE recvq[s] = <<>>
    <3>1. recvq' = recvq
        BY <1>0, <2>1, <2>3 DEF Consume
    <3>. QED BY <1>0, <2>1, <2>2, <3>1 DEF Calm, Same, BusyPlaces, AckPlaces
  <2>4. CASE recvq[s] # <<>>
    <3>1. recvq' = [recvq EXCEPT ![s] = Tail(@)]
        BY <1>0, <2>1, <2>4 DEF Consume
    <3>. QED BY <1>0, <2>1, <2>2, <2>4, <3>1 DEF Pulls, Alone
  <2>. QED BY <2>3, <2>4
<1>3. CASE TransRecv(w)
  <2>1. Consume(s) /\ UNCHANGED <<sendq, got, client, link>> /\ pc[w] = "trans_recv"
      BY <1>3 DEF TransRecv, outside
  <2>2. CASE Readable(s) /\ recvq[s] # <<>>
    <3>1. Received(s) = Head(recvq[s]) /\ Head(recvq[s]) \in Messages
        BY <1>0, <2>2, QueueTypes DEF Received
    <3>2. Received(s) # NULL
        BY <1>0, <3>1, <2>2, NullAssumption DEF NullAssumption
    <3>3. buf' = [buf EXCEPT ![w] = Received(s)] /\ Goto(w, "trans_send") /\ UNCHANGED job
        BY <1>3, <2>2, <3>2 DEF TransRecv
    <3>4. recvq' = [recvq EXCEPT ![s] = Tail(@)]
        BY <1>0, <2>1, <2>2 DEF Consume
    <3>. QED BY <1>0, <2>1, <2>2, <3>1, <3>3, <3>4 DEF Pulls, Alone, Goto, TypeOK
  <2>3. CASE Readable(s) /\ recvq[s] = <<>>
    <3>1. Ended(s) /\ Received(s) = NULL
        BY <2>3 DEF Readable, Received
    <3>2. \E m \in Garbage : buf' = [buf EXCEPT ![w] = m]
        BY <1>3, <2>3, <3>1 DEF TransRecv
    <3>3. Goto(w, "trans_send") /\ UNCHANGED job
        BY <1>3, <2>3 DEF TransRecv
    <3>4. recvq' = recvq
        BY <1>0, <2>1, <2>3 DEF Consume
    <3>. QED BY <1>0, <2>1, <3>1, <3>2, <3>3, <3>4 DEF Makes, Alone, Goto, TypeOK
  <2>4. CASE ~ Readable(s)
    <3>1. recvq[s] = <<>> /\ Finish(w)
        BY <1>3, <2>4 DEF TransRecv, Readable
    <3>2. recvq' = recvq
        BY <1>0, <2>1, <3>1 DEF Consume
    <3>3. pc'[w] = "idle"
        BY <3>1 DEF Finish, Goto, TypeOK
    <3>. QED BY <1>0, <2>1, <3>2, <3>3 DEF Calm, Same, BusyPlaces, AckPlaces
  <2>. QED BY <2>2, <2>3, <2>4
<1>. QED BY <1>1, <1>2, <1>3 DEF Stops

LEMMA PushMoves ==
    ASSUME TypeOK, RecvInv, JobInv, TransInv, NEW w \in Workers,
           AckReply(w) \/ TransSend(w) \/ SendBack(w) \/ FincSend(w)
    PROVE  Pushes(w)
<1>0. /\ job[w] \in Socks /\ Other(job[w]) \in Socks /\ job[w][1] \in Clients
      /\ \A v \in Workers \ {w} : Same(v)
      /\ UNCHANGED <<recvq, got, client>>
    BY HandlesAlone, OtherSock DEF Handles, JobInv, AckReply, TransSend, SendBack, FincSend, outside, Socks
<1>1. Finish(w) \/ Goto(w, "finc_close") => pc'[w] \in {"idle", "finc_close"}
    BY DEF Finish, Goto, TypeOK
<1>2. CASE AckReply(w)
  <2>1. PICK type \in {"ok", "error"} : Deliver(job[w], Msg(type, job[w][1], 0))
      BY <1>2 DEF AckReply
  <2>. DEFINE x == Msg(type, job[w][1], 0)
  <2>2. x \in Messages /\ x.type = type /\ x.n = 0 /\ x.owner # NULL
      BY <1>0, MsgType, NullIsNone DEF Msg
  <2>3. pc[w] \in {"ack_ok", "ack_error"} /\ Finish(w)
      BY <1>2 DEF AckReply
  <2>4. PushesTo(w, job[w], x)
    <3>. HIDE DEF x
    <3>. QED BY <2>1, <2>2, <2>3 DEF x, PushesTo, Deliver
  <2>. HIDE DEF x
  <2>. QED BY <1>0, <1>1, <2>2, <2>3, <2>4 DEF Pushes, Alone
<1>3. CASE TransSend(w)
  <2>1. /\ pc[w] = "trans_send" /\ dst[w] = Other(job[w]) /\ buf[w] \in Messages
        /\ Deliver(dst[w], buf[w]) /\ Finish(w)
      BY <1>3 DEF TransSend, TransInv, TransOf
  <2>2. PushesTo(w, Other(job[w]), buf[w])
      BY <2>1 DEF PushesTo, Deliver
  <2>. QED BY <1>0, <1>1, <2>1, <2>2 DEF Pushes, Alone
<1>4. CASE SendBack(w) \/ FincSend(w)
  <2>1. /\ pc[w] \in BackPlaces /\ (Finish(w) \/ Goto(w, "finc_close"))
        /\ \E m \in Backs : Deliver(job[w], m)
      BY <1>4, BackSends DEF BackPlaces
  <2>2. PICK m \in Backs : Deliver(job[w], m)
      BY <2>1
  <2>3. m \in Messages /\ PushesTo(w, job[w], m)
      BY <2>1, <2>2, BackIs DEF PushesTo, Deliver
  <2>. QED BY <1>0, <1>1, <2>1, <2>3 DEF Pushes, Alone
<1>. QED BY <1>2, <1>3, <1>4

LEMMA Moves ==
    ASSUME TypeOK, RecvInv, SendInv, JobInv, TransInv, Next
    PROVE  \/ Calm
           \/ \E w \in Workers : Pulls(w) \/ Makes(w) \/ Pushes(w)
           \/ \E s \in Socks : Echoes(s)
           \/ \E c \in Clients : Speaks(c)
<1>1. CASE MainStep
    BY <1>1, MainFrame DEF Calm, TypeOK
<1>2. ASSUME Stops PROVE Calm
    BY <1>2, StopFrame DEF worker, net, outside, Calm
<1>3. ASSUME NEW w \in Workers, NEW s \in Socks, NEW h \in Socks, Take(w, s) \/ TakeMixed(w, s, h)
      PROVE  Calm
  <2>1. /\ UNCHANGED <<net, outside>> /\ pc[w] = "idle" /\ UNCHANGED buf
        /\ \/ UNCHANGED <<pc, job>>
           \/ /\ \E l \in Starts : Goto(w, l) /\ (l \in JunkPlaces => "junk" \in env.faults)
              /\ job' = [job EXCEPT ![w] = s]
      BY <1>3, FactoryIs DEF Take, TakeMixed
  <2>2. \A v \in Workers :
          /\ pc'[v] \in BusyPlaces => pc[v] \in BusyPlaces /\ job'[v] = job[v]
          /\ pc'[v] = "trans_send" <=> pc[v] = "trans_send"
          /\ pc[v] = "trans_send" => job'[v] = job[v] /\ buf'[v] = buf[v]
      BY <2>1 DEF Goto, TypeOK, BusyPlaces, AckPlaces, Starts
  <2>. QED BY <2>1, <2>2 DEF Calm, net, outside
<1>4. ASSUME NEW w \in Workers,
             \/ AckDecrypt(w) \/ AckConnect(w) \/ AckInsert(w) \/ AckInsertBack(w)
             \/ TransFind(w) \/ TransRead(w) \/ FinQueue(w) \/ FinErase(w) \/ SynEncrypt(w)
      PROVE  Calm
    BY <1>4, CalmMoves
<1>5. ASSUME NEW w \in Workers, AckRecv(w) \/ TransRecv(w) \/ FinRecv(w)
      PROVE  Calm \/ Pulls(w) \/ Makes(w)
    BY <1>2, <1>5, PullMoves
<1>6. ASSUME NEW w \in Workers, AckReply(w) \/ TransSend(w) \/ SendBack(w) \/ FincSend(w)
      PROVE  Pushes(w)
    BY <1>6, PushMoves
<1>7. ASSUME NEW c \in Clients, ClientStep(c) \/ Kill(c) PROVE Calm \/ Speaks(c)
  <2>1. CASE Connect(c)
      BY <2>1 DEF Connect, ClientGoto, worker, Calm, TypeOK
  <2>. QED BY <1>7, <2>1 DEF ClientStep, Close, Kill, Speaks
<1>8. CASE PeerEcho
  <2>. DEFINE s == Head(peer.conns)
  <2>1. /\ sendq[s] # <<>> /\ Write(s, Head(sendq[s]))
        /\ sendq' = [sendq EXCEPT ![s] = Tail(sendq[s])]
        /\ UNCHANGED <<worker, got, client, link>> /\ peer.conns # <<>>
      BY <1>8 DEF PeerEcho
  <2>2. s \in Socks /\ s[2] = "out"
      BY <2>1, TailRange DEF TypeOK, SendInv
  <2>. HIDE DEF s
  <2>. QED BY <2>1, <2>2 DEF Echoes, Write, worker
<1>. QED BY <1>1, <1>2, <1>3, <1>4, <1>5, <1>6, <1>7, <1>8, Steps
-------------------------------------------------------------------------------
(* The sessions a step leaves alone. *)

LEMMA SidesAre ==
    ASSUME NEW c \in Clients
    PROVE  /\ Sides(c) \subseteq Socks /\ In(c) \in Sides(c) /\ Out(c) \in Sides(c) /\ In(c) # Out(c)
           /\ \A s \in Socks : s[1] = c <=> s \in Sides(c)
           /\ Other(In(c)) = Out(c) /\ Other(Out(c)) = In(c)
           /\ <<c, "in">> = In(c) /\ <<c, "out">> = Out(c)
BY DEF Sides, In, Out, Socks, Other

Quiet(c) ==
    /\ \A s \in Sides(c) : recvq'[s] = recvq[s] /\ sendq'[s] = sendq[s]
    /\ got'[c] = got[c]
    /\ \/ client'[c] = client[c] \/ client'[c] = "done"
       \/ client[c] = "start" /\ client'[c] = "syn"
    /\ \A v \in Workers :
          /\ pc'[v] \in BusyPlaces /\ job'[v][1] = c => pc[v] \in BusyPlaces /\ job[v][1] = c
          /\ pc'[v] = "trans_send" /\ job'[v][1] = c <=> pc[v] = "trans_send" /\ job[v][1] = c
          /\ pc[v] = "trans_send" /\ job[v][1] = c => job'[v] = job[v] /\ buf'[v] = buf[v]

LEMMA CalmQuiet ==
    ASSUME Calm, NEW c \in Clients
    PROVE  Quiet(c)
BY DEF Calm, Quiet

\* A worker's step is about the session of its job.
LEMMA WorkerQuiet ==
    ASSUME TypeOK, JobInv, TransInv, NEW w \in Workers, Pulls(w) \/ Makes(w) \/ Pushes(w),
           NEW c \in Clients, job[w][1] # c
    PROVE  Quiet(c)
<1>0. \A v \in Workers \ {w} : Same(v)
    BY DEF Pulls, Makes, Pushes, Alone
<1>1. recvq \in [Socks -> Seq(Messages)] /\ sendq \in [Socks -> Seq(Messages)]
    BY DEF TypeOK
<1>2. job[w] \in Socks /\ job[w] \notin Sides(c) /\ Other(job[w]) \notin Sides(c)
  <2>1. job[w] \in Socks /\ Other(job[w]) \in Socks /\ Other(job[w])[1] = job[w][1]
      BY OtherSock DEF Pulls, Makes, Pushes, Other
  <2>. QED BY <2>1, SidesAre
<1>3. UNCHANGED <<got, client>>
    BY DEF Pulls, Makes, Pushes
<1>4. job'[w][1] = c => pc'[w] \notin BusyPlaces
  <2>1. CASE Pulls(w) \/ Makes(w)
      BY <2>1 DEF Pulls, Makes
  <2>2. CASE Pushes(w)
      BY <2>2 DEF Pushes, BusyPlaces, AckPlaces
  <2>. QED BY <2>1, <2>2
<1>5. \A s \in Sides(c) : recvq'[s] = recvq[s] /\ sendq'[s] = sendq[s]
  <2>1. CASE Pulls(w)
      BY <1>1, <1>2, <2>1, SidesAre DEF Pulls
  <2>2. CASE Makes(w)
      BY <2>2 DEF Makes
  <2>3. CASE Pushes(w)
    <3>1. PICK d \in Socks, x \in Messages : PushesTo(w, d, x)
        BY <2>3 DEF Pushes
    <3>2. d \notin Sides(c) /\ recvq' = recvq
        BY <1>2, <2>3, <3>1 DEF PushesTo, Pushes
    <3>3. \A s \in Sides(c) : sendq'[s] = sendq[s]
        BY <1>1, <3>1, <3>2, SidesAre DEF PushesTo
    <3>. QED BY <3>2, <3>3
  <2>. QED BY <2>1, <2>2, <2>3
<1>6. \A v \in Workers :
          /\ pc'[v] \in BusyPlaces /\ job'[v][1] = c => pc[v] \in BusyPlaces /\ job[v][1] = c
          /\ pc'[v] = "trans_send" /\ job'[v][1] = c <=> pc[v] = "trans_send" /\ job[v][1] = c
          /\ pc[v] = "trans_send" /\ job[v][1] = c => job'[v] = job[v] /\ buf'[v] = buf[v]
  <2>. SUFFICES ASSUME NEW v \in Workers
                PROVE  /\ pc'[v] \in BusyPlaces /\ job'[v][1] = c => pc[v] \in BusyPlaces /\ job[v][1] = c
                       /\ pc'[v] = "trans_send" /\ job'[v][1] = c <=> pc[v] = "trans_send" /\ job[v][1] = c
                       /\ pc[v] = "trans_send" /\ job[v][1] = c => job'[v] = job[v] /\ buf'[v] = buf[v]
      OBVIOUS
  <2>1. CASE v = w
      BY <1>4, <2>1 DEF BusyPlaces
  <2>2. CASE v # w
      BY <1>0, <2>2 DEF Same
  <2>. QED BY <2>1, <2>2
<1>. QED BY <1>3, <1>5, <1>6 DEF Quiet

LEMMA PeerQuiet ==
    ASSUME TypeOK, NEW s \in Socks, Echoes(s), NEW c \in Clients, s[1] # c
    PROVE  Quiet(c)
<1>1. s \notin Sides(c) /\ Sides(c) \subseteq Socks
    BY SidesAre
<1>2. \A r \in Sides(c) : recvq'[r] = recvq[r] /\ sendq'[r] = sendq[r]
    BY <1>1 DEF Echoes, TypeOK
<1>. QED BY <1>2 DEF Echoes, Quiet

LEMMA ClientQuiet ==
    ASSUME TypeOK, NEW d \in Clients, Speaks(d), NEW c \in Clients, d # c
    PROVE  Quiet(c)
<1>0. UNCHANGED worker
    BY DEF Speaks, SendSyn, RecvReply, SendTxt, RecvEcho, SendFin, HangUp
<1>1. In(d) \notin Sides(c) /\ Sides(c) \subseteq Socks /\ In(d) = <<d, "in">>
    BY SidesAre, InSock DEF In
<1>2. /\ recvq \in [Socks -> Seq(Messages)] /\ sendq \in [Socks -> Seq(Messages)]
      /\ client'[c] = client[c] /\ got'[c] = got[c]
    BY DEF Speaks, SendSyn, RecvReply, SendTxt, RecvEcho, SendFin, HangUp, ClientGoto, TypeOK
<1>3. \A m, r : Write(In(d), m) /\ r \in Sides(c) => recvq'[r] = recvq[r]
    BY <1>1, <1>2 DEF Write
<1>4. \A r \in Sides(c) : recvq'[r] = recvq[r]
    BY <1>1, <1>3 DEF Speaks, SendSyn, RecvReply, SendTxt, RecvEcho, SendFin, HangUp
<1>5. \A r \in Sides(c) : sendq'[r] = sendq[r]
    BY <1>1, <1>2 DEF Speaks, SendSyn, RecvReply, SendTxt, RecvEcho, SendFin, HangUp, Read
<1>. QED BY <1>0, <1>2, <1>4, <1>5 DEF Quiet, worker

LEMMA QueuedAre ==
    ASSUME TypeOK, NEW c \in Clients, NEW s \in Sides(c)
    PROVE  /\ \A i \in 1 .. Len(recvq[s]) : recvq[s][i] \in Messages /\ recvq[s][i].n \in Nat
           /\ \A i \in 1 .. Len(sendq[s]) : sendq[s][i] \in Messages /\ sendq[s][i].n \in Nat
<1>1. recvq[s] \in Seq(Messages) /\ sendq[s] \in Seq(Messages)
    BY SidesAre DEF TypeOK
<1>2. \A m \in Messages : m.n \in Nat
    BY DEF Messages
<1>. QED BY <1>1, <1>2

LEMMA Primes ==
    ASSUME NEW c, NEW m
    PROVE  /\ One(recvq, c, m)' <=> One(recvq', c, m)
           /\ One(sendq, c, m)' <=> One(sendq', c, m)
           /\ None(recvq, c, m)' <=> None(recvq', c, m)
           /\ None(sendq, c, m)' <=> None(sendq', c, m)
BY DEF One, None, Sides, In, Out

\* Two maps with the same queues for the session.
LEMMA SameQueues ==
    ASSUME NEW c, NEW m, NEW q, NEW r, \A s \in Sides(c) : r[s] = q[s]
    PROVE  (One(q, c, m) => One(r, c, m)) /\ (None(q, c, m) => None(r, c, m))
<1>1. ASSUME One(q, c, m) PROVE One(r, c, m)
  <2>1. PICK s \in Sides(c) : \E i \in 1 .. Len(q[s]) :
            /\ q[s][i] = m
            /\ \A t \in Sides(c) : \A j \in 1 .. Len(q[t]) : q[t][j] = m => t = s /\ j = i
      BY <1>1 DEF One
  <2>2. PICK i \in 1 .. Len(q[s]) :
            /\ q[s][i] = m
            /\ \A t \in Sides(c) : \A j \in 1 .. Len(q[t]) : q[t][j] = m => t = s /\ j = i
      BY <2>1
  <2>3. i \in 1 .. Len(r[s]) /\ r[s][i] = m
      BY <2>2
  <2>4. \A t \in Sides(c) : \A j \in 1 .. Len(r[t]) : r[t][j] = m => t = s /\ j = i
      BY <2>2
  <2>. QED BY <2>3, <2>4 DEF One
<1>. QED BY <1>1 DEF None

\* A session that is left alone stays as it is.
LEMMA QuietTurn ==
    ASSUME NEW c \in Clients, Quiet(c), TurnOf(c), link[Out(c)] = "refused" => link'[Out(c)] = "refused"
    PROVE  TurnOf(c)'
<1>. SUFFICES ASSUME link'[Out(c)] # "refused" PROVE TurnOf(c)'
    BY DEF TurnOf
<1>0. link[Out(c)] # "refused"
    OBVIOUS
<1>1. \A v \in Workers : Busy(v, c)' => Busy(v, c)
    BY DEF Quiet, Busy
<1>2. Silent(c) => Silent(c)'
    BY <1>1 DEF Quiet, Silent
<1>3. Single(c) => Single(c)'
    BY <1>1 DEF Quiet, Single, At, Sides, In, Out
<1>4. Current(c)' = Current(c)
    BY DEF Quiet, Current
<1>5. ASSUME OnlyCurrent(c) PROVE OnlyCurrent(c)'
  <2>1. \A v \in Workers : Busy(v, c)' => pc'[v] = "trans_send" /\ buf'[v] = Current(c)
      BY <1>1, <1>5 DEF Quiet, OnlyCurrent, Busy
  <2>2. \A s \in Sides(c) :
          /\ \A i \in 1 .. Len(recvq'[s]) : recvq'[s][i] = Current(c)
          /\ \A i \in 1 .. Len(sendq'[s]) : sendq'[s][i] = Current(c)
      BY <1>5 DEF Quiet, OnlyCurrent
  <2>3. Sides(c)' = Sides(c)
      BY DEF Sides, In, Out
  <2>. QED BY <1>4, <2>1, <2>2 DEF OnlyCurrent
<1>6. /\ client'[c] \in {"start", "syn", "send"} => client[c] \in {"start", "syn", "send"}
      /\ client'[c] \in {"reply", "echo"} => client[c] = client'[c]
    BY DEF Quiet
<1>7. \A i \in 1 .. Len(got'[c]) : got'[c][i] = Msg("trans", c, i)
    BY <1>0 DEF TurnOf, Quiet
<1>. QED BY <1>0, <1>2, <1>3, <1>5, <1>6, <1>7 DEF TurnOf

LEMMA QuietWay ==
    ASSUME NEW c \in Clients, Quiet(c), WayOf(c), env' = env
    PROVE  WayOf(c)'
<1>. SUFFICES ASSUME "mixed" \notin env.faults, client'[c] = "echo",
                     NEW m \in Messages, m = Current(c)'
              PROVE  WayAt(c, m)'
    BY DEF WayOf
<1>1. client[c] = "echo" /\ m = Current(c)
    BY DEF Quiet, Current
<1>2. WayAt(c, m)
    BY <1>1 DEF WayOf
<1>3. \A w \in Workers : Hand(w, c, m) <=> Hand(w, c, m)'
    BY DEF Hand, Quiet
<1>4. /\ One(recvq, c, m) => One(recvq', c, m)
      /\ None(recvq, c, m) => None(recvq', c, m)
      /\ One(sendq, c, m) => One(sendq', c, m)
      /\ None(sendq, c, m) => None(sendq', c, m)
    BY SameQueues DEF Quiet
<1>5. (NoHand(c, m) => NoHand(c, m)') /\ (OneHand(c, m) => OneHand(c, m)')
    BY <1>3 DEF NoHand, OneHand
<1>. QED BY <1>2, <1>4, <1>5, Primes DEF WayAt
-------------------------------------------------------------------------------
(* The connections. *)

\* A client's connection is lost with it, the other one is made once.
LEMMA LinkMoves ==
    ASSUME TypeOK, BatchInv, RecvInv, SendInv, JobInv, TransInv, AckInv, Next,
           \A c \in Clients : LinkOf(c),
           NEW c \in Clients
    PROVE  /\ client'[c] # "done" => client[c] # "done" /\ link'[In(c)] \in {link[In(c)], "open"}
           /\ \/ link'[Out(c)] = link[Out(c)]
              \/ \E w \in Workers : AckConnect(w) /\ job[w] = In(c) /\ link'[Out(c)] \in {"open", "refused"}
<1>. DEFINE Goal == /\ client'[c] # "done" => client[c] # "done" /\ link'[In(c)] \in {link[In(c)], "open"}
                    /\ \/ link'[Out(c)] = link[Out(c)]
                       \/ \E w \in Workers : /\ AckConnect(w) /\ job[w] = In(c)
                                             /\ link'[Out(c)] \in {"open", "refused"}
<1>0. /\ In(c) \in Socks /\ Out(c) \in Socks /\ In(c) # Out(c)
      /\ link \in [Socks -> {"none", "open", "closed", "reset", "refused"}]
    BY SidesAre DEF TypeOK
<1>1. UNCHANGED <<client, link>> => Goal
    OBVIOUS
<1>2. CASE MainStep
  <2>1. CASE AcceptDropped
    <3>0. backlog # <<>> /\ Head(backlog) \in Clients
        BY <2>1 DEF AcceptDropped, TypeOK, BatchInv
    <3>1. PICK b \in Clients : /\ client' = [client EXCEPT ![b] = "done"]
                               /\ link' = [link EXCEPT ![In(b)] = "none"]
        BY <2>1, <3>0 DEF AcceptDropped, In
    <3>2. In(b) \in Socks /\ In(b) # Out(c) /\ (b # c => In(b) # In(c))
        BY InSock DEF In, Out
    <3>. QED BY <1>0, <3>1, <3>2 DEF TypeOK
  <2>2. CASE ~ AcceptDropped
      BY <1>1, <1>2, <2>2 DEF MainStep, EpollWait, Accept, CheckLeaveQueue, AddAndDispatch, FindReady, Die,
                   Ends, net, outside
  <2>. QED BY <2>1, <2>2
<1>3. ASSUME NEW w \in Workers, NEW s \in Socks, NEW h \in Socks, Take(w, s) \/ TakeMixed(w, s, h)
      PROVE  Goal
  <2>1. UNCHANGED <<net, outside>>
      BY <1>3, FactoryIs DEF Take, TakeMixed
  <2>. QED BY <1>1, <2>1 DEF net, outside
<1>4. ASSUME NEW w \in Workers, NEW d \in Socks, NEW x, Deliver(d, x), UNCHANGED client PROVE Goal
  <2>1. CASE link[d] = "closed"
    <3>1. LinkOf(d[1]) /\ d[1] \in Clients /\ d = <<d[1], d[2]>> /\ d[2] \in {"in", "out"}
        BY DEF Socks
    <3>2. d = In(d[1]) /\ client[d[1]] = "done"
        BY <2>1, <3>1 DEF LinkOf, In, Out
    <3>3. link' = [link EXCEPT ![d] = "reset"]
        BY <1>4, <2>1 DEF Deliver
    <3>. QED BY <1>0, <1>4, <3>2, <3>3 DEF In, Out
  <2>2. CASE link[d] # "closed"
      BY <1>1, <1>4, <2>2 DEF Deliver
  <2>. QED BY <2>1, <2>2
<1>5. ASSUME NEW w \in Workers, AckReply(w) \/ TransSend(w) \/ SendBack(w) \/ FincSend(w)
      PROVE  Goal
  <2>1. \E d \in Socks : \E x : Deliver(d, x)
    <3>1. job[w] \in Socks /\ (TransSend(w) => dst[w] \in Socks)
        BY <1>5, OtherSock DEF AckReply, TransSend, SendBack, FincSend, JobInv, TransInv, TransOf
    <3>. QED BY <1>5, <3>1 DEF AckReply, TransSend, SendBack, FincSend
  <2>2. UNCHANGED client
      BY <1>5 DEF AckReply, TransSend, SendBack, FincSend, outside
  <2>. QED BY <1>4, <1>5, <2>1, <2>2
<1>6. ASSUME NEW w \in Workers, AckConnect(w) PROVE Goal
  <2>1. job[w] \in Socks /\ job[w][2] = "in"
      BY <1>6 DEF AckConnect, JobInv, AckInv, AckOf, AckPlaces, Connecting
  <2>2. job[w] = In(job[w][1]) /\ Other(job[w]) = Out(job[w][1]) /\ Other(job[w]) \in Socks
      BY <2>1, OtherSock DEF In, Out, Other, Socks
  <2>3. /\ UNCHANGED client
        /\ \/ link' = [link EXCEPT ![Other(job[w])] = "open"]
           \/ link' = [link EXCEPT ![Other(job[w])] = "refused"]
      BY <1>6 DEF AckConnect
  <2>4. CASE job[w] = In(c)
    <3>1. Other(job[w]) = Out(c)
        BY <2>4, SidesAre
    <3>2. link'[In(c)] = link[In(c)] /\ link'[Out(c)] \in {"open", "refused"}
        BY <1>0, <2>2, <2>3, <3>1
    <3>. QED BY <1>6, <2>3, <2>4, <3>2
  <2>5. CASE job[w] # In(c)
    <3>1. Other(job[w]) # Out(c) /\ Other(job[w]) # In(c)
        BY <2>2, <2>5 DEF In, Out
    <3>2. link'[In(c)] = link[In(c)] /\ link'[Out(c)] = link[Out(c)]
        BY <1>0, <2>2, <2>3, <3>1
    <3>. QED BY <2>3, <3>2
  <2>. QED BY <2>4, <2>5
<1>7. ASSUME NEW w \in Workers,
             \/ AckRecv(w) \/ AckDecrypt(w) \/ AckInsert(w) \/ AckInsertBack(w)
             \/ TransFind(w) \/ TransRead(w) \/ TransRecv(w)
             \/ FinRecv(w) \/ FinQueue(w) \/ FinErase(w) \/ SynEncrypt(w)
      PROVE  Goal
    BY <1>1, <1>7 DEF AckRecv, AckDecrypt, AckInsert, AckInsertBack, TransFind, TransRead, TransRecv,
                 FinRecv, FinQueue, FinErase, SynEncrypt, Die, Ends, net, outside
<1>8. ASSUME NEW d \in Clients, ClientStep(d) \/ Kill(d) PROVE Goal
  <2>1. In(d) \in Socks /\ In(d) # Out(c) /\ (d # c => In(d) # In(c)) /\ <<d, "in">> = In(d)
      BY InSock DEF In, Out
  <2>2. CASE Connect(d)
    <3>1. link' = [link EXCEPT ![In(d)] = "open"] /\ client' = [client EXCEPT ![d] = "syn"] /\ client[d] = "start"
        BY <2>1, <2>2 DEF Connect, ClientGoto
    <3>. QED BY <1>0, <2>1, <3>1 DEF TypeOK
  <2>3. CASE SendSyn(d) \/ RecvReply(d) \/ SendTxt(d) \/ RecvEcho(d) \/ SendFin(d)
    <3>1. link' = link /\ client[d] # "done" /\ \E l : client' = [client EXCEPT ![d] = l]
        BY <2>3 DEF SendSyn, RecvReply, SendTxt, RecvEcho, SendFin, ClientGoto
    <3>. QED BY <3>1 DEF TypeOK
  <2>4. CASE HangUp(d)
    <3>1. /\ client' = [client EXCEPT ![d] = "done"]
          /\ \E l : link' = [link EXCEPT ![In(d)] = l]
        BY <2>1, <2>4 DEF HangUp, ClientGoto
    <3>. QED BY <1>0, <2>1, <3>1 DEF TypeOK
  <2>. QED BY <1>8, <2>2, <2>3, <2>4 DEF ClientStep, Close, Kill
<1>9. CASE PeerEcho
    BY <1>1, <1>9 DEF PeerEcho
<1>10. CASE Stops
    BY <1>1, <1>10, StopFrame DEF net, outside
<1>. QED BY <1>2, <1>3, <1>5, <1>6, <1>7, <1>8, <1>9, <1>10, Steps

LEMMA LinkStep ==
    ASSUME TypeOK, BatchInv, RecvInv, SendInv, JobInv, TransInv, AckInv, Forward, Next,
           \A c \in Clients : LinkOf(c),
           NEW c \in Clients
    PROVE  /\ LinkOf(c)'
           /\ link[Out(c)] = "refused" => link'[Out(c)] = "refused"
<1>0. /\ client'[c] # "done" => client[c] # "done" /\ link'[In(c)] \in {link[In(c)], "open"}
      /\ \/ link'[Out(c)] = link[Out(c)]
         \/ \E w \in Workers : AckConnect(w) /\ job[w] = In(c) /\ link'[Out(c)] \in {"open", "refused"}
    BY LinkMoves
<1>1. LinkOf(c) /\ In(c) \in Socks /\ In(c)[1] = c
    BY InSock DEF In
<1>2. link[Out(c)] = "refused" => link'[Out(c)] = "refused"
  <2>1. \A w \in Workers : AckConnect(w) => ToConnect(w)
      BY DEF AckConnect, ToConnect, Connecting, AckPlaces
  <2>. QED BY <1>0, <1>1, <2>1 DEF LinkOf
\* Who is about to connect was, or has the SYN.
<1>3. ASSUME NEW v \in Workers, ToConnect(v)', job'[v] = In(c)
      PROVE  job[v] = In(c) /\ (ToConnect(v) \/ Pending(c))
  <2>0. pc'[v] \in {"ack_decrypt", "ack_connect"} /\ (pc'[v] = "ack_decrypt" => buf'[v].owner # NULL)
      BY <1>3 DEF ToConnect, Connecting
  <2>1. CASE Same(v)
      BY <1>3, <2>0, <2>1 DEF Same, ToConnect, Connecting, AckPlaces
  <2>2. CASE Begins(v)
      BY <2>0, <2>2 DEF Begins, Starts
  <2>3. CASE AckRecv(v) /\ pc'[v] = "ack_decrypt"
    <3>1. job'[v] = job[v] /\ Pending(job[v][1])
        BY <2>0, <2>3, SynConsumed
    <3>. QED BY <1>1, <1>3, <3>1
  <2>4. CASE AckDecrypt(v)
    <3>1. pc[v] = "ack_decrypt" /\ job' = job /\ buf[v].owner \in Clients
        BY <2>0, <2>4 DEF AckDecrypt, Goto, TypeOK
    <3>. QED BY <1>3, <3>1, NullIsNone DEF ToConnect, Connecting, AckPlaces
  <2>. QED BY <2>0, <2>1, <2>2, <2>3, <2>4, OwnStep, HandlesTo
<1>4. ASSUME link'[Out(c)] = "refused"
      PROVE  ~ Pending(c) /\ \A v \in Workers : ToConnect(v)' => job'[v] # In(c)
  <2>1. CASE link[Out(c)] = "refused"
      BY <1>1, <1>3, <2>1 DEF LinkOf
  <2>2. CASE link[Out(c)] # "refused"
    <3>1. PICK w \in Workers : AckConnect(w) /\ job[w] = In(c)
        BY <1>0, <1>4, <2>2
    <3>2. pc[w] = "ack_connect" /\ pc'[w] = "ack_insert" /\ ~ Pending(c)
      <4>1. pc[w] = "ack_connect" /\ pc'[w] = "ack_insert"
          BY <3>1 DEF AckConnect, Goto, TypeOK
      <4>2. Connecting(w) /\ AckOf(w) /\ job[w][1] = c
          BY <1>1, <3>1, <4>1 DEF Connecting, AckPlaces, AckInv
      <4>. QED BY <4>1, <4>2 DEF AckOf
    <3>3. \A v \in Workers : ToConnect(v) /\ job[v] = In(c) => v = w
        BY <3>1, <3>2 DEF AckInv, AckApart, AckPlaces, Connecting, ToConnect
    <3>4. ASSUME NEW v \in Workers, ToConnect(v)', job'[v] = In(c) PROVE FALSE
      <4>1. v # w
          BY <3>2, <3>4 DEF ToConnect
      <4>2. Same(v)
          BY <3>1, <4>1, HandlesAlone DEF Handles
      <4>. QED BY <3>3, <3>4, <4>1, <4>2 DEF Same, ToConnect, Connecting
    <3>. QED BY <3>2, <3>4
  <2>. QED BY <2>1, <2>2
<1>5. link'[Out(c)] = "refused" => ~ Pending(c)'
    BY <1>4 DEF Forward
<1>6. /\ client'[c] # "done" => link'[In(c)] \in {"none", "open"}
      /\ link'[Out(c)] \in {"none", "open", "refused"}
    BY <1>0, <1>1 DEF LinkOf
<1>. QED BY <1>2, <1>4, <1>5, <1>6 DEF LinkOf, In, Out

\* A FIN, or what nobody filled in, is handled where the pool found one.
LEMMA TakesLate ==
    ASSUME TypeOK, RecvInv, Next, "mixed" \notin env.faults, NEW w \in Workers,
           pc[w] = "idle", pc'[w] \in LatePlaces
    PROVE  job'[w] \in Socks /\ recvq[job'[w]] # <<>> /\ Late(Head(recvq[job'[w]]))
<1>0. pc'[w] # "idle"
    BY DEF LatePlaces, JunkPlaces
<1>1. CASE MainStep
    BY <1>0, <1>1, MainFrame
<1>2. CASE (\E c \in Clients : ClientStep(c) \/ Kill(c)) \/ PeerEcho
    BY <1>0, <1>2, ClientFrame DEF worker
<1>3. CASE Stops
    BY <1>0, <1>3, StopFrame DEF worker
<1>4. ASSUME NEW v \in Workers, Handles(v) PROVE FALSE
  <2>1. CASE v = w
      BY <1>4, <2>1, HandlesFrom
  <2>2. CASE v # w
      BY <1>0, <1>4, <2>2, HandlesAlone DEF Same
  <2>. QED BY <2>1, <2>2
<1>5. ASSUME NEW v \in Workers, NEW s \in Socks, Take(v, s)
      PROVE  job'[w] \in Socks /\ recvq[job'[w]] # <<>> /\ Late(Head(recvq[job'[w]]))
  <2>1. Factory(v, s, s)
      BY <1>5 DEF Take
  <2>2. v = w /\ job'[w] = s
      BY <1>0, <2>1 DEF Factory, Goto, TypeOK
  <2>3. Received(s) # NULL
      BY <1>0, <2>1, <2>2 DEF Factory
  <2>4. Received(s).type \in {"fins"} \cup ClientTypes
    <3>1. Received(s).type \in Types \cup {"error", "ok"}
        BY <2>3, ReceivedIs DEF Known
    <3>2. pc'[w] \notin {"ack_recv", "trans_find", "idle"}
        BY DEF LatePlaces, JunkPlaces
    <3>. QED BY <2>1, <2>2, <2>3, <3>1, <3>2 DEF Factory, Goto, TypeOK, Types, ServerTypes
  <2>5. Known(Received(s)) /\ recvq[s] # <<>> /\ Received(s) = Head(recvq[s])
      BY <2>3, ReceivedIs
  <2>. QED BY <2>2, <2>4, <2>5 DEF Late, Known
<1>6. ASSUME NEW v \in Workers, NEW s \in Socks, NEW h \in Socks PROVE ~ TakeMixed(v, s, h)
    BY DEF TakeMixed
<1>. QED BY <1>1, <1>2, <1>3, <1>4, <1>5, <1>6, Steps DEF Handles

LEMMA FinJobStep ==
    ASSUME TypeOK, RecvInv, Next, env' = env, NEW c \in Clients, FinOf(c), FinJobOf(c),
           Gone(c) => Gone(c)'
    PROVE  FinJobOf(c)'
<1>. SUFFICES ASSUME ~ Gone(c)', "mixed" \notin env.faults, NEW w \in Workers, pc'[w] \in LatePlaces
              PROVE  job'[w][1] # c
    BY DEF FinJobOf
<1>1. CASE Same(w)
    BY <1>1 DEF Same, FinJobOf
<1>2. CASE Begins(w)
  <2>1. job'[w] \in Socks /\ recvq[job'[w]] # <<>> /\ Late(Head(recvq[job'[w]]))
      BY <1>2, TakesLate DEF Begins
  <2>2. PICK s \in Socks : s = job'[w]
      BY <2>1
  <2>3. recvq[s] \in Seq(Messages) /\ recvq[s] # <<>>
      BY <2>1, <2>2 DEF TypeOK
  <2>4. s \notin Sides(c)
    <3>. SUFFICES ASSUME s \in Sides(c) PROVE FALSE
        OBVIOUS
    <3>1. Head(recvq[s]) \in Messages /\ Head(recvq[s]) \in Range(recvq[s])
        BY <2>3, TailRange
    <3>2. Coming(c, Head(recvq[s]))
        BY <3>1 DEF Sides, Coming
    <3>3. Gone(c)
        BY <2>1, <2>2, <3>1, <3>2 DEF FinOf
    <3>. QED BY <3>3
  <2>. QED BY <2>2, <2>4, SidesAre
<1>3. CASE Handles(w) /\ ~ Same(w)
  <2>1. pc'[w] \in LatePlaces /\ pc'[w] # "idle"
      BY DEF LatePlaces, JunkPlaces
  <2>2. (SynEncrypt(w) \/ FincSend(w)) /\ job'[w] = job[w]
      BY <1>3, <2>1, HandlesTo DEF LatePlaces, JunkPlaces
  <2>3. pc[w] \in LatePlaces
      BY <1>3, <2>2, HandlesFrom DEF LatePlaces
  <2>. QED BY <2>2, <2>3 DEF FinJobOf
<1>. QED BY <1>1, <1>2, <1>3, OwnStep
-------------------------------------------------------------------------------
(* Where a session's messages come from. *)

Fresh(c, m) ==
    /\ m.owner # NULL => m.n <= Top(c)'
    /\ Late(m) /\ "mixed" \notin env.faults => Gone(c)'
Travel(c) ==
    \A m \in Messages :
        /\ Coming(c, m)' => Coming(c, m) \/ Fresh(c, m)
        /\ Leaving(c, m)' => Coming(c, m) \/ Leaving(c, m) \/ m.n = 0 \/ m.owner = NULL

LEMMA TopNat ==
    /\ TypeOK => \A c \in Clients : Top(c) \in Nat
    /\ TypeOK' => \A c \in Clients : Top(c)' \in Nat
<1>1. TypeOK => \A c \in Clients : Len(got[c]) \in Nat
    BY DEF TypeOK
<1>2. TypeOK' => \A c \in Clients : Len(got'[c]) \in Nat
    BY DEF TypeOK
<1>. QED BY <1>1, <1>2 DEF Top

LEMMA QuietTravel ==
    ASSUME NEW c \in Clients, Quiet(c)
    PROVE  Travel(c)
<1>. SUFFICES ASSUME NEW m \in Messages
              PROVE  (Coming(c, m)' => Coming(c, m)) /\ (Leaving(c, m)' => Leaving(c, m))
    BY DEF Travel
<1>1. \A s \in {In(c), Out(c)} : recvq'[s] = recvq[s] /\ sendq'[s] = sendq[s]
    BY DEF Quiet, Sides
<1>2. In(c)[1] = c /\ Out(c)[1] = c
    BY DEF In, Out
<1>3. \A s \in {In(c), Out(c)} : \A w \in Workers :
          pc'[w] = "trans_send" /\ job'[w] = s => pc[w] = "trans_send" /\ job[w] = s /\ buf'[w] = buf[w]
    BY <1>2 DEF Quiet
<1>4. Coming(c, m)' => Coming(c, m)
    BY <1>1, <1>3 DEF Coming, In, Out
<1>5. Leaving(c, m)' => Leaving(c, m)
    BY <1>1, <1>3 DEF Leaving, In, Out
<1>. QED BY <1>4, <1>5

LEMMA PullTravel ==
    ASSUME TypeOK, NEW w \in Workers, Pulls(w), NEW c \in Clients, job[w][1] = c
    PROVE  Travel(c)
<1>. SUFFICES ASSUME NEW m \in Messages
              PROVE  (Coming(c, m)' => Coming(c, m)) /\ (Leaving(c, m)' => Coming(c, m) \/ Leaving(c, m))
    BY DEF Travel
<1>0. PICK s \in Sides(c) : job[w] = s
    BY SidesAre DEF Pulls
<1>1. recvq[s] \in Seq(Messages) /\ recvq[s] # <<>> /\ recvq' = [recvq EXCEPT ![s] = Tail(@)]
      /\ s \in Socks /\ recvq \in [Socks -> Seq(Messages)]
    BY <1>0, SidesAre DEF Pulls, TypeOK
<1>2. Head(recvq[s]) \in Range(recvq[s]) /\ Range(Tail(recvq[s])) \subseteq Range(recvq[s])
    BY <1>1, TailRange
<1>3. \A r \in Sides(c) : Range(recvq'[r]) \subseteq Range(recvq[r]) /\ sendq'[r] = sendq[r]
    BY <1>1, <1>2, SidesAre DEF Pulls
<1>4. \A v \in Workers : pc'[v] = "trans_send" =>
          \/ pc[v] = "trans_send" /\ job'[v] = job[v] /\ buf'[v] = buf[v]
          \/ v = w /\ buf'[w] = Head(recvq[s])
  <2>. SUFFICES ASSUME NEW v \in Workers, pc'[v] = "trans_send"
                PROVE  \/ pc[v] = "trans_send" /\ job'[v] = job[v] /\ buf'[v] = buf[v]
                       \/ v = w /\ buf'[w] = Head(recvq[s])
      OBVIOUS
  <2>1. CASE v = w
      BY <1>0, <2>1 DEF Pulls
  <2>2. CASE v # w
      BY <2>2 DEF Pulls, Alone, Same
  <2>. QED BY <2>1, <2>2
<1>5. m = Head(recvq[s]) => Coming(c, m)
    BY <1>2 DEF Coming, Sides
<1>6. Coming(c, m)' => Coming(c, m)
    BY <1>3, <1>4, <1>5 DEF Coming, In, Out, Sides
<1>7. Leaving(c, m)' => Coming(c, m) \/ Leaving(c, m)
    BY <1>3, <1>4, <1>5 DEF Leaving, In, Out, Sides
<1>. QED BY <1>6, <1>7

\* What splice_sock makes up comes of a client that is gone, or from a peer that
\* was not there.
LEMMA MakeTravel ==
    ASSUME TypeOK, TypeOK', NEW w \in Workers, Makes(w), NEW c \in Clients, job[w][1] = c, LinkOf(c)
    PROVE  Travel(c)
<1>. SUFFICES ASSUME NEW m \in Messages
              PROVE  /\ Coming(c, m)' => Coming(c, m) \/ Fresh(c, m)
                     /\ Leaving(c, m)' => Leaving(c, m) \/ m.owner = NULL
    BY DEF Travel
<1>1. UNCHANGED <<recvq, sendq, client, link>> /\ buf'[w].owner = NULL /\ job'[w] = job[w] /\ Ended(job[w])
    BY DEF Makes, Garbage, Msg
<1>2. job[w] = In(c) => Gone(c)'
    BY <1>1 DEF LinkOf, Ended, Gone
<1>4. \A v \in Workers : pc'[v] = "trans_send" =>
          \/ pc[v] = "trans_send" /\ job'[v] = job[v] /\ buf'[v] = buf[v]
          \/ v = w
    BY DEF Makes, Alone, Same
<1>5. Coming(c, m)' => Coming(c, m) \/ (m.owner = NULL /\ Gone(c)')
    BY <1>1, <1>2, <1>4 DEF Coming, In, Out
<1>6. Leaving(c, m)' => Leaving(c, m) \/ m.owner = NULL
    BY <1>1, <1>4 DEF Leaving, In, Out
<1>. QED BY <1>5, <1>6 DEF Fresh

LEMMA PushTravel ==
    ASSUME TypeOK, TypeOK', NEW w \in Workers, Pushes(w), NEW c \in Clients, job[w][1] = c, FinJobOf(c)
    PROVE  Travel(c)
<1>. SUFFICES ASSUME NEW m \in Messages
              PROVE  /\ Coming(c, m)' => Coming(c, m) \/ Fresh(c, m)
                     /\ Leaving(c, m)' => Leaving(c, m) \/ m.n = 0 \/ m.owner = NULL
    BY DEF Travel
<1>1. PICK d \in Socks, x \in Messages : PushesTo(w, d, x)
    BY DEF Pushes
<1>0. pc[w] = "trans_send" => d = Other(job[w]) /\ x = buf[w]
    BY <1>1 DEF PushesTo, BackPlaces
<1>2. UNCHANGED recvq /\ pc'[w] \in {"idle", "finc_close"} /\ job[w] \in Sides(c)
    BY SidesAre DEF Pushes
<1>3. \A r \in Sides(c) : \/ Range(sendq'[r]) = Range(sendq[r])
                          \/ r = d /\ Range(sendq'[r]) = Range(sendq[r]) \cup {x}
  <2>1. sendq \in [Socks -> Seq(Messages)] /\ Sides(c) \subseteq Socks
      BY SidesAre DEF TypeOK
  <2>2. Range(Append(sendq[d], x)) = Range(sendq[d]) \cup {x}
      BY <2>1, AppendRange
  <2>. QED BY <1>1, <2>1, <2>2 DEF PushesTo
<1>4. \A v \in Workers : pc'[v] = "trans_send" => pc[v] = "trans_send" /\ job'[v] = job[v] /\ buf'[v] = buf[v]
    BY <1>2 DEF Pushes, Alone, Same
<1>5. d = Out(c) /\ m = x => Coming(c, m) \/ Fresh(c, m)
  <2>1. CASE pc[w] = "trans_send"
    <3>1. d = Out(c) => job[w] = In(c)
        BY <1>0, <1>2, <2>1, SidesAre DEF Sides
    <3>. QED BY <1>0, <2>1, <3>1 DEF Coming
  <2>2. CASE pc[w] \in {"ack_ok", "ack_error"}
    <3>1. x.n = 0 /\ ~ Late(x)
        BY <1>1, <2>2 DEF PushesTo, Late, BackPlaces
    <3>2. Top(c)' \in Nat
        BY TopNat
    <3>. QED BY <3>1, <3>2 DEF Fresh
  <2>3. CASE pc[w] \in BackPlaces
    <3>1. x.owner = NULL
        BY <1>1, <2>3, BackIs DEF PushesTo, BackPlaces
    <3>2. "mixed" \notin env.faults => Gone(c)
        BY <2>3 DEF FinJobOf, BackPlaces, LatePlaces, JunkPlaces
    <3>3. client' = client
        BY DEF Pushes
    <3>. QED BY <3>1, <3>2, <3>3 DEF Fresh, Gone
  <2>. QED BY <2>1, <2>2, <2>3 DEF Pushes
<1>6. d = In(c) /\ m = x => Leaving(c, m) \/ m.n = 0 \/ m.owner = NULL
  <2>1. CASE pc[w] = "trans_send"
    <3>1. d = In(c) => job[w] = Out(c)
        BY <1>0, <1>2, <2>1, SidesAre DEF Sides
    <3>. QED BY <1>0, <2>1, <3>1 DEF Leaving
  <2>2. CASE pc[w] # "trans_send"
      BY <1>1, <2>2, BackIs DEF PushesTo
  <2>. QED BY <2>1, <2>2
<1>7. Coming(c, m)' => Coming(c, m) \/ Fresh(c, m)
    BY <1>2, <1>3, <1>4, <1>5, SidesAre DEF Coming, In, Out
<1>8. Leaving(c, m)' => Leaving(c, m) \/ m.n = 0 \/ m.owner = NULL
  <2>1. m \in Range(sendq'[In(c)]) => m \in Range(sendq[In(c)]) \/ (In(c) = d /\ m = x)
      BY <1>3, SidesAre
  <2>. QED BY <1>4, <1>6, <2>1 DEF Leaving, In, Out
<1>. QED BY <1>7, <1>8

LEMMA EchoTravel ==
    ASSUME TypeOK, NEW s \in Socks, Echoes(s), NEW c \in Clients, s[1] = c
    PROVE  Travel(c)
<1>. SUFFICES ASSUME NEW m \in Messages
              PROVE  (Coming(c, m)' => Coming(c, m)) /\ (Leaving(c, m)' => Leaving(c, m))
    BY DEF Travel
<1>0. s = Out(c) /\ In(c) # s /\ In(c) \in Socks
    BY InSock DEF Echoes, In, Out, Socks
<1>1. recvq \in [Socks -> Seq(Messages)] /\ sendq \in [Socks -> Seq(Messages)] /\ sendq[s] # <<>>
    BY DEF TypeOK, Echoes
<1>2. /\ Head(sendq[s]) \in Messages /\ Head(sendq[s]) \in Range(sendq[s])
      /\ Range(Tail(sendq[s])) \subseteq Range(sendq[s])
    BY <1>1, TailRange
<1>3. Range(Append(recvq[s], Head(sendq[s]))) = Range(recvq[s]) \cup {Head(sendq[s])}
    BY <1>1, <1>2, AppendRange
<1>4. /\ Range(recvq'[s]) = Range(recvq[s]) \cup {Head(sendq[s])} /\ recvq'[In(c)] = recvq[In(c)]
      /\ Range(sendq'[s]) \subseteq Range(sendq[s]) /\ sendq'[In(c)] = sendq[In(c)]
    BY <1>0, <1>1, <1>2, <1>3 DEF Echoes
<1>5. Coming(c, m)' => Coming(c, m)
    BY <1>0, <1>2, <1>4 DEF Echoes, Coming, In, Out
<1>6. Leaving(c, m)' => Leaving(c, m)
    BY <1>0, <1>4 DEF Echoes, Leaving, In, Out
<1>. QED BY <1>5, <1>6

LEMMA SpeakTravel ==
    ASSUME TypeOK, TypeOK', NEW c \in Clients, Speaks(c)
    PROVE  Travel(c)
<1>. SUFFICES ASSUME NEW m \in Messages
              PROVE  /\ Coming(c, m)' => Coming(c, m) \/ Fresh(c, m)
                     /\ Leaving(c, m)' => Leaving(c, m)
    BY DEF Travel
<1>0. /\ In(c) \in Socks /\ Out(c) \in Socks /\ In(c) # Out(c) /\ <<c, "in">> = In(c)
      /\ recvq \in [Socks -> Seq(Messages)] /\ sendq \in [Socks -> Seq(Messages)]
      /\ client \in [Clients -> {"start", "syn", "reply", "send", "echo", "fin", "close", "done"}]
    BY SidesAre DEF TypeOK
<1>1. UNCHANGED worker
    BY DEF Speaks, SendSyn, RecvReply, SendTxt, RecvEcho, SendFin, HangUp
<1>2. Range(<<>>) = {}
    BY DEF Range
<1>3. /\ Range(sendq'[In(c)]) \subseteq Range(sendq[In(c)])
      /\ sendq'[Out(c)] = sendq[Out(c)] /\ recvq'[Out(c)] = recvq[Out(c)]
  <2>1. CASE SendSyn(c) \/ SendTxt(c) \/ SendFin(c)
      BY <1>0, <2>1 DEF SendSyn, SendTxt, SendFin, Write
  <2>2. CASE RecvReply(c) \/ RecvEcho(c)
    <3>1. sendq[In(c)] # <<>> /\ sendq' = [sendq EXCEPT ![In(c)] = Tail(@)] /\ recvq' = recvq
        BY <1>0, <2>2 DEF RecvReply, RecvEcho, Read
    <3>2. Range(Tail(sendq[In(c)])) \subseteq Range(sendq[In(c)])
        BY <1>0, <3>1, TailRange
    <3>. QED BY <1>0, <3>1, <3>2
  <2>3. CASE HangUp(c)
      BY <1>0, <1>2, <2>3 DEF HangUp
  <2>. QED BY <2>1, <2>2, <2>3 DEF Speaks
<1>4. \/ recvq'[In(c)] = recvq[In(c)]
      \/ \E x \in Messages : Fresh(c, x) /\ Range(recvq'[In(c)]) = Range(recvq[In(c)]) \cup {x}
  <2>0. Top(c)' \in Nat /\ Len(got[c]) \in Nat
    <3>1. Top(c)' \in Nat
        BY TopNat
    <3>. QED BY <3>1 DEF TypeOK
  <2>1. ASSUME NEW x \in Messages, Write(In(c), x), Fresh(c, x)
        PROVE  \E y \in Messages : Fresh(c, y) /\ Range(recvq'[In(c)]) = Range(recvq[In(c)]) \cup {y}
    <3>1. recvq' = [recvq EXCEPT ![In(c)] = Append(@, x)]
        BY <2>1 DEF Write
    <3>2. Range(Append(recvq[In(c)], x)) = Range(recvq[In(c)]) \cup {x}
        BY <1>0, AppendRange
    <3>. QED BY <1>0, <2>1, <3>1, <3>2
  <2>2. CASE SendSyn(c)
    <3>1. PICK type \in {"ack", "none"} : Write(In(c), Msg(type, c, 0))
        BY <1>0, <2>2 DEF SendSyn
    <3>2. Msg(type, c, 0) \in Messages
        BY MsgType DEF Types, ServerTypes
    <3>3. Fresh(c, Msg(type, c, 0))
        BY <2>0, NullIsNone DEF Fresh, Late, Msg
    <3>. QED BY <2>1, <3>1, <3>2, <3>3
  <2>3. CASE SendTxt(c)
    <3>1. Write(In(c), Msg("trans", c, Len(got[c]) + 1)) /\ client'[c] = "echo" /\ got' = got
        BY <1>0, <2>3 DEF SendTxt, ClientGoto
    <3>2. Msg("trans", c, Len(got[c]) + 1) \in Messages
        BY <2>0, MsgType DEF Types, ServerTypes
    <3>3. Fresh(c, Msg("trans", c, Len(got[c]) + 1))
        BY <2>0, <3>1, NullIsNone DEF Fresh, Late, Msg, Top
    <3>. QED BY <2>1, <3>1, <3>2, <3>3
  <2>4. CASE SendFin(c)
    <3>1. Write(In(c), Msg("fins", c, 0)) /\ client'[c] = "close"
        BY <1>0, <2>4 DEF SendFin, ClientGoto
    <3>2. Msg("fins", c, 0) \in Messages
        BY MsgType DEF Types, ServerTypes
    <3>3. Fresh(c, Msg("fins", c, 0))
        BY <2>0, <3>1 DEF Fresh, Msg, Gone
    <3>. QED BY <2>1, <3>1, <3>2, <3>3
  <2>5. CASE RecvReply(c) \/ RecvEcho(c) \/ HangUp(c)
      BY <2>5 DEF RecvReply, RecvEcho, HangUp
  <2>. QED BY <2>2, <2>3, <2>4, <2>5 DEF Speaks
<1>5. Coming(c, m)' => Coming(c, m) \/ Fresh(c, m)
    BY <1>1, <1>3, <1>4 DEF worker, Coming, In, Out
<1>6. Leaving(c, m)' => Leaving(c, m)
    BY <1>1, <1>3 DEF worker, Leaving, In, Out
<1>. QED BY <1>5, <1>6

\* What a client has sent, and that it is gone, only grows.
LEMMA TopGrows ==
    ASSUME TypeOK, TypeOK', NEW c \in Clients, Quiet(c) \/ (UNCHANGED <<client, got>>) \/ Speaks(c)
    PROVE  Top(c) <= Top(c)' /\ (Gone(c) => Gone(c)')
<1>0. Len(got[c]) \in Nat /\ Len(got'[c]) \in Nat
  <2>1. got[c] \in Seq(Messages) /\ got'[c] \in Seq(Messages)
      BY DEF TypeOK
  <2>. QED BY <2>1
<1>1. CASE Quiet(c) \/ UNCHANGED <<client, got>>
    BY <1>0, <1>1 DEF Quiet, Top, Gone
<1>2. CASE SendSyn(c) \/ RecvReply(c) \/ SendTxt(c) \/ SendFin(c) \/ HangUp(c)
  <2>1. /\ got' = got
        /\ \/ client[c] \in {"syn", "reply", "send"} /\ client'[c] \in {"reply", "send", "echo", "fin"}
           \/ client[c] = "fin" /\ client'[c] = "close"
           \/ client'[c] = "done"
      BY <1>2 DEF SendSyn, RecvReply, SendTxt, SendFin, HangUp, ClientGoto, Enter, TypeOK
  <2>. QED BY <1>0, <2>1 DEF Top, Gone
<1>3. CASE RecvEcho(c)
  <2>1. client[c] = "echo" /\ client'[c] \in {"send", "fin"} /\ Len(got'[c]) = Len(got[c]) + 1
    <3>1. /\ client[c] = "echo" /\ client' = [client EXCEPT ![c] = Enter(c, Len(got[c]) + 1)]
          /\ got' = [got EXCEPT ![c] = Append(@, Head(sendq[In(c)]))] /\ sendq[In(c)] # <<>>
        BY <1>3 DEF RecvEcho, ClientGoto, In
    <3>2. Head(sendq[In(c)]) \in Messages /\ got[c] \in Seq(Messages) /\ got \in [Clients -> Seq(Messages)]
        BY <3>1, InSock, TailRange DEF TypeOK
    <3>. QED BY <3>1, <3>2 DEF Enter, TypeOK
  <2>. QED BY <1>0, <2>1 DEF Top, Gone
<1>. QED BY <1>1, <1>2, <1>3 DEF Speaks

LEMMA BoundStep ==
    ASSUME TypeOK, TypeOK', env' = env, NEW c \in Clients, Travel(c), BoundOf(c), FinOf(c),
           Top(c) <= Top(c)', Gone(c) => Gone(c)'
    PROVE  BoundOf(c)' /\ FinOf(c)'
<1>0. Top(c) \in Nat /\ Top(c)' \in Nat
  <2>1. Top(c)' \in Nat
      BY TopNat
  <2>. QED BY <2>1, TopNat
<1>1. ASSUME NEW m \in Messages, Coming(c, m)' \/ Leaving(c, m)', m.owner # NULL
      PROVE  m.n <= Top(c)'
  <2>0. m.n \in Nat
      BY DEF Messages
  <2>1. CASE Coming(c, m) \/ Leaving(c, m)
    <3>1. m.n <= Top(c)
        BY <1>1, <2>1 DEF BoundOf
    <3>. QED BY <1>0, <2>0, <3>1
  <2>2. CASE Fresh(c, m)
      BY <1>1, <2>2 DEF Fresh
  <2>3. CASE m.n = 0
      BY <1>0, <2>3
  <2>. QED BY <1>1, <2>1, <2>2, <2>3 DEF Travel
<1>2. ASSUME NEW m \in Messages, Coming(c, m)', Late(m), "mixed" \notin env.faults PROVE Gone(c)'
    BY <1>2 DEF Travel, Fresh, FinOf
<1>3. BoundOf(c)'
    BY <1>1 DEF BoundOf
<1>4. FinOf(c)'
    BY <1>2 DEF FinOf, Late
<1>. QED BY <1>3, <1>4
-------------------------------------------------------------------------------
(* Whose turn it is. *)

LEMMA OneTail ==
    ASSUME NEW S, NEW q \in Seq(S), q # <<>>
    PROVE  /\ Len(q) = 1 => Tail(q) = <<>>
           /\ Head(q) = q[1] /\ 1 \in 1 .. Len(q)
<1>1. Len(q) \in Nat /\ Len(q) > 0 /\ Tail(q) \in Seq(S) /\ Len(Tail(q)) = Len(q) - 1 /\ Head(q) = q[1]
    BY TailRange
<1>2. Len(q) = 1 => Len(Tail(q)) = 0
    BY <1>1
<1>. QED BY <1>1, <1>2, EmptySeq

LEMMA OneAppend ==
    ASSUME NEW S, NEW q \in Seq(S), q = <<>>, NEW x \in S
    PROVE  Append(q, x) = <<x>> /\ Len(Append(q, x)) = 1 /\ \A i \in 1 .. Len(Append(q, x)) : Append(q, x)[i] = x
OBVIOUS

\* The place of the single message is unlike all others.
LEMMA AtPlace ==
    ASSUME NEW c \in Clients, NEW p, At(c, p)
    PROVE  /\ \A s \in Sides(c) : recvq[s] # <<>> =>
                 /\ Len(recvq[s]) = 1
                 /\ \A r \in Sides(c) : sendq[r] = <<>> /\ (r # s => recvq[r] = <<>>)
                 /\ \A v \in Workers : ~ Busy(v, c)
           /\ \A s \in Sides(c) : sendq[s] # <<>> =>
                 /\ Len(sendq[s]) = 1
                 /\ \A r \in Sides(c) : recvq[r] = <<>> /\ (r # s => sendq[r] = <<>>)
                 /\ \A v \in Workers : ~ Busy(v, c)
           /\ \A w \in Workers : Busy(w, c) =>
                 /\ \A r \in Sides(c) : recvq[r] = <<>> /\ sendq[r] = <<>>
                 /\ \A v \in Workers : Busy(v, c) => v = w
<1>1. \A s, r : <<"recvq", s>> # <<"sendq", r>> /\ <<"recvq", s>> # <<"worker", r>> /\ <<"sendq", s>> # <<"worker", r>>
    OBVIOUS
<1>2. \A t, s, r : <<t, s>> = <<t, r>> => s = r
    OBVIOUS
<1>. QED BY <1>1, <1>2 DEF At

\* Who acts in a session has its message: the client waits, and it was the only one.
LEMMA PullTurn ==
    ASSUME TypeOK, NEW w \in Workers, Pulls(w), NEW c \in Clients, job[w][1] = c, TurnOf(c),
           link[Out(c)] = "refused" => link'[Out(c)] = "refused"
    PROVE  TurnOf(c)'
<1>. SUFFICES ASSUME link'[Out(c)] # "refused" PROVE TurnOf(c)'
    BY DEF TurnOf
<1>0. link[Out(c)] # "refused" /\ client' = client /\ got' = got
    BY DEF Pulls
<1>1. PICK s \in Sides(c) : job[w] = s
    BY SidesAre DEF Pulls
<1>2. /\ s \in Socks /\ recvq[s] \in Seq(Messages) /\ recvq[s] # <<>> /\ recvq' = [recvq EXCEPT ![s] = Tail(@)]
      /\ sendq' = sendq /\ job'[w] = job[w] /\ recvq \in [Socks -> Seq(Messages)]
    BY <1>1, SidesAre DEF Pulls, TypeOK
<1>3. client[c] \notin {"start", "syn", "send"}
    BY <1>0, <1>2 DEF TurnOf, Silent
<1>4. ASSUME client[c] \in {"reply", "echo"}
      PROVE  /\ \A r \in Sides(c) : recvq'[r] = <<>> /\ sendq'[r] = <<>>
             /\ \A v \in Workers : Busy(v, c)' => v = w
  <2>1. PICK p : At(c, p)
      BY <1>0, <1>4 DEF TurnOf, Single
  <2>2. /\ Len(recvq[s]) = 1
        /\ \A r \in Sides(c) : sendq[r] = <<>> /\ (r # s => recvq[r] = <<>>)
        /\ \A v \in Workers : ~ Busy(v, c)
      BY <1>2, <2>1, AtPlace
  <2>3. Tail(recvq[s]) = <<>>
      BY <1>2, <2>2, OneTail
  <2>4. \A r \in Sides(c) : recvq'[r] = <<>> /\ sendq'[r] = <<>>
      BY <1>2, <2>2, <2>3, SidesAre
  <2>5. \A v \in Workers \ {w} : ~ Busy(v, c)'
      BY <2>2 DEF Pulls, Alone, Same, Busy
  <2>. QED BY <2>4, <2>5
<1>5. client[c] \in {"reply", "echo"} => At(c, <<"worker", w>>)'
    BY <1>4 DEF At, Sides, In, Out
<1>6. ASSUME client[c] = "echo" PROVE OnlyCurrent(c)'
  <2>1. Current(c)' = Current(c) /\ Head(recvq[s]) = Current(c)
    <3>1. Head(recvq[s]) = recvq[s][1] /\ 1 \in 1 .. Len(recvq[s])
        BY <1>2, OneTail
    <3>. QED BY <1>0, <1>6, <3>1 DEF Current, TurnOf, OnlyCurrent
  <2>2. Head(recvq[s]).type = "trans"
      BY <2>1 DEF Current, Msg
  <2>3. pc'[w] \in BusyPlaces => pc'[w] = "trans_send" /\ buf'[w] = Current(c)
      BY <1>1, <2>1, <2>2 DEF Pulls, BusyPlaces, AckPlaces
  <2>4. \A v \in Workers : Busy(v, c)' => pc'[v] = "trans_send" /\ buf'[v] = Current(c)
      BY <1>4, <1>6, <2>3 DEF Busy
  <2>5. \A r \in Sides(c) : recvq'[r] = <<>> /\ sendq'[r] = <<>> /\ Len(recvq'[r]) = 0 /\ Len(sendq'[r]) = 0
      BY <1>4, <1>6
  <2>6. \A r \in Sides(c) :
          /\ \A i \in 1 .. Len(recvq'[r]) : recvq'[r][i] = Current(c)
          /\ \A i \in 1 .. Len(sendq'[r]) : sendq'[r][i] = Current(c)
      BY <2>5
  <2>7. Sides(c)' = Sides(c)
      BY DEF Sides, In, Out
  <2>. QED BY <2>1, <2>4, <2>6, <2>7 DEF OnlyCurrent
<1>. QED BY <1>0, <1>3, <1>5, <1>6 DEF TurnOf, Single

LEMMA MakeTurn ==
    ASSUME TypeOK, NEW w \in Workers, Makes(w), NEW c \in Clients, job[w][1] = c, TurnOf(c), LinkOf(c)
    PROVE  TurnOf(c)'
<1>0. UNCHANGED <<client, got, link>> /\ Ended(job[w])
    BY DEF Makes
<1>1. job[w] = In(c) \/ job[w] = Out(c)
    BY SidesAre DEF Makes, Sides
<1>2. client[c] = "done" \/ link[Out(c)] = "refused"
    BY <1>0, <1>1 DEF LinkOf, Ended
<1>. QED BY <1>0, <1>2 DEF TurnOf

LEMMA PushTurn ==
    ASSUME TypeOK, JobInv, NEW w \in Workers, Pushes(w), NEW c \in Clients, job[w][1] = c, TurnOf(c),
           ~ Tangled, FinJobOf(c),
           link[Out(c)] = "refused" => link'[Out(c)] = "refused"
    PROVE  TurnOf(c)'
<1>. SUFFICES ASSUME link'[Out(c)] # "refused" PROVE TurnOf(c)'
    BY DEF TurnOf
<1>0. link[Out(c)] # "refused" /\ client' = client /\ got' = got /\ recvq' = recvq
      /\ pc'[w] \notin BusyPlaces
    BY DEF Pushes, BusyPlaces, AckPlaces
<1>1. PICK d \in Socks, x \in Messages : PushesTo(w, d, x)
    BY DEF Pushes
\* What goes back to a client that is there is an answer of its own.
<1>2. /\ Gone(c) \/ Busy(w, c)
      /\ sendq \in [Socks -> Seq(Messages)] /\ Sides(c) \subseteq Socks
  <2>1. pc[w] \in BackPlaces => Gone(c)
      BY DEF BackPlaces, LatePlaces, JunkPlaces, JobInv, FinJobOf, Tangled
  <2>. QED BY <2>1, SidesAre DEF Pushes, Busy, BusyPlaces, TypeOK
<1>3. client[c] \notin {"start", "syn", "send"}
    BY <1>0, <1>2 DEF TurnOf, Silent, Gone
<1>4. ASSUME client[c] \in {"reply", "echo"}
      PROVE  /\ \A r \in Sides(c) :
                   /\ recvq'[r] = <<>>
                   /\ sendq'[r] # <<>> => r = d /\ sendq'[r] = <<x>>
             /\ \A v \in Workers : ~ Busy(v, c)'
  <2>0. Busy(w, c)
      BY <1>2, <1>4 DEF Gone
  <2>1. PICK p : At(c, p)
      BY <1>0, <1>4 DEF TurnOf, Single
  <2>2. /\ \A r \in Sides(c) : recvq[r] = <<>> /\ sendq[r] = <<>>
        /\ \A v \in Workers : Busy(v, c) => v = w
      BY <2>0, <2>1, AtPlace
  <2>3. \A v \in Workers : ~ Busy(v, c)'
      BY <1>0, <2>2 DEF Pushes, Alone, Same, Busy
  <2>4. \A r \in Sides(c) : sendq'[r] # <<>> => r = d /\ sendq'[r] = <<x>>
      BY <1>1, <1>2, <2>2 DEF PushesTo
  <2>. QED BY <1>0, <2>2, <2>3, <2>4
<1>5. client[c] \in {"reply", "echo"} => At(c, <<"sendq", d>>)'
  <2>1. Len(<<x>>) = 1
      OBVIOUS
  <2>. QED BY <1>4, <2>1 DEF At, Sides, In, Out
<1>6. ASSUME client[c] = "echo" PROVE OnlyCurrent(c)'
  <2>1. Current(c)' = Current(c) /\ pc[w] = "trans_send" /\ buf[w] = Current(c)
      BY <1>0, <1>2, <1>6 DEF Current, TurnOf, OnlyCurrent, Gone
  <2>2. x = Current(c)
      BY <1>1, <2>1 DEF PushesTo, BackPlaces
  <2>3. Sides(c)' = Sides(c)
      BY DEF Sides, In, Out
  <2>4. Len(<<>>) = 0 /\ Len(<<x>>) = 1 /\ \A i \in 1 .. 1 : <<x>>[i] = x
      OBVIOUS
  <2>5. \A r \in Sides(c) :
          /\ \A i \in 1 .. Len(recvq'[r]) : recvq'[r][i] = Current(c)
          /\ \A i \in 1 .. Len(sendq'[r]) : sendq'[r][i] = Current(c)
    <3>. SUFFICES ASSUME NEW r \in Sides(c)
                  PROVE  /\ \A i \in 1 .. Len(recvq'[r]) : recvq'[r][i] = Current(c)
                         /\ \A i \in 1 .. Len(sendq'[r]) : sendq'[r][i] = Current(c)
        OBVIOUS
    <3>1. recvq'[r] = <<>> /\ (sendq'[r] = <<>> \/ sendq'[r] = <<x>>)
        BY <1>4, <1>6
    <3>. QED BY <2>2, <2>4, <3>1
  <2>. QED BY <1>4, <1>6, <2>1, <2>3, <2>5 DEF OnlyCurrent
<1>. QED BY <1>0, <1>3, <1>5, <1>6 DEF TurnOf, Single

LEMMA EchoTurn ==
    ASSUME TypeOK, NEW s \in Socks, Echoes(s), NEW c \in Clients, s[1] = c, TurnOf(c),
           link[Out(c)] = "refused" => link'[Out(c)] = "refused"
    PROVE  TurnOf(c)'
<1>. SUFFICES ASSUME link'[Out(c)] # "refused" PROVE TurnOf(c)'
    BY DEF TurnOf
<1>0. link[Out(c)] # "refused" /\ UNCHANGED <<client, got, pc, job, buf>> /\ s \in Sides(c)
    BY SidesAre DEF Echoes
<1>1. /\ sendq[s] # <<>> /\ recvq \in [Socks -> Seq(Messages)] /\ sendq \in [Socks -> Seq(Messages)]
      /\ Sides(c) \subseteq Socks /\ Head(sendq[s]) \in Messages
    BY SidesAre, TailRange DEF Echoes, TypeOK
<1>2. client[c] \notin {"start", "syn", "send"}
    BY <1>0, <1>1 DEF TurnOf, Silent
<1>. DEFINE x == Head(sendq[s])
<1>3. ASSUME client[c] \in {"reply", "echo"}
      PROVE  /\ \A r \in Sides(c) :
                   /\ sendq'[r] = <<>>
                   /\ recvq'[r] # <<>> => r = s /\ recvq'[r] = <<x>>
             /\ \A v \in Workers : ~ Busy(v, c)'
  <2>1. PICK p : At(c, p)
      BY <1>0, <1>3 DEF TurnOf, Single
  <2>2. /\ Len(sendq[s]) = 1
        /\ \A r \in Sides(c) : recvq[r] = <<>> /\ (r # s => sendq[r] = <<>>)
        /\ \A v \in Workers : ~ Busy(v, c)
      BY <1>0, <1>1, <2>1, AtPlace
  <2>3. Tail(sendq[s]) = <<>> /\ Append(recvq[s], x) = <<x>>
      BY <1>0, <1>1, <2>2, OneTail, OneAppend
  <2>. HIDE DEF x
  <2>4. \A r \in Sides(c) : /\ sendq'[r] = <<>>
                            /\ recvq'[r] # <<>> => r = s /\ recvq'[r] = <<x>>
      BY <1>1, <2>2, <2>3 DEF Echoes, x
  <2>5. \A v \in Workers : ~ Busy(v, c)'
      BY <1>0, <2>2 DEF Busy
  <2>. QED BY <2>4, <2>5
<1>4. client[c] \in {"reply", "echo"} => At(c, <<"recvq", s>>)'
  <2>1. Len(<<x>>) = 1
      OBVIOUS
  <2>. HIDE DEF x
  <2>. QED BY <1>3, <2>1 DEF At, Sides, In, Out
<1>5. ASSUME client[c] = "echo" PROVE OnlyCurrent(c)'
  <2>1. Current(c)' = Current(c) /\ x = Current(c)
    <3>1. Head(sendq[s]) = sendq[s][1] /\ 1 \in 1 .. Len(sendq[s])
        BY <1>1, OneTail
    <3>. QED BY <1>0, <1>5, <3>1 DEF Current, TurnOf, OnlyCurrent
  <2>2. Sides(c)' = Sides(c)
      BY DEF Sides, In, Out
  <2>3. Len(<<>>) = 0 /\ Len(<<x>>) = 1 /\ \A i \in 1 .. 1 : <<x>>[i] = x
      OBVIOUS
  <2>. HIDE DEF x
  <2>4. \A r \in Sides(c) :
          /\ \A i \in 1 .. Len(recvq'[r]) : recvq'[r][i] = Current(c)
          /\ \A i \in 1 .. Len(sendq'[r]) : sendq'[r][i] = Current(c)
    <3>. SUFFICES ASSUME NEW r \in Sides(c)
                  PROVE  /\ \A i \in 1 .. Len(recvq'[r]) : recvq'[r][i] = Current(c)
                         /\ \A i \in 1 .. Len(sendq'[r]) : sendq'[r][i] = Current(c)
        OBVIOUS
    <3>1. sendq'[r] = <<>> /\ (recvq'[r] = <<>> \/ recvq'[r] = <<x>>)
        BY <1>3, <1>5
    <3>. QED BY <2>1, <2>3, <3>1
  <2>. QED BY <1>3, <1>5, <2>1, <2>2, <2>4 DEF OnlyCurrent
<1>. QED BY <1>0, <1>2, <1>4, <1>5 DEF TurnOf, Single

\* The client's turn: what it writes is the only message, what it reads was.
LEMMA WriteTurn ==
    ASSUME TypeOK, NEW c \in Clients, NEW x \in Messages, Write(In(c), x), UNCHANGED <<sendq, worker, got>>,
           Silent(c)
    PROVE  Single(c)' /\ (x = Current(c) => OnlyCurrent(c)')
<1>1. /\ In(c) \in Sides(c) /\ Sides(c) \subseteq Socks /\ recvq \in [Socks -> Seq(Messages)]
      /\ recvq' = [recvq EXCEPT ![In(c)] = Append(@, x)]
    BY SidesAre DEF Write, TypeOK
<1>2. Append(recvq[In(c)], x) = <<x>>
    BY <1>1, OneAppend DEF Silent
<1>3. \A r \in Sides(c) : sendq'[r] = <<>> /\ (recvq'[r] # <<>> => r = In(c) /\ recvq'[r] = <<x>>)
    BY <1>1, <1>2 DEF Silent
<1>4. \A v \in Workers : ~ Busy(v, c)'
    BY DEF Silent, Busy, worker
<1>5. Len(<<>>) = 0 /\ Len(<<x>>) = 1 /\ \A i \in 1 .. 1 : <<x>>[i] = x
    OBVIOUS
<1>6. At(c, <<"recvq", In(c)>>)'
    BY <1>3, <1>4, <1>5 DEF At, Sides, In, Out
<1>7. ASSUME x = Current(c) PROVE OnlyCurrent(c)'
  <2>1. Current(c)' = Current(c) /\ Sides(c)' = Sides(c)
      BY DEF Current, Sides, In, Out
  <2>2. \A r \in Sides(c) :
          /\ \A i \in 1 .. Len(recvq'[r]) : recvq'[r][i] = Current(c)
          /\ \A i \in 1 .. Len(sendq'[r]) : sendq'[r][i] = Current(c)
    <3>. SUFFICES ASSUME NEW r \in Sides(c)
                  PROVE  /\ \A i \in 1 .. Len(recvq'[r]) : recvq'[r][i] = Current(c)
                         /\ \A i \in 1 .. Len(sendq'[r]) : sendq'[r][i] = Current(c)
        OBVIOUS
    <3>1. sendq'[r] = <<>> /\ (recvq'[r] = <<>> \/ recvq'[r] = <<x>>)
        BY <1>3
    <3>. QED BY <1>5, <1>7, <3>1
  <2>. QED BY <1>4, <2>1, <2>2 DEF OnlyCurrent
<1>. QED BY <1>6, <1>7 DEF Single

LEMMA ReadTurn ==
    ASSUME TypeOK, NEW c \in Clients, Read(c), sendq[In(c)] # <<>>, UNCHANGED <<recvq, worker>>, Single(c)
    PROVE  Silent(c)'
<1>1. /\ In(c) \in Sides(c) /\ Sides(c) \subseteq Socks /\ sendq \in [Socks -> Seq(Messages)]
      /\ sendq' = [sendq EXCEPT ![In(c)] = Tail(@)]
    BY SidesAre DEF Read, TypeOK
<1>2. PICK p : At(c, p)
    BY DEF Single
<1>3. /\ Len(sendq[In(c)]) = 1
      /\ \A r \in Sides(c) : recvq[r] = <<>> /\ (r # In(c) => sendq[r] = <<>>)
      /\ \A v \in Workers : ~ Busy(v, c)
    BY <1>1, <1>2, AtPlace
<1>4. Tail(sendq[In(c)]) = <<>>
    BY <1>1, <1>3, OneTail
<1>5. \A r \in Sides(c) : recvq'[r] = <<>> /\ sendq'[r] = <<>>
    BY <1>1, <1>3, <1>4
<1>6. \A v \in Workers : ~ Busy(v, c)'
    BY <1>3 DEF Busy, worker
<1>. QED BY <1>5, <1>6 DEF Silent, Sides, In, Out

LEMMA SpeakTurn ==
    ASSUME TypeOK, NEW c \in Clients, Speaks(c), TurnOf(c),
           link[Out(c)] = "refused" => link'[Out(c)] = "refused"
    PROVE  TurnOf(c)'
<1>. SUFFICES ASSUME link'[Out(c)] # "refused" PROVE TurnOf(c)'
    BY DEF TurnOf
<1>0. /\ link[Out(c)] # "refused" /\ UNCHANGED worker /\ <<c, "in">> = In(c)
      /\ client \in [Clients -> {"start", "syn", "reply", "send", "echo", "fin", "close", "done"}]
      /\ got \in [Clients -> Seq(Messages)] /\ Len(got[c]) \in Nat
  <2>1. UNCHANGED worker
      BY DEF Speaks, SendSyn, RecvReply, SendTxt, RecvEcho, SendFin, HangUp
  <2>2. /\ client \in [Clients -> {"start", "syn", "reply", "send", "echo", "fin", "close", "done"}]
        /\ got \in [Clients -> Seq(Messages)]
      BY DEF TypeOK
  <2>3. got[c] \in Seq(Messages)
      BY <2>2
  <2>4. Len(got[c]) \in Nat
      BY <2>3
  <2>5. link[Out(c)] # "refused"
      OBVIOUS
  <2>. QED BY <2>1, <2>2, <2>4, <2>5 DEF In
<1>1. \A i \in 1 .. Len(got[c]) : got[c][i] = Msg("trans", c, i)
    BY <1>0 DEF TurnOf
<1>2. CASE SendSyn(c)
  <2>1. PICK type \in {"ack", "none"} : Write(In(c), Msg(type, c, 0))
      BY <1>0, <1>2 DEF SendSyn
  <2>2. Msg(type, c, 0) \in Messages
      BY MsgType DEF Types, ServerTypes
  <2>3. client[c] = "syn" /\ client'[c] = "reply" /\ UNCHANGED <<sendq, got>>
      BY <1>0, <1>2 DEF SendSyn, ClientGoto
  <2>4. Silent(c)
      BY <1>0, <2>3 DEF TurnOf
  <2>5. Single(c)'
      BY <1>0, <2>1, <2>2, <2>3, <2>4, WriteTurn
  <2>. QED BY <1>1, <2>3, <2>5 DEF TurnOf
<1>3. CASE SendTxt(c)
  <2>. DEFINE x == Msg("trans", c, Len(got[c]) + 1)
  <2>1. /\ Write(In(c), x) /\ client[c] = "send" /\ client'[c] = "echo" /\ UNCHANGED <<sendq, got>>
      BY <1>0, <1>3 DEF SendTxt, ClientGoto
  <2>2. x \in Messages /\ x = Current(c)
      BY <1>0, MsgType DEF Types, ServerTypes, Current
  <2>3. Silent(c)
      BY <1>0, <2>1 DEF TurnOf
  <2>. HIDE DEF x
  <2>4. Single(c)' /\ OnlyCurrent(c)'
      BY <1>0, <2>1, <2>2, <2>3, WriteTurn
  <2>. QED BY <1>1, <2>1, <2>4 DEF TurnOf
<1>4. CASE RecvReply(c)
  <2>1. /\ client[c] = "reply" /\ sendq[In(c)] # <<>> /\ Read(c) /\ client'[c] \in {"send", "fin"}
        /\ UNCHANGED <<recvq, got>>
      BY <1>0, <1>4 DEF RecvReply, ClientGoto, Enter
  <2>2. Single(c)
      BY <1>0, <2>1 DEF TurnOf
  <2>3. Silent(c)'
      BY <1>0, <2>1, <2>2, ReadTurn
  <2>. QED BY <1>1, <2>1, <2>3 DEF TurnOf
<1>5. CASE RecvEcho(c)
  <2>. DEFINE x == Head(sendq[In(c)])
  <2>1. /\ client[c] = "echo" /\ sendq[In(c)] # <<>> /\ Read(c) /\ client'[c] \in {"send", "fin"}
        /\ got'[c] = Append(got[c], x) /\ UNCHANGED recvq
      BY <1>0, <1>5 DEF RecvEcho, ClientGoto, Enter
  <2>2. Single(c) /\ OnlyCurrent(c)
      BY <1>0, <2>1 DEF TurnOf
  <2>3. Silent(c)'
      BY <1>0, <2>1, <2>2, ReadTurn
  <2>4. x = Msg("trans", c, Len(got[c]) + 1) /\ x \in Messages
    <3>1. sendq[In(c)] \in Seq(Messages) /\ In(c) \in Sides(c)
        BY SidesAre DEF TypeOK
    <3>2. x = sendq[In(c)][1] /\ 1 \in 1 .. Len(sendq[In(c)]) /\ x \in Messages
        BY <2>1, <3>1, OneTail, TailRange
    <3>. QED BY <2>2, <3>1, <3>2 DEF OnlyCurrent, Current
  <2>. HIDE DEF x
  <2>5. \A i \in 1 .. Len(got'[c]) : got'[c][i] = Msg("trans", c, i)
    <3>1. /\ Len(got'[c]) = Len(got[c]) + 1 /\ got'[c][Len(got[c]) + 1] = x
          /\ \A i \in 1 .. Len(got[c]) : got'[c][i] = got[c][i]
        BY <1>0, <2>1, <2>4
    <3>2. \A i \in 1 .. Len(got'[c]) : i \in 1 .. Len(got[c]) \/ i = Len(got[c]) + 1
        BY <1>0, <3>1
    <3>. QED BY <1>1, <2>4, <3>1, <3>2
  <2>. QED BY <2>1, <2>3, <2>5 DEF TurnOf
<1>6. CASE SendFin(c) \/ HangUp(c)
  <2>1. client'[c] \in {"close", "done"} /\ got' = got
      BY <1>0, <1>6 DEF SendFin, HangUp, ClientGoto
  <2>. QED BY <1>1, <2>1 DEF TurnOf
<1>. QED BY <1>2, <1>3, <1>4, <1>5, <1>6 DEF Speaks
-------------------------------------------------------------------------------
(* The way of the current message. *)

Drops(q, r, s) == q \in [Socks -> Seq(Messages)] /\ q[s] # <<>> /\ r = [q EXCEPT ![s] = Tail(@)]
Gains(q, r, s, x) == q \in [Socks -> Seq(Messages)] /\ x \in Messages /\ r = [q EXCEPT ![s] = Append(@, x)]

\* The first message of a socket of the session leaves its queue ...
LEMMA HeadLeaves ==
    ASSUME NEW c \in Clients, NEW s \in Sides(c), NEW m, NEW q, NEW r, Drops(q, r, s)
    PROVE  /\ None(q, c, m) => None(r, c, m) /\ Head(q[s]) # m
           /\ One(q, c, m) /\ Head(q[s]) = m => None(r, c, m)
           /\ One(q, c, m) /\ Head(q[s]) # m => One(r, c, m)
<1>0. /\ s \in Socks /\ q[s] \in Seq(Messages) /\ Sides(c) \subseteq Socks
      /\ q \in [Socks -> Seq(Messages)] /\ q[s] # <<>> /\ r = [q EXCEPT ![s] = Tail(@)]
    BY SidesAre DEF Drops
<1>1. /\ Head(q[s]) = q[s][1] /\ 1 \in 1 .. Len(q[s]) /\ Len(q[s]) \in Nat
      /\ Len(Tail(q[s])) = Len(q[s]) - 1
      /\ \A i \in 1 .. Len(Tail(q[s])) : Tail(q[s])[i] = q[s][i + 1]
    BY <1>0, TailRange, OneTail
<1>2. r[s] = Tail(q[s]) /\ \A t \in Sides(c) : t # s => r[t] = q[t]
    BY <1>0
<1>3. \A i \in 1 .. Len(r[s]) : i + 1 \in 1 .. Len(q[s]) /\ i + 1 # 1 /\ r[s][i] = q[s][i + 1]
  <2>1. \A i \in 1 .. Len(q[s]) - 1 : i + 1 \in 1 .. Len(q[s]) /\ i + 1 # 1
      BY <1>1
  <2>. QED BY <1>1, <1>2, <2>1
<1>4. \A i \in 1 .. Len(q[s]) : i # 1 => i - 1 \in 1 .. Len(r[s]) /\ r[s][i - 1] = q[s][i]
  <2>. SUFFICES ASSUME NEW i \in 1 .. Len(q[s]), i # 1
                PROVE  i - 1 \in 1 .. Len(r[s]) /\ r[s][i - 1] = q[s][i]
      OBVIOUS
  <2>1. i - 1 \in 1 .. Len(Tail(q[s])) /\ (i - 1) + 1 = i
      BY <1>1
  <2>. QED BY <1>1, <1>2, <2>1
<1>5. ASSUME None(q, c, m) PROVE None(r, c, m) /\ Head(q[s]) # m
  <2>1. \A t \in Sides(c) : \A i \in 1 .. Len(q[t]) : q[t][i] # m
      BY <1>5 DEF None
  <2>2. \A t \in Sides(c) : \A i \in 1 .. Len(r[t]) : r[t][i] # m
    <3>. SUFFICES ASSUME NEW t \in Sides(c), NEW i \in 1 .. Len(r[t]) PROVE r[t][i] # m
        OBVIOUS
    <3>1. CASE t = s
        BY <1>3, <2>1, <3>1
    <3>2. CASE t # s
        BY <1>2, <2>1, <3>2
    <3>. QED BY <3>1, <3>2
  <2>. QED BY <1>1, <2>1, <2>2 DEF None
<1>6. ASSUME One(q, c, m)
      PROVE  /\ Head(q[s]) = m => None(r, c, m)
             /\ Head(q[s]) # m => One(r, c, m)
  <2>0. PICK t \in Sides(c) : \E i \in 1 .. Len(q[t]) :
            /\ q[t][i] = m
            /\ \A u \in Sides(c) : \A j \in 1 .. Len(q[u]) : q[u][j] = m => u = t /\ j = i
      BY <1>6 DEF One
  <2>1. PICK i \in 1 .. Len(q[t]) :
            /\ q[t][i] = m
            /\ \A u \in Sides(c) : \A j \in 1 .. Len(q[u]) : q[u][j] = m => u = t /\ j = i
      BY <2>0
  <2>2. ASSUME Head(q[s]) = m PROVE None(r, c, m)
    <3>1. t = s /\ i = 1
        BY <1>1, <2>1, <2>2
    <3>. SUFFICES ASSUME NEW u \in Sides(c), NEW j \in 1 .. Len(r[u]), r[u][j] = m PROVE FALSE
        BY DEF None
    <3>2. CASE u = s
        BY <1>3, <2>1, <3>1, <3>2
    <3>3. CASE u # s
        BY <1>2, <2>1, <3>1, <3>3
    <3>. QED BY <3>2, <3>3
  <2>3. ASSUME Head(q[s]) # m PROVE One(r, c, m)
    <3>1. t = s => i # 1
        BY <1>1, <2>1, <2>3
    <3>2. PICK k \in 1 .. Len(r[t]) : r[t][k] = m /\ (t = s => i = k + 1) /\ (t # s => i = k)
      <4>1. CASE t = s
        <5>1. i - 1 \in 1 .. Len(r[s]) /\ r[s][i - 1] = m /\ i = (i - 1) + 1
            BY <1>1, <1>4, <2>1, <3>1, <4>1
        <5>. QED BY <4>1, <5>1
      <4>2. CASE t # s
          BY <1>2, <2>1, <4>2
      <4>. QED BY <4>1, <4>2
    <3>3. ASSUME NEW u \in Sides(c), NEW j \in 1 .. Len(r[u]), r[u][j] = m PROVE u = t /\ j = k
      <4>1. CASE u = s
        <5>0. j + 1 \in 1 .. Len(q[s]) /\ q[s][j + 1] = m
            BY <1>3, <3>3, <4>1
        <5>1. u = t /\ j + 1 = i
            BY <2>1, <4>1, <5>0
        <5>2. j + 1 = k + 1 /\ j \in Nat /\ k \in Nat
            BY <3>2, <4>1, <5>1
        <5>. QED BY <5>1, <5>2
      <4>2. CASE u # s
          BY <1>2, <2>1, <3>2, <3>3, <4>2
      <4>. QED BY <4>1, <4>2
    <3>. QED BY <3>2, <3>3 DEF One
  <2>. QED BY <2>2, <2>3
<1>. QED BY <1>5, <1>6

\* ... and another one comes last.
LEMMA LastComes ==
    ASSUME NEW c \in Clients, NEW s \in Sides(c), NEW m, NEW q, NEW r, NEW x, Gains(q, r, s, x)
    PROVE  /\ x # m /\ None(q, c, m) => None(r, c, m)
           /\ x # m /\ One(q, c, m) => One(r, c, m)
           /\ x = m /\ None(q, c, m) => One(r, c, m)
<1>0. /\ s \in Socks /\ q[s] \in Seq(Messages) /\ Sides(c) \subseteq Socks
      /\ q \in [Socks -> Seq(Messages)] /\ x \in Messages /\ r = [q EXCEPT ![s] = Append(@, x)]
    BY SidesAre DEF Gains
<1>1. /\ Len(q[s]) \in Nat /\ Len(Append(q[s], x)) = Len(q[s]) + 1 /\ Append(q[s], x)[Len(q[s]) + 1] = x
      /\ \A i \in 1 .. Len(q[s]) : Append(q[s], x)[i] = q[s][i]
    BY <1>0
<1>2. r[s] = Append(q[s], x) /\ \A t \in Sides(c) : t # s => r[t] = q[t]
    BY <1>0
<1>. DEFINE last == Len(q[s]) + 1
<1>3. /\ last \in 1 .. Len(r[s]) /\ r[s][last] = x
      /\ \A t \in Sides(c) : \A i \in 1 .. Len(q[t]) : i \in 1 .. Len(r[t]) /\ r[t][i] = q[t][i]
  <2>1. \A i \in 1 .. Len(q[s]) : i \in 1 .. Len(r[s]) /\ r[s][i] = q[s][i]
      BY <1>1, <1>2
  <2>2. last \in 1 .. Len(r[s]) /\ r[s][last] = x
      BY <1>1, <1>2
  <2>. QED BY <1>2, <2>1, <2>2
<1>4. ASSUME NEW t \in Sides(c), NEW i \in 1 .. Len(r[t])
      PROVE  (i \in 1 .. Len(q[t]) /\ r[t][i] = q[t][i]) \/ (t = s /\ i = last /\ r[t][i] = x)
  <2>1. CASE t = s
    <3>1. i \in 1 .. Len(q[s]) \/ i = last
        BY <1>1, <1>2, <2>1
    <3>. QED BY <1>3, <2>1, <3>1
  <2>2. CASE t # s
      BY <1>2, <2>2
  <2>. QED BY <2>1, <2>2
<1>. HIDE DEF last
<1>5. ASSUME x # m, None(q, c, m) PROVE None(r, c, m)
    BY <1>4, <1>5 DEF None
<1>6. ASSUME x # m, One(q, c, m) PROVE One(r, c, m)
  <2>0. PICK t \in Sides(c) : \E i \in 1 .. Len(q[t]) :
            /\ q[t][i] = m
            /\ \A u \in Sides(c) : \A j \in 1 .. Len(q[u]) : q[u][j] = m => u = t /\ j = i
      BY <1>6 DEF One
  <2>1. PICK i \in 1 .. Len(q[t]) :
            /\ q[t][i] = m
            /\ \A u \in Sides(c) : \A j \in 1 .. Len(q[u]) : q[u][j] = m => u = t /\ j = i
      BY <2>0
  <2>2. i \in 1 .. Len(r[t]) /\ r[t][i] = m
      BY <1>3, <2>1
  <2>3. \A u \in Sides(c) : \A j \in 1 .. Len(r[u]) : r[u][j] = m => u = t /\ j = i
      BY <1>4, <1>6, <2>1
  <2>. QED BY <2>2, <2>3 DEF One
<1>7. ASSUME x = m, None(q, c, m) PROVE One(r, c, m)
  <2>1. \A u \in Sides(c) : \A j \in 1 .. Len(r[u]) : r[u][j] = m => u = s /\ j = last
      BY <1>4, <1>7 DEF None
  <2>. QED BY <1>3, <1>7, <2>1 DEF One
<1>. QED BY <1>5, <1>6, <1>7

LEMMA PullWay ==
    ASSUME TypeOK, NEW w \in Workers, Pulls(w), NEW c \in Clients, job[w][1] = c, WayOf(c), FinJobOf(c),
           env' = env
    PROVE  WayOf(c)'
<1>. SUFFICES ASSUME "mixed" \notin env.faults, client'[c] = "echo", NEW m \in Messages, m = Current(c)'
              PROVE  WayAt(c, m)'
    BY DEF WayOf
<1>0. client[c] = "echo" /\ m = Current(c) /\ sendq' = sendq
    BY DEF Pulls, Current
<1>1. WayAt(c, m)
    BY <1>0 DEF WayOf
<1>2. PICK s \in Sides(c) : job[w] = s
    BY SidesAre DEF Pulls
<1>3. /\ recvq \in [Socks -> Seq(Messages)] /\ recvq[s] # <<>> /\ recvq' = [recvq EXCEPT ![s] = Tail(@)]
    BY <1>2 DEF Pulls, TypeOK
<1>4. /\ None(recvq, c, m) => None(recvq', c, m) /\ Head(recvq[s]) # m
      /\ One(recvq, c, m) /\ Head(recvq[s]) = m => None(recvq', c, m)
      /\ One(recvq, c, m) /\ Head(recvq[s]) # m => One(recvq', c, m)
  <2>1. Drops(recvq, recvq', s)
      BY <1>3 DEF Drops
  <2>. QED BY <2>1, HeadLeaves
<1>5. \A v \in Workers \ {w} : Hand(v, c, m)' <=> Hand(v, c, m)
    BY DEF Pulls, Alone, Same, Hand
<1>6. ~ Hand(w, c, m)
    BY DEF Pulls, Hand
<1>7. pc[w] # "fin_recv"
    BY <1>0 DEF FinJobOf, Gone, LatePlaces
<1>8. Hand(w, c, m)' <=> Head(recvq[s]) = m
  <2>1. CASE pc[w] = "trans_recv"
      BY <1>2, <2>1 DEF Pulls, Hand
  <2>2. CASE pc[w] = "ack_recv"
    <3>1. Head(recvq[s]).type # "trans" /\ pc'[w] = "ack_decrypt"
        BY <1>2, <2>2 DEF Pulls
    <3>2. m.type = "trans"
        BY <1>0 DEF Current, Msg
    <3>. QED BY <3>1, <3>2 DEF Hand
  <2>. QED BY <1>7, <2>1, <2>2 DEF Pulls
<1>9. CASE Head(recvq[s]) = m
  <2>1. None(recvq', c, m) /\ None(sendq', c, m) /\ NoHand(c, m)
      BY <1>0, <1>1, <1>4, <1>9 DEF WayAt
  <2>2. OneHand(c, m)'
      BY <1>5, <1>8, <1>9, <2>1 DEF OneHand, NoHand
  <2>. QED BY <2>1, <2>2, Primes DEF WayAt
<1>10. CASE Head(recvq[s]) # m
  <2>1. \A v \in Workers : Hand(v, c, m)' <=> Hand(v, c, m)
      BY <1>5, <1>6, <1>8, <1>10
  <2>2. (NoHand(c, m) => NoHand(c, m)') /\ (OneHand(c, m) => OneHand(c, m)')
      BY <2>1 DEF NoHand, OneHand
  <2>. QED BY <1>0, <1>1, <1>4, <1>10, <2>2, Primes DEF WayAt
<1>. QED BY <1>9, <1>10

LEMMA MakeWay ==
    ASSUME TypeOK, NEW w \in Workers, Makes(w), NEW c \in Clients, job[w][1] = c, WayOf(c), env' = env
    PROVE  WayOf(c)'
<1>. SUFFICES ASSUME "mixed" \notin env.faults, client'[c] = "echo", NEW m \in Messages, m = Current(c)'
              PROVE  WayAt(c, m)'
    BY DEF WayOf
<1>0. client[c] = "echo" /\ m = Current(c) /\ sendq' = sendq /\ recvq' = recvq
    BY DEF Makes, Current
<1>1. WayAt(c, m)
    BY <1>0 DEF WayOf
<1>2. \A v \in Workers \ {w} : Hand(v, c, m)' <=> Hand(v, c, m)
    BY DEF Makes, Alone, Same, Hand
<1>3. ~ Hand(w, c, m)
    BY DEF Makes, Hand
<1>4. ~ Hand(w, c, m)'
  <2>1. buf'[w].owner = NULL
      BY GarbageIs DEF Makes
  <2>2. m.owner = c /\ c # NULL
      BY <1>0, NullIsNone DEF Current, Msg
  <2>. QED BY <2>1, <2>2 DEF Hand
<1>5. (NoHand(c, m) => NoHand(c, m)') /\ (OneHand(c, m) => OneHand(c, m)')
    BY <1>2, <1>3, <1>4 DEF NoHand, OneHand
<1>. QED BY <1>0, <1>1, <1>5, Primes DEF WayAt

LEMMA PushWay ==
    ASSUME TypeOK, NEW w \in Workers, Pushes(w), NEW c \in Clients, job[w][1] = c, WayOf(c), LinkOf(c),
           env' = env
    PROVE  WayOf(c)'
<1>. SUFFICES ASSUME "mixed" \notin env.faults, client'[c] = "echo", NEW m \in Messages, m = Current(c)'
              PROVE  WayAt(c, m)'
    BY DEF WayOf
<1>0. client[c] = "echo" /\ m = Current(c) /\ recvq' = recvq /\ pc'[w] # "trans_send"
    BY DEF Pushes, Current
<1>1. WayAt(c, m)
    BY <1>0 DEF WayOf
<1>2. PICK d \in Socks, x \in Messages : PushesTo(w, d, x)
    BY DEF Pushes
<1>3. d \in Sides(c) /\ sendq \in [Socks -> Seq(Messages)]
  <2>1. job[w] \in Sides(c)
      BY SidesAre DEF Pushes
  <2>2. Other(job[w]) \in Sides(c)
      BY <2>1, SidesAre DEF Sides
  <2>. QED BY <1>2, <2>1, <2>2 DEF PushesTo, TypeOK
\* The connections of a client that waits are whole: what is sent is not lost.
<1>4. sendq' = [sendq EXCEPT ![d] = Append(@, x)]
    BY <1>0, <1>2, <1>3 DEF LinkOf, PushesTo, Sides
<1>5. /\ x # m /\ None(sendq, c, m) => None(sendq', c, m)
      /\ x # m /\ One(sendq, c, m) => One(sendq', c, m)
      /\ x = m /\ None(sendq, c, m) => One(sendq', c, m)
  <2>1. Gains(sendq, sendq', d, x)
      BY <1>3, <1>4 DEF Gains
  <2>. QED BY <1>3, <2>1, LastComes
<1>6. \A v \in Workers \ {w} : Hand(v, c, m)' <=> Hand(v, c, m)
    BY DEF Pushes, Alone, Same, Hand
<1>7. ~ Hand(w, c, m)'
    BY <1>0 DEF Hand
<1>8. Hand(w, c, m) <=> x = m
  <2>1. CASE pc[w] = "trans_send"
      BY <1>2, <2>1 DEF PushesTo, BackPlaces, Hand
  <2>2. CASE pc[w] # "trans_send"
    <3>1. m.type = "trans" /\ m.owner = c /\ c # NULL
        BY <1>0, NullIsNone DEF Current, Msg
    <3>2. \A y \in Backs : y.owner = NULL
        BY BackIs
    <3>. QED BY <1>2, <2>2, <3>1, <3>2 DEF PushesTo, Hand
  <2>. QED BY <2>1, <2>2
<1>9. CASE x = m
  <2>1. None(recvq, c, m) /\ None(sendq, c, m) /\ OneHand(c, m)
      BY <1>1, <1>8, <1>9 DEF WayAt, NoHand
  <2>2. \A v \in Workers : Hand(v, c, m) => v = w
      BY <1>8, <1>9, <2>1 DEF OneHand
  <2>3. NoHand(c, m)'
      BY <1>6, <1>7, <2>2 DEF NoHand
  <2>. QED BY <1>0, <1>5, <1>9, <2>1, <2>3, Primes DEF WayAt
<1>10. CASE x # m
  <2>1. \A v \in Workers : Hand(v, c, m)' <=> Hand(v, c, m)
      BY <1>6, <1>7, <1>8, <1>10
  <2>2. (NoHand(c, m) => NoHand(c, m)') /\ (OneHand(c, m) => OneHand(c, m)')
      BY <2>1 DEF NoHand, OneHand
  <2>. QED BY <1>0, <1>1, <1>5, <1>10, <2>2, Primes DEF WayAt
<1>. QED BY <1>9, <1>10

LEMMA EchoWay ==
    ASSUME TypeOK, NEW s \in Socks, Echoes(s), NEW c \in Clients, s[1] = c, WayOf(c), env' = env
    PROVE  WayOf(c)'
<1>. SUFFICES ASSUME "mixed" \notin env.faults, client'[c] = "echo", NEW m \in Messages, m = Current(c)'
              PROVE  WayAt(c, m)'
    BY DEF WayOf
<1>0. client[c] = "echo" /\ m = Current(c) /\ UNCHANGED <<pc, job, buf>> /\ s \in Sides(c)
    BY SidesAre DEF Echoes, Current
<1>1. WayAt(c, m)
    BY <1>0 DEF WayOf
<1>2. /\ recvq \in [Socks -> Seq(Messages)] /\ sendq \in [Socks -> Seq(Messages)] /\ sendq[s] # <<>>
      /\ Head(sendq[s]) \in Messages
      /\ sendq' = [sendq EXCEPT ![s] = Tail(@)] /\ recvq' = [recvq EXCEPT ![s] = Append(@, Head(sendq[s]))]
    BY TailRange DEF Echoes, TypeOK
<1>3. /\ None(sendq, c, m) => None(sendq', c, m) /\ Head(sendq[s]) # m
      /\ One(sendq, c, m) /\ Head(sendq[s]) = m => None(sendq', c, m)
      /\ One(sendq, c, m) /\ Head(sendq[s]) # m => One(sendq', c, m)
  <2>1. Drops(sendq, sendq', s)
      BY <1>2 DEF Drops
  <2>. QED BY <1>0, <2>1, HeadLeaves
<1>4. /\ Head(sendq[s]) # m /\ None(recvq, c, m) => None(recvq', c, m)
      /\ Head(sendq[s]) # m /\ One(recvq, c, m) => One(recvq', c, m)
      /\ Head(sendq[s]) = m /\ None(recvq, c, m) => One(recvq', c, m)
  <2>1. Gains(recvq, recvq', s, Head(sendq[s]))
      BY <1>2 DEF Gains
  <2>. QED BY <1>0, <2>1, LastComes
<1>5. (NoHand(c, m) => NoHand(c, m)') /\ (OneHand(c, m) => OneHand(c, m)')
    BY <1>0 DEF NoHand, OneHand, Hand
<1>. QED BY <1>1, <1>3, <1>4, <1>5, Primes DEF WayAt

\* What the client writes is new.
LEMMA SpeakWay ==
    ASSUME TypeOK, JobInv, NEW c \in Clients, Speaks(c), BoundOf(c)
    PROVE  WayOf(c)'
<1>. SUFFICES ASSUME client'[c] = "echo", NEW m \in Messages, m = Current(c)' PROVE WayAt(c, m)'
    BY DEF WayOf
<1>0. /\ client \in [Clients -> {"start", "syn", "reply", "send", "echo", "fin", "close", "done"}]
      /\ recvq \in [Socks -> Seq(Messages)] /\ sendq \in [Socks -> Seq(Messages)]
      /\ Len(got[c]) \in Nat /\ <<c, "in">> = In(c) /\ In(c) \in Sides(c)
  <2>1. <<c, "in">> = In(c) /\ In(c) \in Sides(c)
      BY SidesAre
  <2>2. Len(got[c]) \in Nat
      BY DEF TypeOK
  <2>. QED BY <2>1, <2>2 DEF TypeOK
<1>1. SendTxt(c)
    BY <1>0 DEF Speaks, SendSyn, RecvReply, RecvEcho, SendFin, HangUp, ClientGoto, Enter
<1>2. /\ client[c] = "send" /\ UNCHANGED <<sendq, got, worker>>
      /\ recvq' = [recvq EXCEPT ![In(c)] = Append(@, Msg("trans", c, Len(got[c]) + 1))]
    BY <1>0, <1>1 DEF SendTxt, Write
<1>3. m = Msg("trans", c, Len(got[c]) + 1) /\ m.n = Len(got[c]) + 1 /\ m.owner # NULL
    BY <1>2, NullIsNone DEF Current, Msg
<1>4. ~ Coming(c, m) /\ ~ Leaving(c, m)
  <2>1. ~ (m.n <= Top(c))
      BY <1>0, <1>2, <1>3 DEF Top
  <2>. QED BY <1>3, <2>1 DEF BoundOf
<1>5. None(recvq, c, m) /\ None(sendq, c, m)
  <2>1. \A s \in Sides(c) : \A i \in 1 .. Len(recvq[s]) : recvq[s][i] \in Range(recvq[s])
    <3>1. \A s \in Sides(c) : recvq[s] \in Seq(Messages)
        BY <1>0, SidesAre
    <3>. QED BY <3>1 DEF Range
  <2>2. \A s \in Sides(c) : \A i \in 1 .. Len(sendq[s]) : sendq[s][i] \in Range(sendq[s])
    <3>1. \A s \in Sides(c) : sendq[s] \in Seq(Messages)
        BY <1>0, SidesAre
    <3>. QED BY <3>1 DEF Range
  <2>. QED BY <1>4, <2>1, <2>2 DEF None, Coming, Leaving, Sides
<1>6. NoHand(c, m)
  <2>. SUFFICES ASSUME NEW w \in Workers, Hand(w, c, m) PROVE FALSE
      BY DEF NoHand
  <2>1. pc[w] = "trans_send" /\ buf[w] = m /\ job[w][1] = c
      BY DEF Hand
  <2>2. job[w] = In(c) \/ job[w] = Out(c)
      BY <2>1, SidesAre DEF JobInv, Sides
  <2>. QED BY <1>4, <2>1, <2>2 DEF Coming, Leaving
<1>7. One(recvq', c, m)
  <2>1. Gains(recvq, recvq', In(c), m)
      BY <1>0, <1>2, <1>3 DEF Gains
  <2>. QED BY <1>0, <1>5, <2>1, LastComes
<1>8. None(sendq', c, m) /\ NoHand(c, m)'
    BY <1>2, <1>5, <1>6 DEF NoHand, Hand, worker
<1>. QED BY <1>7, <1>8, Primes DEF WayAt
-------------------------------------------------------------------------------
(* The invariant of the echoes. *)

\* A session that nobody touches, and the one that a step is about.
LEMMA SessionStep ==
    ASSUME IInv, TypeOK', Next, Forward, EchoInv, NEW c \in Clients
    PROVE  EchoOf(c)'
<1>0. /\ TypeOK /\ BatchInv /\ RecvInv /\ SendInv /\ JobInv /\ TransInv /\ AckInv
      /\ Tangled \/ TurnOf(c)
      /\ LinkOf(c) /\ BoundOf(c) /\ FinOf(c) /\ FinJobOf(c) /\ WayOf(c)
      /\ \A d \in Clients : LinkOf(d)
      /\ env' = env
    BY NextSetting DEF IInv, EchoInv, EchoOf
<1>1. LinkOf(c)' /\ (link[Out(c)] = "refused" => link'[Out(c)] = "refused")
    BY <1>0, LinkStep
<1>. DEFINE Turns == ~ Tangled => TurnOf(c)'
<1>. DEFINE Goal == Travel(c) /\ Turns /\ WayOf(c)' /\ (Quiet(c) \/ UNCHANGED <<client, got>> \/ Speaks(c))
<1>2. ASSUME Quiet(c) PROVE Goal
    BY <1>0, <1>1, <1>2, QuietTravel, QuietTurn, QuietWay
<1>3. ASSUME NEW w \in Workers, Pulls(w) \/ Makes(w) \/ Pushes(w) PROVE Goal
  <2>1. CASE job[w][1] # c
      BY <1>0, <1>2, <1>3, <2>1, WorkerQuiet
  <2>2. CASE job[w][1] = c /\ Pulls(w)
    <3>1. Travel(c) /\ Turns /\ WayOf(c)'
        BY <1>0, <1>1, <2>2, PullTravel, PullTurn, PullWay
    <3>. QED BY <2>2, <3>1 DEF Pulls
  <2>3. CASE job[w][1] = c /\ Makes(w)
    <3>1. Travel(c) /\ Turns /\ WayOf(c)'
        BY <1>0, <2>3, MakeTravel, MakeTurn, MakeWay
    <3>. QED BY <2>3, <3>1 DEF Makes
  <2>4. CASE job[w][1] = c /\ Pushes(w)
    <3>1. Travel(c) /\ Turns /\ WayOf(c)'
        BY <1>0, <1>1, <2>4, PushTravel, PushTurn, PushWay
    <3>. QED BY <2>4, <3>1 DEF Pushes
  <2>. QED BY <1>3, <2>1, <2>2, <2>3, <2>4
<1>4. ASSUME NEW s \in Socks, Echoes(s) PROVE Goal
  <2>1. CASE s[1] # c
      BY <1>0, <1>2, <1>4, <2>1, PeerQuiet
  <2>2. CASE s[1] = c
    <3>1. Travel(c) /\ Turns /\ WayOf(c)'
        BY <1>0, <1>1, <1>4, <2>2, EchoTravel, EchoTurn, EchoWay
    <3>. QED BY <1>4, <3>1 DEF Echoes
  <2>. QED BY <2>1, <2>2
<1>5. ASSUME NEW d \in Clients, Speaks(d) PROVE Goal
  <2>1. CASE d # c
      BY <1>0, <1>2, <1>5, <2>1, ClientQuiet
  <2>2. CASE d = c
    <3>1. Travel(c) /\ Turns /\ WayOf(c)'
        BY <1>0, <1>1, <1>5, <2>2, SpeakTravel, SpeakTurn, SpeakWay
    <3>. QED BY <1>5, <2>2, <3>1
  <2>. QED BY <2>1, <2>2
<1>6. Goal
  <2>1. \/ Calm
        \/ \E w \in Workers : Pulls(w) \/ Makes(w) \/ Pushes(w)
        \/ \E s \in Socks : Echoes(s)
        \/ \E d \in Clients : Speaks(d)
      BY <1>0, Moves
  <2>2. Calm => Goal
      BY <1>2, CalmQuiet
  <2>. HIDE DEF Goal
  <2>. QED BY <1>3, <1>4, <1>5, <2>1, <2>2
<1>7. Top(c) <= Top(c)' /\ (Gone(c) => Gone(c)')
    BY <1>0, <1>6, TopGrows
<1>8. BoundOf(c)' /\ FinOf(c)'
    BY <1>0, <1>6, <1>7, BoundStep
<1>9. FinJobOf(c)'
    BY <1>0, <1>7, FinJobStep
<1>. QED BY <1>0, <1>1, <1>6, <1>8, <1>9 DEF EchoOf, Tangled

LEMMA InitEcho == Init => EchoInv
<1>. SUFFICES ASSUME Init, NEW c \in Clients PROVE EchoOf(c)
    BY DEF EchoInv
<1>1. /\ \A s \in Sides(c) : recvq[s] = <<>> /\ sendq[s] = <<>> /\ link[s] = "none"
      /\ \A w \in Workers : pc[w] = "idle"
      /\ client[c] = "start" /\ got[c] = <<>> /\ In(c) \in Sides(c) /\ Out(c) \in Sides(c)
    BY SidesAre DEF Init
<1>2. Range(<<>>) = {} /\ Len(<<>>) = 0
    BY DEF Range
<1>3. TurnOf(c)
    BY <1>1, <1>2 DEF TurnOf, Silent, Busy, BusyPlaces, AckPlaces
<1>4. LinkOf(c)
    BY <1>1 DEF LinkOf, ToConnect, Connecting, AckPlaces
<1>5. BoundOf(c) /\ FinOf(c) /\ FinJobOf(c) /\ WayOf(c)
    BY <1>1, <1>2 DEF BoundOf, FinOf, FinJobOf, WayOf, Coming, Leaving, LatePlaces, JunkPlaces
<1>. QED BY <1>3, <1>4, <1>5 DEF EchoOf

LEMMA NextEcho == IInv /\ EchoInv /\ [Next]_vars => EchoInv'
<1>1. ASSUME IInv, EchoInv, Next PROVE EchoInv'
  <2>1. TypeOK /\ BatchInv /\ RecvInv /\ SendInv /\ JobInv /\ TransInv /\ MapInv
      BY <1>1 DEF IInv
  <2>2. TypeOK' /\ Forward
      BY <1>1, <2>1, TypesStep, RecvStep
  <2>3. \A c \in Clients : EchoOf(c)'
      BY <1>1, <2>2, SessionStep
  <2>. QED BY <2>3 DEF EchoInv
<1>2. ASSUME EchoInv, UNCHANGED vars PROVE EchoInv'
  <2>. SUFFICES ASSUME NEW c \in Clients PROVE EchoOf(c)'
      BY DEF EchoInv
  <2>1. UNCHANGED <<pc, job, buf, recvq, sendq, link, client, got, env>>
      BY <1>2 DEF vars, worker, net, outside, setting
  <2>2. (Tangled \/ TurnOf(c)) /\ LinkOf(c) /\ BoundOf(c) /\ FinOf(c) /\ FinJobOf(c) /\ WayOf(c)
      BY <1>2 DEF EchoInv, EchoOf
  <2>3. Quiet(c)
      BY <2>1 DEF Quiet
  <2>4. (Tangled \/ TurnOf(c))' /\ WayOf(c)'
    <3>1. TurnOf(c) => TurnOf(c)'
        BY <2>1, <2>3, QuietTurn
    <3>2. WayOf(c)'
        BY <2>1, <2>2, <2>3, QuietWay
    <3>. QED BY <2>1, <2>2, <3>1, <3>2 DEF Tangled
  <2>5. LinkOf(c)' /\ FinJobOf(c)'
      BY <2>1, <2>2 DEF LinkOf, ToConnect, Connecting, FinJobOf, Gone, Pending, OwnSyn, In, Out
  <2>6. BoundOf(c)' /\ FinOf(c)'
      BY <2>1, <2>2 DEF BoundOf, FinOf, Top, Gone, Coming, Leaving, In, Out
  <2>. QED BY <2>4, <2>5, <2>6 DEF EchoOf
<1>. QED BY <1>1, <1>2

LEMMA EchoInvariant == Spec => [](IInv /\ EchoInv)
<1>1. Init => IInv /\ EchoInv
    BY InitIInv, InitEcho
<1>2. IInv /\ EchoInv /\ [Next]_vars => (IInv /\ EchoInv)'
    BY NextIInv, NextEcho
<1>. QED BY <1>1, <1>2, PTL DEF Spec

\* What a client receives after OK are the echoes of its own messages, each once and
\* in their order: nothing else is under way in a session whose client waits, and
\* what a recv makes up comes where the client is gone or its destination refused.
\* It is so until CFinEventClient closes a socket of the server or a worker reads an
\* erased pair, and unless the pool mixes up events some of which have its type.
THEOREM EchoesCorrect == Spec => []EchoesInOrder
<1>1. EchoInv => EchoesInOrder
    BY SidesAre DEF EchoInv, EchoOf, TurnOf, Tangled, EchoesInOrder
<1>. QED BY <1>1, EchoInvariant, PTL

\* The places of a message in the queues of all sockets are those of its session.
Spots(q, m) == UNION {{<<s, i>> : i \in {j \in DOMAIN q[s] : q[s][j] = m}} : s \in Socks}

LEMMA SpotsCount ==
    ASSUME NEW q \in [Socks -> Seq(Messages)], NEW c \in Clients, NEW m \in Messages,
           \A s \in Socks \ Sides(c) : \A i \in 1 .. Len(q[s]) : q[s][i] # m
    PROVE  /\ One(q, c, m) => Cardinality(Spots(q, m)) = 1
           /\ None(q, c, m) => Cardinality(Spots(q, m)) = 0
<1>0. \A s \in Socks : DOMAIN q[s] = 1 .. Len(q[s])
  <2>1. \A s \in Socks : q[s] \in Seq(Messages)
      OBVIOUS
  <2>. QED BY <2>1, LenProperties
<1>1. \A e : e \in Spots(q, m) <=> \E s \in Socks : \E i \in 1 .. Len(q[s]) : q[s][i] = m /\ e = <<s, i>>
    BY <1>0 DEF Spots
<1>2. \A s \in Socks : \A i \in 1 .. Len(q[s]) : q[s][i] = m => s \in Sides(c)
    OBVIOUS
<1>3. ASSUME None(q, c, m) PROVE Cardinality(Spots(q, m)) = 0
  <2>1. Spots(q, m) = {}
      BY <1>1, <1>2, <1>3 DEF None
  <2>. QED BY <2>1, FS_EmptySet
<1>4. ASSUME One(q, c, m) PROVE Cardinality(Spots(q, m)) = 1
  <2>1. PICK s \in Sides(c) : \E i \in 1 .. Len(q[s]) :
            /\ q[s][i] = m
            /\ \A t \in Sides(c) : \A j \in 1 .. Len(q[t]) : q[t][j] = m => t = s /\ j = i
      BY <1>4 DEF One
  <2>2. PICK i \in 1 .. Len(q[s]) :
            /\ q[s][i] = m
            /\ \A t \in Sides(c) : \A j \in 1 .. Len(q[t]) : q[t][j] = m => t = s /\ j = i
      BY <2>1
  <2>3. s \in Socks
      BY SidesAre
  <2>4. \A e : e \in Spots(q, m) <=> e = <<s, i>>
      BY <1>1, <1>2, <2>2, <2>3
  <2>5. Spots(q, m) = {<<s, i>>}
      BY <2>4
  <2>. QED BY <2>5, FS_Singleton
<1>. QED BY <1>3, <1>4

\* The message a client waits to be echoed is in exactly one place, unless the pool
\* mixes up events: every handler that takes it from a queue puts it into another.
\* It is so until CFinEventClient closes a socket or a worker reads an erased pair.
THEOREM WayCorrect == Spec => []EchoOnItsWay
<1>1. IInv /\ EchoInv => EchoOnItsWay
  <2>. SUFFICES ASSUME IInv, EchoInv, "mixed" \notin env.faults, NEW c \in Clients, client[c] = "echo"
                PROVE  LET m == Current(c)
                       IN  Cardinality(Spots(recvq, m)) + Cardinality(Spots(sendq, m))
                             + Cardinality({w \in Workers : pc[w] = "trans_send" /\ buf[w] = m}) = 1
      BY DEF EchoOnItsWay, Spots, Current
  <2>. DEFINE m == Current(c)
  <2>. DEFINE H == {w \in Workers : pc[w] = "trans_send" /\ buf[w] = m}
  <2>0. /\ recvq \in [Socks -> Seq(Messages)] /\ sendq \in [Socks -> Seq(Messages)] /\ Len(got[c]) \in Nat
        /\ RecvInv /\ SendInv /\ TransInv /\ JobInv /\ WayOf(c)
      BY DEF IInv, TypeOK, EchoInv, EchoOf
  <2>1. m \in Messages /\ m.owner = c /\ c # NULL
    <3>1. m \in Messages
        BY <2>0, MsgType DEF Current, Types, ServerTypes
    <3>. QED BY <3>1, NullIsNone DEF Current, Msg
  <2>2. WayAt(c, m)
      BY <2>0, <2>1 DEF WayOf
  <2>. HIDE DEF m
  <2>3. \A s \in Socks \ Sides(c) : s[1] # c /\ s[1] # NULL
      BY SidesAre, NullIsNone DEF Socks
  <2>4. \A s \in Socks \ Sides(c) : \A i \in 1 .. Len(recvq[s]) : recvq[s][i] # m
      BY <2>0, <2>1, <2>3 DEF RecvInv
  <2>5. \A s \in Socks \ Sides(c) : \A i \in 1 .. Len(sendq[s]) : sendq[s][i] # m
    <3>1. \A s \in Socks : \A i \in 1 .. Len(sendq[s]) : sendq[s][i] \in Range(sendq[s])
      <4>1. \A s \in Socks : sendq[s] \in Seq(Messages)
          BY <2>0
      <4>. QED BY <4>1 DEF Range
    <3>. QED BY <2>0, <2>1, <2>3, <3>1 DEF SendInv
  <2>6. \A w \in Workers : Hand(w, c, m) <=> w \in H
      BY <2>0, <2>1 DEF Hand, TransInv, TransOf
  <2>7. NoHand(c, m) => Cardinality(H) = 0
    <3>. HIDE DEF H
    <3>1. NoHand(c, m) => H = {}
        BY <2>6 DEF NoHand, H
    <3>. QED BY <3>1, FS_EmptySet
  <2>8. OneHand(c, m) => Cardinality(H) = 1
    <3>1. ASSUME OneHand(c, m) PROVE \E w : H = {w}
      <4>1. PICK w \in Workers : Hand(w, c, m) /\ \A v \in Workers : Hand(v, c, m) => v = w
          BY <3>1 DEF OneHand
      <4>2. H = {w}
          BY <2>6, <4>1
      <4>. QED BY <4>2
    <3>. HIDE DEF H
    <3>. QED BY <3>1, FS_Singleton
  <2>9. /\ One(recvq, c, m) => Cardinality(Spots(recvq, m)) = 1
        /\ None(recvq, c, m) => Cardinality(Spots(recvq, m)) = 0
      BY <2>0, <2>1, <2>4, SpotsCount
  <2>10. /\ One(sendq, c, m) => Cardinality(Spots(sendq, m)) = 1
         /\ None(sendq, c, m) => Cardinality(Spots(sendq, m)) = 0
      BY <2>0, <2>1, <2>5, SpotsCount
  <2>11. Cardinality(Spots(recvq, m)) + Cardinality(Spots(sendq, m)) + Cardinality(H) = 1
    <3>. HIDE DEF H
    <3>. QED BY <2>2, <2>7, <2>8, <2>9, <2>10 DEF WayAt
  <2>. QED BY <2>11 DEF m
<1>. QED BY <1>1, EchoInvariant, PTL
===============================================================================
