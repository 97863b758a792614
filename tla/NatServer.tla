------------------------------ MODULE NatServer ------------------------------
(***************************************************************************)
(* The relay: CEpoll::wait_epoll on the main thread, the event handlers of *)
(* event_module.h on the pool's threads, g_sock_map and g_leave_queue      *)
(* between them, the clients of inner_client.cpp and test1.cpp on one side *)
(* and the echo server of out_server.cpp on the other.                     *)
(*                                                                         *)
(* A session is one client; the server has two sockets for it, sockfd_in   *)
(* to the client and sockfd_out to the peer.  One message is one st_event. *)
(* The pool is taken at the promise ThreadPool proves: a job is executed   *)
(* at most once, with the header of its own socket.                        *)
(*                                                                         *)
(* The model follows a socket by its name, for as long as the program does *)
(* by its number.  It ends "astray" where that ends: when CFinEventClient  *)
(* closes a socket of the server, whose number stays in g_sock_map (what   *)
(* becomes of the numbers is in Descriptors), and when a worker reads a    *)
(* pair that was erased since it found it.                                 *)
(***************************************************************************)
EXTENDS Naturals, Sequences, FiniteSets, Functions

CONSTANTS
    Clients,      \* the processes that connect to the server, once each
    Workers,      \* the pool's threads
    ClientFd,     \* the number a client's own socket has in its process
    ClientLoops,  \* argv[1] of each client
    PeerLoops,    \* argv[1] of the echo server
    Environments, \* what may go wrong: the faults, and the clients whose process
                  \* may die at any point
    NULL

(* "quit": a client ends without FIN, as test1.cpp's children do;  "bits":     *)
(* m_type of its SYN keeps bits of an uninitialised st_message;  "drop":       *)
(* accept fails on its uninitialised length;  "refuse": nobody listens at the  *)
(* destination;  "python": two threads in the interpreter break it;  "mixed":  *)
(* the pool overwrites an st_event that one of its threads works on;  "junk":  *)
(* an uninitialised st_event has the type of a client's handler.               *)
FaultNames == {"quit", "bits", "drop", "refuse", "python", "mixed", "junk"}

ASSUME NatAssumption ==
    /\ IsFiniteSet(Clients) /\ NULL \notin Clients \cup (Clients \X {"in", "out"}) \cup Workers
    /\ ClientFd \in Nat /\ ClientLoops \in [Clients -> Nat] /\ PeerLoops \in Nat \ {0}
    /\ Environments \subseteq [faults : SUBSET FaultNames, mortal : SUBSET Clients]

Socks == Clients \X {"in", "out"}
Other(s) == <<s[1], IF s[2] = "in" THEN "out" ELSE "in">>
Listen == <<NULL, "listen">>

VARIABLES
    g_sock_map,     \* the socket each socket is relayed to, NULL for no entry
    g_leave_queue,  \* the sockets to disconnect
    g_allow_map,    \* the sources that may use the server, read at start
    env,            \* the one of Environments this execution is in
    g_mutex,        \* the worker that holds it, or NULL
    fd,             \* the number of each socket in the server, 0 before it exists
    backlog,        \* the clients listen() holds for accept()
    epolled,        \* the interest list of m_epollfd
    edges,          \* the sockets epoll_wait will report (EPOLLET)
    batch,          \* m_events[n ..]: reported and not looked at yet
    main,           \* where wait_epoll is
    cur, found,     \* its ready_sock and (*iter).second
    queued,         \* per socket, the jobs handed to the pool and not started
    pc, job,        \* per worker: where it is, and the m_sock of its st_event
    buf,            \* per worker: the message recv left in its st_event
    dst,            \* per worker: the second of the pair it found
    recvq, sendq,   \* per socket: the bytes to read, the bytes on their way out
    link,           \* per socket: the state of the TCP connection
    client, got,    \* per client: where it is, and the echoes it received
    peer            \* the echo server: accepted connections, loops left

server == <<g_sock_map, g_leave_queue, g_mutex, epolled, batch, main, cur, found>>
worker == <<queued, pc, job, buf, dst>>
net == <<fd, backlog, edges, recvq, sendq, link>>
outside == <<client, got, peer>>
setting == <<g_allow_map, env>>
vars == <<server, worker, net, outside, setting>>

\* owner: whose message it is; NULL is an st_event nobody filled in.
Msg(type, c, n) == [type |-> type, owner |-> c, n |-> n]
ServerTypes == {"ack", "trans", "fins", "none"}  \* CFactory::generate: "none" is default
ClientTypes == {"syn", "txt", "finc"}            \* and the handlers meant for a client
Types == ServerTypes \cup ClientTypes
Garbage == {Msg(t, NULL, 0) : t \in ServerTypes
                                      \cup (IF "junk" \in env.faults THEN ClientTypes ELSE {})}
Sealed == Msg("ack", NULL, 1)   \* such a header, encrypted
NextFd == Cardinality({s \in Socks : fd[s] # 0}) + 1

Init ==
    /\ g_sock_map = [s \in Socks |-> NULL]
    /\ g_leave_queue = <<>>
    /\ g_allow_map \in SUBSET Clients
    /\ env \in Environments
    /\ g_mutex = NULL
    /\ fd = [s \in Socks |-> 0]
    /\ backlog = <<>>
    /\ epolled = {} /\ edges = {} /\ batch = {}
    /\ main = "wait" /\ cur = NULL /\ found = NULL
    /\ queued = [s \in Socks |-> 0]
    /\ pc = [w \in Workers |-> "idle"]
    /\ job = [w \in Workers |-> NULL]
    /\ buf = [w \in Workers |-> NULL]
    /\ dst = [w \in Workers |-> NULL]
    /\ recvq = [s \in Socks |-> <<>>]
    /\ sendq = [s \in Socks |-> <<>>]
    /\ link = [s \in Socks |-> "none"]
    /\ client = [c \in Clients |-> "start"]
    /\ got = [c \in Clients |-> <<>>]
    /\ peer = [conns |-> <<>>, left |-> PeerLoops]
-------------------------------------------------------------------------------
(* The kernel. *)

\* recv on s returns 0 or an error other than EAGAIN once its data is read.
Ended(s) == link[s] \in {"closed", "reset", "refused"}
Readable(s) == recvq[s] # <<>> \/ Ended(s)

\* Something arrives at s: EPOLLET reports it if s is in the interest list.
Edge(s) == edges' = IF s \in epolled THEN edges \cup {s} ELSE edges

\* EPOLL_CTL_ADD reports what is there already; a second ADD is EEXIST.
AddEpoll(S) ==
    /\ epolled' = epolled \cup S
    /\ edges' = edges \cup {s \in S \ epolled : Readable(s)}

\* SIGPIPE is not ignored: sending on a socket that is not connected kills.
Deadly(s) == link[s] \in {"reset", "refused"}

\* send of a message on s.  One that has lost its remote end answers with RST.
Deliver(s, m) ==
    /\ ~ Deadly(s)
    /\ IF link[s] = "closed"
       THEN /\ link' = [link EXCEPT ![s] = "reset"]
            /\ Edge(s)
            /\ UNCHANGED sendq
       ELSE /\ sendq' = [sendq EXCEPT ![s] = Append(@, m)]
            /\ UNCHANGED <<link, edges>>

Ends(how) ==
    /\ main' = how
    /\ UNCHANGED <<g_sock_map, g_leave_queue, g_mutex, epolled, batch, cur, found,
                   worker, net, outside, setting>>

\* abort, SIGSEGV or SIGPIPE: the process is gone.
Die == Ends("aborted")

\* The process goes on where the model does not.
Stray == Ends("astray")

\* g_sock_map.find(s), called without g_mutex by all but CFinEventServer: while
\* another thread relinks the tree the search may miss an entry.
Lookup(s) == {g_sock_map[s]} \cup (IF g_mutex # NULL THEN {NULL} ELSE {})
-------------------------------------------------------------------------------
(* The main thread: wait_epoll. *)

EpollWait ==
    /\ main = "wait" /\ batch = {}
    /\ edges # {} \/ backlog # <<>>
    /\ batch' = edges \cup (IF backlog # <<>> THEN {Listen} ELSE {})
    /\ edges' = {}
    /\ UNCHANGED <<g_sock_map, g_leave_queue, g_mutex, epolled, main, cur, found,
                   worker, fd, backlog, recvq, sendq, link, outside, setting>>

Accept ==
    /\ main = "wait" /\ Listen \in batch
    /\ LET s == <<Head(backlog), "in">>
       IN  /\ fd' = [fd EXCEPT ![s] = NextFd]
           /\ AddEpoll({s})
    /\ backlog' = Tail(backlog)
    /\ batch' = batch \ {Listen}
    /\ UNCHANGED <<g_sock_map, g_leave_queue, g_mutex, main, cur, found, worker,
                   recvq, sendq, link, outside, setting>>

\* accept writes the address to an uninitialised length: it may fail with EINVAL,
\* and the connection is lost.  add_epoll(-1) fails too.
AcceptDropped ==
    /\ "drop" \in env.faults
    /\ main = "wait" /\ Listen \in batch
    /\ client' = [client EXCEPT ![Head(backlog)] = "done"]
    /\ link' = [link EXCEPT ![<<Head(backlog), "in">>] = "none"]
    /\ backlog' = Tail(backlog)
    /\ batch' = batch \ {Listen}
    /\ UNCHANGED <<g_sock_map, g_leave_queue, g_mutex, epolled, main, cur, found, worker,
                   fd, edges, recvq, sendq, got, peer, setting>>

FindReady(s) ==
    /\ main = "wait" /\ s \in batch
    /\ batch' = batch \ {s}
    /\ cur' = s
    /\ found' \in Lookup(s)
    /\ main' = "queue"
    /\ UNCHANGED <<g_sock_map, g_leave_queue, g_mutex, epolled, worker, net, outside, setting>>

\* A socket of g_leave_queue is not dispatched: the queue is drained.  The loop
\* tests the iterator it popped, not the list: it goes on past the last element,
\* and pop_front on the empty list frees the list object itself.
CheckLeaveQueue ==
    /\ main = "queue"
    /\ IF cur \in Range(g_leave_queue)
       THEN Die
       ELSE /\ main' = "dispatch"
            /\ UNCHANGED <<g_sock_map, g_leave_queue, g_mutex, epolled, batch, cur, found,
                           worker, net, outside, setting>>

\* (*iter).second is read now: if the pair was erased since, from a freed node,
\* which may hold another pair meanwhile.
Second ==
    IF found = NULL THEN {}
    ELSE {found} \cup (IF g_sock_map[cur] = NULL THEN {s \in Socks : fd[s] # 0} ELSE {})

AddAndDispatch ==
    /\ main = "dispatch"
    /\ IF Second = {} THEN UNCHANGED <<epolled, edges>>
                      ELSE \E s \in Second : AddEpoll({s})
    /\ queued' = [queued EXCEPT ![cur] = @ + 1]
    /\ main' = "wait" /\ cur' = NULL /\ found' = NULL
    /\ UNCHANGED <<g_sock_map, g_leave_queue, g_mutex, batch, pc, job, buf, dst,
                   fd, backlog, recvq, sendq, link, outside, setting>>

MainStep ==
    \/ EpollWait \/ Accept \/ AcceptDropped \/ CheckLeaveQueue \/ AddAndDispatch
    \/ \E s \in Socks : FindReady(s)
-------------------------------------------------------------------------------
(* A worker: the peek of CWorkThread::run, then the handler CFactory picks. *)

Goto(w, l) == pc' = [pc EXCEPT ![w] = l]

\* The handler returns, and the CFactory with its st_event is destroyed.
Finish(w) ==
    /\ Goto(w, "idle")
    /\ job' = [job EXCEPT ![w] = NULL]
    /\ buf' = [buf EXCEPT ![w] = NULL]
    /\ dst' = [dst EXCEPT ![w] = NULL]

\* What recv(s) consumes and returns; NULL when there is nothing to read.
Received(s) == IF recvq[s] = <<>> THEN NULL ELSE Head(recvq[s])
Consume(s) == recvq' = [recvq EXCEPT ![s] = IF @ = <<>> THEN @ ELSE Tail(@)]

\* A CFactory for socket s with the header peeked from socket h: generate() goes by
\* its type.  With no data the zeroed st_event has none, and handle() does nothing.
Factory(w, s, h) ==
    /\ pc[w] = "idle" /\ Readable(h)
    /\ LET type == IF Received(h) = NULL THEN "none" ELSE Received(h).type
       IN  IF type \in {"none", "ok", "error"}
           THEN UNCHANGED <<pc, job>>
           ELSE /\ Goto(w, CASE type = "ack"   -> "ack_recv"
                             [] type = "trans" -> "trans_find"
                             [] type = "fins"  -> "fin_recv"
                             [] type = "syn"   -> "syn_encrypt"
                             [] type = "txt"   -> "txt_send"
                             [] type = "finc"  -> "finc_send")
                /\ job' = [job EXCEPT ![w] = s]
    /\ UNCHANGED <<server, buf, dst, net, outside, setting>>

\* recv(MSG_PEEK) until it is not EAGAIN.
Take(w, s) ==
    /\ queued[s] > 0
    /\ queued' = [queued EXCEPT ![s] = @ - 1]
    /\ Factory(w, s, s)

\* The st_event of s is overwritten while w works on it: w peeks into the one of h
\* and gives that one the number of s.  The first is never handled.
TakeMixed(w, s, h) ==
    /\ "mixed" \in env.faults
    /\ s # h /\ queued[s] > 0 /\ queued[h] > 0
    /\ queued' = [queued EXCEPT ![s] = @ - 1, ![h] = @ - 1]
    /\ Factory(w, s, h)

\* A SYN, whatever became of its type, which nobody looks at again.
IsSyn(m) == (m.owner # NULL /\ m.type \in {"ack", "none"}) \/ m = Sealed

\* CAckEvent: recv's result is not looked at.  Anything but a whole SYN makes the
\* decryption or the deserialisation throw, which ends the process.
AckRecv(w) ==
    /\ pc[w] = "ack_recv"
    /\ LET m == Received(job[w])
       IN  IF m = NULL \/ ~ IsSyn(m)
           THEN Die
           ELSE /\ Consume(job[w])
                /\ buf' = [buf EXCEPT ![w] = m]
                /\ Goto(w, "ack_decrypt")
                /\ UNCHANGED <<server, queued, job, dst, fd, backlog, edges, sendq, link,
                               outside, setting>>

\* The embedded interpreter is entered without its lock: two threads in it at
\* the same time may end the process.
InterpreterRace(w) ==
    /\ "python" \in env.faults
    /\ pc[w] \in {"ack_decrypt", "syn_encrypt"}
    /\ \E v \in Workers \ {w} : pc[v] \in {"ack_decrypt", "syn_encrypt"}
    /\ Die

\* __is_ok_for_connect: the source of the decrypted header is registered.  What was
\* sealed uninitialised is nobody's.
AckDecrypt(w) ==
    /\ pc[w] = "ack_decrypt"
    /\ Goto(w, IF buf[w].owner \in g_allow_map THEN "ack_connect" ELSE "ack_error")
    /\ UNCHANGED <<server, queued, job, buf, dst, net, outside, setting>>

\* create_sock and connect_sock: whether connect succeeded is not looked at.
AckConnect(w) ==
    /\ pc[w] = "ack_connect"
    /\ LET out == Other(job[w])
       IN  /\ fd' = [fd EXCEPT ![out] = NextFd]
           /\ dst' = [dst EXCEPT ![w] = out]
           /\ \/ /\ link' = [link EXCEPT ![out] = "open"]
                 /\ peer' = [peer EXCEPT !.conns = Append(@, out)]
              \/ /\ "refuse" \in env.faults
                 /\ link' = [link EXCEPT ![out] = "refused"]
                 /\ UNCHANGED peer
    /\ Goto(w, "ack_insert")
    /\ UNCHANGED <<server, queued, job, buf, backlog, edges, recvq, sendq, client, got, setting>>

\* The critical section of g_mutex: the insert of one direction ...
AckInsert(w) ==
    /\ pc[w] = "ack_insert" /\ g_mutex = NULL
    /\ g_mutex' = w
    /\ g_sock_map' = [g_sock_map EXCEPT ![job[w]] = IF @ = NULL THEN dst[w] ELSE @]
    /\ Goto(w, "ack_insert_back")
    /\ UNCHANGED <<g_leave_queue, epolled, batch, main, cur, found, queued, job, buf, dst,
                   net, outside, setting>>

\* The mutant of AckInsertBack: the second insert uses the first key again.
InsertSameTwice(w) ==
    /\ pc[w] = "ack_insert_back"
    /\ g_mutex' = NULL
    /\ Goto(w, "ack_ok")
    /\ UNCHANGED <<g_sock_map, g_leave_queue, epolled, batch, main, cur, found, queued,
                   job, buf, dst, net, outside, setting>>

\* ... and of the other.
AckInsertBack(w) ==
    /\ pc[w] = "ack_insert_back"
    /\ g_sock_map' = [g_sock_map EXCEPT ![dst[w]] = IF @ = NULL THEN job[w] ELSE @]
    /\ g_mutex' = NULL
    /\ Goto(w, "ack_ok")
    /\ UNCHANGED <<g_leave_queue, epolled, batch, main, cur, found, queued, job, buf, dst,
                   net, outside, setting>>

\* send(sock, STR_OK) or STR_ERROR: any worker's send may be the last.
SendDies(w) ==
    /\ \/ pc[w] \in {"ack_ok", "ack_error", "syn_send", "txt_send", "finc_send"}
            /\ Deadly(job[w])
       \/ pc[w] = "trans_send" /\ Deadly(dst[w])
    /\ Die

AckReply(w) ==
    /\ pc[w] \in {"ack_ok", "ack_error"}
    /\ Deliver(job[w], Msg(IF pc[w] = "ack_ok" THEN "ok" ELSE "error", job[w][1], 0))
    /\ Finish(w)
    /\ UNCHANGED <<server, queued, fd, backlog, recvq, outside, setting>>

\* CTransEvent: m_mutex is a member of the event, it excludes nobody.
TransFind(w) ==
    /\ pc[w] = "trans_find"
    /\ \E s \in Lookup(job[w]) :
          IF s = NULL THEN Finish(w)
          ELSE /\ dst' = [dst EXCEPT ![w] = s]
               /\ Goto(w, "trans_read")
               /\ UNCHANGED <<job, buf>>
    /\ UNCHANGED <<server, queued, net, outside, setting>>

\* The mutant of TransRead: the pair read is kept where all workers see it.
ReadIntoShared(w) ==
    /\ pc[w] = "trans_read"
    /\ dst' = [v \in Workers |-> IF pc[v] = "trans_send" THEN dst[w] ELSE dst[v]]
    /\ Goto(w, "trans_recv")
    /\ UNCHANGED <<server, queued, job, buf, net, outside, setting>>

\* splice_sock(*iter): both numbers are read now.  If the pair was erased since, the
\* freed node has them still ...
TransRead(w) ==
    /\ pc[w] = "trans_read"
    /\ Goto(w, "trans_recv")
    /\ UNCHANGED <<server, queued, job, buf, dst, net, outside, setting>>

\* ... or anything.
TransReadStale(w) ==
    /\ pc[w] = "trans_read"
    /\ g_sock_map[job[w]] # dst[w]
    /\ Stray

\* The mutant of TransRecv: splice_sock peeks, as the pool does.
RecvKeepsPeeking(w) ==
    /\ pc[w] = "trans_recv"
    /\ IF Readable(job[w])
       THEN /\ \E m \in IF Received(job[w]) = NULL THEN Garbage ELSE {Received(job[w])} :
                   buf' = [buf EXCEPT ![w] = m]
            /\ Goto(w, "trans_send")
            /\ UNCHANGED <<job, dst>>
       ELSE Finish(w)
    /\ UNCHANGED <<server, queued, net, outside, setting>>

\* splice_sock: EAGAIN returns; end of file and other errors go on with an
\* st_event on the stack that nothing was written to.
TransRecv(w) ==
    /\ pc[w] = "trans_recv"
    /\ Consume(job[w])
    /\ IF Readable(job[w])
       THEN /\ \E m \in IF Received(job[w]) = NULL THEN Garbage ELSE {Received(job[w])} :
                   buf' = [buf EXCEPT ![w] = m]
            /\ Goto(w, "trans_send")
            /\ UNCHANGED <<job, dst>>
       ELSE Finish(w)
    /\ UNCHANGED <<server, queued, fd, backlog, edges, sendq, link, outside, setting>>

TransSend(w) ==
    /\ pc[w] = "trans_send"
    /\ Deliver(dst[w], buf[w])
    /\ Finish(w)
    /\ UNCHANGED <<server, queued, fd, backlog, recvq, outside, setting>>

\* CFinEventServer: recv overwrites m_event, m_sock included.
FinRecv(w) ==
    /\ pc[w] = "fin_recv"
    /\ buf' = [buf EXCEPT ![w] = Received(job[w])]
    /\ Consume(job[w])
    /\ Goto(w, "fin_lock")
    /\ UNCHANGED <<server, queued, job, dst, fd, backlog, edges, sendq, link, outside, setting>>

\* The numbers m_event.m_sock may hold: the server's own when recv left it alone,
\* the sender's after a message, anything after an uninitialised one.
FinNumbers(w) ==
    IF buf[w] = NULL THEN {fd[job[w]]}
    ELSE IF buf[w].owner = NULL THEN 0 .. NextFd
    ELSE {ClientFd}

\* __find_sock_map.
Mapped(n) == {s \in Socks : n # 0 /\ fd[s] = n /\ g_sock_map[s] # NULL}

\* (*end()).second: the upper half of the map's count of entries.
PastEnd == 0

\* The mutant of FinQueue: end() is not tested for.
QueueUntested(w) ==
    /\ pc[w] = "fin_lock" /\ g_mutex = NULL
    /\ \E n \in FinNumbers(w), s \in Socks :
          /\ fd[s] = n
          /\ g_leave_queue' = g_leave_queue \o <<s, g_sock_map[s]>>
          /\ dst' = [dst EXCEPT ![w] = s]
    /\ g_mutex' = w
    /\ Goto(w, "fin_erase")
    /\ UNCHANGED <<g_sock_map, epolled, batch, main, cur, found, queued, job, buf,
                   net, outside, setting>>

\* In g_mutex: nothing is found, and what end() has for a second is erased; or both
\* sockets of the pair are queued ...
FinQueue(w) ==
    /\ pc[w] = "fin_lock" /\ g_mutex = NULL
    /\ \E n \in FinNumbers(w) :
          \/ /\ Mapped(n) = {}
             /\ g_sock_map' = [s \in Socks |-> IF s \in Mapped(PastEnd) THEN NULL
                                                                     ELSE g_sock_map[s]]
             /\ Finish(w)
             /\ UNCHANGED <<g_mutex, g_leave_queue>>
          \/ \E s \in Mapped(n) :
                /\ g_leave_queue' = g_leave_queue \o <<s, g_sock_map[s]>>
                /\ dst' = [dst EXCEPT ![w] = s]
                /\ g_mutex' = w
                /\ Goto(w, "fin_erase")
                /\ UNCHANGED <<g_sock_map, job, buf>>
    /\ UNCHANGED <<epolled, batch, main, cur, found, queued,
                   net, outside, setting>>

\* The mutant of FinErase: the other direction of the pair stays.
EraseOne(w) ==
    /\ pc[w] = "fin_erase"
    /\ g_sock_map' = [g_sock_map EXCEPT ![dst[w]] = NULL]
    /\ g_mutex' = NULL
    /\ Finish(w)
    /\ UNCHANGED <<g_leave_queue, epolled, batch, main, cur, found, queued,
                   net, outside, setting>>

\* ... and both entries erased.
FinErase(w) ==
    /\ pc[w] = "fin_erase"
    /\ g_sock_map' = [s \in Socks |-> IF s \in {dst[w], g_sock_map[dst[w]]} THEN NULL
                                                                       ELSE g_sock_map[s]]
    /\ g_mutex' = NULL
    /\ Finish(w)
    /\ UNCHANGED <<g_leave_queue, epolled, batch, main, cur, found, queued,
                   net, outside, setting>>

\* CSynEvent, for an uninitialised st_event: its header is encrypted, ...
SynEncrypt(w) ==
    /\ pc[w] = "syn_encrypt"
    /\ Goto(w, "syn_send")
    /\ UNCHANGED <<server, queued, job, buf, dst, net, outside, setting>>

\* ... and what CSynEvent and CTxtEvent made of it goes back where it came from, as
\* does ...
SendBack(w) ==
    /\ \/ pc[w] = "syn_send" /\ Deliver(job[w], Sealed)
       \/ pc[w] = "txt_send" /\ Deliver(job[w], Msg("trans", NULL, 0))
    /\ Finish(w)
    /\ UNCHANGED <<server, queued, fd, backlog, recvq, outside, setting>>

\* ... the FIN of CFinEventClient.  It closes the socket, whose pair stays.
FincSend(w) ==
    /\ pc[w] = "finc_send"
    /\ Deliver(job[w], Msg("fins", NULL, 0))
    /\ Goto(w, "finc_close")
    /\ UNCHANGED <<server, queued, job, buf, dst, fd, backlog, recvq, outside, setting>>

FincClose(w) ==
    /\ pc[w] = "finc_close"
    /\ Stray

WorkerStep(w) ==
    \/ \E s \in Socks : Take(w, s)
    \/ AckRecv(w) \/ AckDecrypt(w) \/ AckConnect(w) \/ AckInsert(w) \/ AckInsertBack(w)
    \/ AckReply(w) \/ SendDies(w)
    \/ TransFind(w) \/ TransRead(w) \/ TransReadStale(w) \/ TransRecv(w) \/ TransSend(w)
    \/ FinRecv(w) \/ FinQueue(w) \/ FinErase(w)
    \/ SynEncrypt(w) \/ SendBack(w) \/ FincSend(w) \/ FincClose(w)
-------------------------------------------------------------------------------
(* A client process, and the echo server. *)

Write(s, m) ==
    /\ recvq' = [recvq EXCEPT ![s] = Append(@, m)]
    /\ Edge(s)

ClientGoto(c, l) == client' = [client EXCEPT ![c] = l]

\* connect: the kernel completes it before accept().
Connect(c) ==
    /\ client[c] = "start"
    /\ backlog' = Append(backlog, c)
    /\ link' = [link EXCEPT ![<<c, "in">>] = "open"]
    /\ ClientGoto(c, "syn")
    /\ UNCHANGED <<server, worker, setting, fd, edges, recvq, sendq, got, peer>>

\* CSynEvent turns syn into ack; other bits of m_type are what the stack held.
SendSyn(c) ==
    /\ client[c] = "syn"
    /\ \E type \in {"ack"} \cup (IF "bits" \in env.faults THEN {"none"} ELSE {}) :
          Write(<<c, "in">>, Msg(type, c, 0))
    /\ ClientGoto(c, "reply")
    /\ UNCHANGED <<server, worker, setting, fd, backlog, sendq, link, got, peer>>

Read(c) == sendq' = [sendq EXCEPT ![<<c, "in">>] = Tail(@)]

Enter(c, n) == IF n < ClientLoops[c] THEN "send" ELSE "fin"

RecvReply(c) ==
    /\ client[c] = "reply" /\ sendq[<<c, "in">>] # <<>>
    /\ Read(c)
    /\ ClientGoto(c, IF Head(sendq[<<c, "in">>]).type = "ok" THEN Enter(c, 0) ELSE "fin")
    /\ UNCHANGED <<server, worker, setting, fd, backlog, edges, recvq, link, got, peer>>

\* CTxtEvent turns txt into trans.
SendTxt(c) ==
    /\ client[c] = "send"
    /\ Write(<<c, "in">>, Msg("trans", c, Len(got[c]) + 1))
    /\ ClientGoto(c, "echo")
    /\ UNCHANGED <<server, worker, setting, fd, backlog, sendq, link, got, peer>>

RecvEcho(c) ==
    /\ client[c] = "echo" /\ sendq[<<c, "in">>] # <<>>
    /\ Read(c)
    /\ got' = [got EXCEPT ![c] = Append(@, Head(sendq[<<c, "in">>]))]
    /\ ClientGoto(c, Enter(c, Len(got[c]) + 1))
    /\ UNCHANGED <<server, worker, setting, fd, backlog, edges, recvq, link, peer>>

\* CFinEventClient turns finc into fins, sends it and closes.
SendFin(c) ==
    /\ client[c] = "fin"
    /\ Write(<<c, "in">>, Msg("fins", c, 0))
    /\ ClientGoto(c, "close")
    /\ UNCHANGED <<server, worker, setting, fd, backlog, sendq, link, got, peer>>

\* The socket's last reference goes, with what it had to read: the kernel resets
\* if that was anything.
HangUp(c) ==
    /\ link' = [link EXCEPT ![<<c, "in">>] =
                    IF sendq[<<c, "in">>] = <<>> THEN "closed" ELSE "reset"]
    /\ sendq' = [sendq EXCEPT ![<<c, "in">>] = <<>>]
    /\ Edge(<<c, "in">>)
    /\ ClientGoto(c, "done")
    /\ UNCHANGED <<server, worker, setting, fd, backlog, recvq, got, peer>>

Close(c) ==
    /\ client[c] = "close" \/ (client[c] = "fin" /\ "quit" \in env.faults)
    /\ HangUp(c)

Kill(c) ==
    /\ c \in env.mortal /\ client[c] \notin {"start", "done"}
    /\ HangUp(c)

\* out_server.cpp: PeerLoops messages of one connection, then the next one.
PeerEcho ==
    /\ peer.conns # <<>>
    /\ LET s == Head(peer.conns)
       IN  /\ sendq[s] # <<>>
           /\ Write(s, Head(sendq[s]))
           /\ sendq' = [sendq EXCEPT ![s] = Tail(@)]
    /\ peer' = IF peer.left = 1 THEN [conns |-> Tail(peer.conns), left |-> PeerLoops]
                                ELSE [peer EXCEPT !.left = @ - 1]
    /\ UNCHANGED <<server, worker, setting, fd, backlog, link, client, got>>

ClientStep(c) ==
    \/ Connect(c) \/ SendSyn(c) \/ RecvReply(c) \/ SendTxt(c) \/ RecvEcho(c)
    \/ SendFin(c) \/ Close(c)
-------------------------------------------------------------------------------
Runs == main \notin {"aborted", "astray"}

Next ==
    /\ Runs
    /\ \/ MainStep
       \/ \E w \in Workers : WorkerStep(w) \/ InterpreterRace(w)
                            \/ \E s, h \in Socks : TakeMixed(w, s, h)
       \/ \E c \in Clients : ClientStep(c) \/ Kill(c)
       \/ PeerEcho

Spec == Init /\ [][Next]_vars

\* The kernel schedules every thread and process that can run; nothing obliges
\* a client to die or the interpreter to fail.
FairSpec ==
    /\ Spec
    /\ WF_vars(Runs /\ MainStep)
    /\ \A w \in Workers : WF_vars(Runs /\ WorkerStep(w))
    /\ \A c \in Clients : WF_vars(Runs /\ ClientStep(c))
    /\ WF_vars(Runs /\ PeerEcho)
-------------------------------------------------------------------------------
Messages == [type : Types \cup {"ok", "error"}, owner : Clients \cup {NULL}, n : Nat]
\* NULL is no message.
ASSUME NullAssumption == NULL \notin Messages

WorkerPlaces == {"idle", "ack_recv", "ack_decrypt", "ack_connect", "ack_insert",
                 "ack_insert_back", "ack_ok", "ack_error", "trans_find", "trans_read",
                 "trans_recv", "trans_send", "fin_recv", "fin_lock", "fin_erase",
                 "syn_encrypt", "syn_send", "txt_send", "finc_send", "finc_close"}

\* Every variable has its type.
TypeOK ==
    /\ g_sock_map \in [Socks -> Socks \cup {NULL}]
    /\ g_leave_queue \in Seq(Socks)
    /\ g_allow_map \subseteq Clients /\ env \in Environments
    /\ g_mutex \in Workers \cup {NULL}
    /\ fd \in [Socks -> Nat]
    /\ backlog \in Seq(Clients)
    /\ epolled \subseteq Socks /\ edges \subseteq Socks /\ batch \subseteq Socks \cup {Listen}
    /\ main \in {"wait", "queue", "dispatch", "aborted", "astray"}
    /\ cur \in Socks \cup {NULL} /\ found \in Socks \cup {NULL}
    /\ queued \in [Socks -> Nat]
    /\ pc \in [Workers -> WorkerPlaces]
    /\ job \in [Workers -> Socks \cup {NULL}]
    /\ buf \in [Workers -> Messages \cup {NULL}]
    /\ dst \in [Workers -> Socks \cup {NULL}]
    /\ recvq \in [Socks -> Seq(Messages)] /\ sendq \in [Socks -> Seq(Messages)]
    /\ link \in [Socks -> {"none", "open", "closed", "reset", "refused"}]
    /\ client \in [Clients -> {"start", "syn", "reply", "send", "echo", "fin", "close", "done"}]
    /\ got \in [Clients -> Seq(Messages)]
    /\ peer \in [conns : Seq(Socks), left : 1 .. PeerLoops]

\* The model still follows the program: CFinEventClient has closed no socket of the
\* server, and no worker has read a pair that was erased under it.
Followed == main # "astray"

\* Outside the critical sections of g_mutex the map pairs the two sockets of a
\* session with each other, both ways or not at all, and a socket that waits to
\* be disconnected is not in it, as long as CFinEventClient closes none.
MapPaired ==
    Followed /\ g_mutex = NULL =>
        /\ \A s \in Socks : g_sock_map[s] # NULL =>
              g_sock_map[s] = Other(s) /\ g_sock_map[Other(s)] = s
        /\ \A s \in Range(g_leave_queue) : g_sock_map[s] = NULL

\* A client that was told OK FOR CONNECT came from a registered source, and its
\* pair is in g_sock_map or was given to g_leave_queue, as long as CFinEventClient
\* closes no socket.
OkMeansMapped ==
    Followed => \A c \in Clients :
        LET s == <<c, "in">>
        IN  client[c] \in {"send", "echo"} \/ Msg("ok", c, 0) \in Range(sendq[s]) =>
                /\ c \in g_allow_map
                /\ \/ g_sock_map[s] = Other(s) /\ g_sock_map[Other(s)] = s
                   \/ s \in Range(g_leave_queue)

\* What a client receives after OK are the echoes of its own messages, each once
\* and in their order, whatever happens to the other sessions: never another's
\* message or a header, and the uninitialised st_event of splice_sock only when
\* nobody listened at its destination, or when the pool mixes up two events and
\* that st_event has the type of a client's handler.
EchoesInOrder ==
    Followed => \A c \in Clients : \A i \in 1 .. Len(got[c]) :
        \/ got[c][i] = Msg("trans", c, i)
        \/ link[<<c, "out">>] = "refused"
        \/ {"mixed", "junk"} \subseteq env.faults

\* The message a client waits to be echoed is in exactly one place on its way there
\* and back: in the bytes of one socket or in the hands of one worker.  Jobs that
\* are lost, repeated or find nothing to do neither drop it nor double it; only a
\* job with another socket's header may, or a close under the client.
EchoOnItsWay ==
    Followed /\ "mixed" \notin env.faults => \A c \in Clients :
        LET m == Msg("trans", c, Len(got[c]) + 1)
            Places(q) == UNION {{<<s, i>> : i \in {j \in DOMAIN q[s] : q[s][j] = m}} : s \in Socks}
        IN  client[c] = "echo" =>
                Cardinality(Places(recvq)) + Cardinality(Places(sendq))
                  + Cardinality({w \in Workers : pc[w] = "trans_send" /\ buf[w] = m}) = 1

\* A session's bytes stay in the session: what waits on its two sockets, in either
\* direction, is its own or nobody's, as long as no worker reads a pair after it was
\* erased and CFinEventClient closes no socket.
NoCrossTalk ==
    Followed => \A s \in Socks : \A m \in Range(recvq[s]) \cup Range(sendq[s]) :
        m.owner \in {s[1], NULL}

\* A client that waits for the answer to its SYN or for an echo gets it.
AnswerArrives ==
    \A c \in Clients : client[c] \in {"reply", "echo"} ~>
        client[c] \notin {"reply", "echo"} \/ ~ Followed

\* The session of a client that may use the server ends with it: the pair leaves
\* g_sock_map, and both its sockets are disconnected, as README:15 says of FIN.
SessionEnds ==
    \A c \in Clients : client[c] = "done" /\ c \in g_allow_map ~>
        \/ /\ g_sock_map[<<c, "in">>] = NULL
           /\ {<<c, "in">>, <<c, "out">>} \cap epolled = {}
        \/ ~ Followed
===============================================================================
