------------------------------ MODULE ThreadPool ------------------------------
(***************************************************************************)
(* thread_module.h: CThreadPool, the CWorkThread objects it owns, and the  *)
(* one thread (the epoll loop) that calls CThreadPool::run.                *)
(*                                                                         *)
(* Each statement of CWorkThread::run that reads or writes m_event or      *)
(* m_state outside m_job_mutex is a step of its own; a critical section of *)
(* m_job_mutex is one step.  m_idle_list and m_busy_list are touched by    *)
(* the dispatching thread only, so the mutexes around them never contend.  *)
(*                                                                         *)
(* An st_event is an object on the heap, named by the order of its         *)
(* allocation.  Of its content the model keeps the socket number and the   *)
(* socket whose bytes recv(MSG_PEEK) copied into it.                       *)
(***************************************************************************)
EXTENDS Naturals, Sequences

CONSTANTS
    NumThreads,   \* m_threads
    MaxEvents,    \* bound: how many st_event objects are allocated
    Socks,        \* the descriptors epoll reports
    Foreign,      \* the descriptor number a peeked message carries: its sender's
    NULL

Threads == 1 .. NumThreads
Events == 1 .. MaxEvents

ASSUME PoolAssumption ==
    /\ NumThreads \in Nat \ {0}
    /\ MaxEvents \in Nat
    /\ NULL \notin Nat \cup Socks \cup {Foreign}
    /\ Foreign \notin Socks

VARIABLES
    m_idle_list, m_busy_list,   \* CThreadPool's vectors of threads
    main,       \* where the dispatching thread is in run()
    work,       \* run()'s local variable: the thread it picked
    p_event,    \* the st_event run() was called with
    n_events,   \* how many st_event objects were allocated so far
    heap,       \* the st_event objects
    m_event,    \* CWorkThread::m_event
    m_state,    \* CWorkThread::m_state
    pc,         \* where each worker is in CWorkThread::run
    sock,       \* the worker's local variable sock
    fac,        \* the CFactory: its copy of the st_event, and of which one
    handled     \* history: the events whose copy was handled

mainVars == <<m_idle_list, m_busy_list, main, work, p_event, n_events>>
workerVars == <<pc, sock, fac, m_state>>
vars == <<mainVars, workerVars, heap, m_event, handled>>

\* A worker between its mutex and the end of its loop body works on *m_event.
Using == {"busy", "load", "peek", "restore", "copy", "handle", "free"}

\* The st_event the dispatching thread has allocated and not handed over yet.
Undelivered == {e \in Events : main \in {"run", "idle_wait", "set"} /\ p_event = e}

Init ==
    /\ m_idle_list = [i \in Threads |-> i]
    /\ m_busy_list = <<>>
    /\ main = "epoll"
    /\ work = NULL
    /\ p_event = NULL
    /\ n_events = 0
    /\ heap = [e \in Events |-> [sock |-> NULL, from |-> NULL, status |-> "unused"]]
    /\ m_event = [w \in Threads |-> NULL]
    /\ m_state = [w \in Threads |-> "IDLE"]
    /\ pc = [w \in Threads |-> "check"]
    /\ sock = [w \in Threads |-> NULL]
    /\ fac = [w \in Threads |-> [ev |-> NULL, sock |-> NULL, from |-> NULL]]
    /\ handled = {}
-------------------------------------------------------------------------------
(* The dispatching thread. *)

\* CEpoll::__dispatch_event: a new st_event, zeroed but for m_sock.
Dispatch(s) ==
    /\ main = "epoll"
    /\ n_events < MaxEvents
    /\ n_events' = n_events + 1
    /\ p_event' = n_events + 1
    /\ heap' = [heap EXCEPT ![n_events + 1] =
                    [sock |-> s, from |-> NULL, status |-> "live"]]
    /\ main' = "run"
    /\ UNCHANGED <<m_idle_list, m_busy_list, work, workerVars, m_event, handled>>

\* CThreadPool::run finds no idle thread and waits on m_idle_cond.  Only
\* __move_to_idle signals it, on this same thread: it can wake spuriously only.
WaitIdle ==
    /\ main = "run"
    /\ m_idle_list = <<>>
    /\ main' = "idle_wait"
    /\ UNCHANGED <<m_idle_list, m_busy_list, work, p_event, n_events,
                   workerVars, heap, m_event, handled>>

WakeIdle ==
    /\ main = "idle_wait"
    /\ main' = "run"
    /\ UNCHANGED <<m_idle_list, m_busy_list, work, p_event, n_events,
                   workerVars, heap, m_event, handled>>

\* __move_to_busy of the first idle thread: find() returns begin().
MoveToBusyKeepsIdle(w) ==
    /\ m_busy_list' = Append(m_busy_list, w)
    /\ UNCHANGED m_idle_list

MoveToBusy(w) ==
    /\ m_busy_list' = Append(m_busy_list, w)
    /\ m_idle_list' = Tail(m_idle_list)

TakeIdle ==
    /\ main = "run"
    /\ m_idle_list # <<>>
    /\ work' = Head(m_idle_list)
    /\ MoveToBusy(Head(m_idle_list))
    /\ main' = "set"
    /\ UNCHANGED <<p_event, n_events, workerVars, heap, m_event, handled>>

\* set_event, the critical section: the previous m_event is not looked at.
SetEvent ==
    /\ main = "set"
    /\ m_event' = [m_event EXCEPT ![work] = p_event]
    /\ main' = "signal"
    /\ UNCHANGED <<m_idle_list, m_busy_list, work, p_event, n_events,
                   workerVars, heap, handled>>

\* The while around m_job_cond.wait(): a thread that wakes tests m_event again.
WakeWithoutTest(w) == pc' = [pc EXCEPT ![w] = "busy"]

Wake(w) == pc' = [pc EXCEPT ![w] = "check"]

\* set_event, after the unlock: m_job_cond.signal().
SignalNobody ==
    /\ main = "signal"
    /\ main' = "recycle"
    /\ UNCHANGED <<m_idle_list, m_busy_list, work, p_event, n_events,
                   workerVars, heap, m_event, handled>>

Signal ==
    /\ main = "signal"
    /\ IF pc[work] = "wait" THEN Wake(work) ELSE UNCHANGED pc
    /\ main' = "recycle"
    /\ UNCHANGED <<m_idle_list, m_busy_list, work, p_event, n_events,
                   sock, fac, m_state, heap, m_event, handled>>

\* __move_to_idle of the first busy thread.
MoveToIdleFront(w) ==
    /\ m_idle_list' = <<w>> \o m_idle_list
    /\ m_busy_list' = Tail(m_busy_list)

MoveToIdle(w) ==
    /\ m_idle_list' = Append(m_idle_list, w)
    /\ m_busy_list' = Tail(m_busy_list)

\* __invoke_move_to_idle, called at the end of run: the first busy thread only.
InvokeMoveToIdle ==
    /\ main = "recycle"
    /\ IF m_busy_list # <<>> /\ m_state[Head(m_busy_list)] = "IDLE"
       THEN MoveToIdle(Head(m_busy_list))
       ELSE UNCHANGED <<m_idle_list, m_busy_list>>
    /\ main' = "epoll"
    /\ UNCHANGED <<work, p_event, n_events, workerVars, heap, m_event, handled>>
-------------------------------------------------------------------------------
(* A worker: the loop of CWorkThread::run. *)

\* lock; while(m_event == NULL) wait; unlock
CheckEvent(w) ==
    /\ pc[w] = "check"
    /\ pc' = [pc EXCEPT ![w] = IF m_event[w] = NULL THEN "wait" ELSE "busy"]
    /\ UNCHANGED <<mainVars, sock, fac, m_state, heap, m_event, handled>>

\* pthread_cond_wait may return without a signal.
SpuriousWake(w) ==
    /\ pc[w] = "wait"
    /\ Wake(w)
    /\ UNCHANGED <<mainVars, sock, fac, m_state, heap, m_event, handled>>

SetBusy(w) ==
    /\ pc[w] = "busy"
    /\ m_state' = [m_state EXCEPT ![w] = "BUSY"]
    /\ pc' = [pc EXCEPT ![w] = "load"]
    /\ UNCHANGED <<mainVars, sock, fac, heap, m_event, handled>>

LoadSock(w) ==
    /\ pc[w] = "load"
    /\ sock' = [sock EXCEPT ![w] = heap[m_event[w]].sock]
    /\ pc' = [pc EXCEPT ![w] = "peek"]
    /\ UNCHANGED <<mainVars, fac, m_state, heap, m_event, handled>>

\* recv(m_event->m_sock, m_event, 20, MSG_PEEK) returns bytes: they overwrite
\* the head of *m_event, m_sock included.  The build loads the buffer's address
\* before the descriptor: when m_event is overwritten between the two, the bytes
\* go to an st_event nobody reads any more, as when it is overwritten after recv.
PeekData(w) ==
    /\ pc[w] = "peek"
    /\ heap' = [heap EXCEPT ![m_event[w]].from = heap[m_event[w]].sock,
                            ![m_event[w]].sock = Foreign]
    /\ pc' = [pc EXCEPT ![w] = "restore"]
    /\ UNCHANGED <<mainVars, sock, fac, m_state, m_event, handled>>

\* It returns 0, or an error that is not EAGAIN: *m_event is as it was.
PeekNothing(w) ==
    /\ pc[w] = "peek"
    /\ pc' = [pc EXCEPT ![w] = "restore"]
    /\ UNCHANGED <<mainVars, sock, fac, m_state, heap, m_event, handled>>

\* EAGAIN: "continue", with m_event still set and m_state still BUSY.
PeekAgain(w) ==
    /\ pc[w] = "peek"
    /\ pc' = [pc EXCEPT ![w] = "check"]
    /\ UNCHANGED <<mainVars, sock, fac, m_state, heap, m_event, handled>>

\* m_event->m_sock = sock
ForgetSock(w) ==
    /\ pc[w] = "restore"
    /\ pc' = [pc EXCEPT ![w] = "copy"]
    /\ UNCHANGED <<mainVars, sock, fac, m_state, heap, m_event, handled>>

RestoreSock(w) ==
    /\ pc[w] = "restore"
    /\ heap' = [heap EXCEPT ![m_event[w]].sock = sock[w]]
    /\ pc' = [pc EXCEPT ![w] = "copy"]
    /\ UNCHANGED <<mainVars, sock, fac, m_state, m_event, handled>>

\* CFactory fac(*m_event)
CopyEvent(w) ==
    /\ pc[w] = "copy"
    /\ fac' = [fac EXCEPT ![w] = [ev |-> m_event[w], sock |-> heap[m_event[w]].sock,
                                  from |-> heap[m_event[w]].from]]
    /\ pc' = [pc EXCEPT ![w] = "handle"]
    /\ UNCHANGED <<mainVars, sock, m_state, heap, m_event, handled>>

\* generate() and handle() return.
Handle(w) ==
    /\ pc[w] = "handle"
    /\ handled' = handled \cup {fac[w].ev}
    /\ pc' = [pc EXCEPT ![w] = "free"]
    /\ UNCHANGED <<mainVars, sock, fac, m_state, heap, m_event>>

\* delete m_event
FreeNothing(w) ==
    /\ pc[w] = "free"
    /\ pc' = [pc EXCEPT ![w] = "clear"]
    /\ UNCHANGED <<mainVars, sock, fac, m_state, heap, m_event, handled>>

FreeEvent(w) ==
    /\ pc[w] = "free"
    /\ heap' = [heap EXCEPT ![m_event[w]].status = "freed"]
    /\ pc' = [pc EXCEPT ![w] = "clear"]
    /\ UNCHANGED <<mainVars, sock, fac, m_state, m_event, handled>>

\* m_event = NULL, without m_job_mutex
ClearNothing(w) ==
    /\ pc[w] = "clear"
    /\ pc' = [pc EXCEPT ![w] = "idle"]
    /\ UNCHANGED <<mainVars, sock, fac, m_state, heap, m_event, handled>>

ClearEvent(w) ==
    /\ pc[w] = "clear"
    /\ m_event' = [m_event EXCEPT ![w] = NULL]
    /\ pc' = [pc EXCEPT ![w] = "idle"]
    /\ UNCHANGED <<mainVars, sock, fac, m_state, heap, handled>>

SetIdle(w) ==
    /\ pc[w] = "idle"
    /\ m_state' = [m_state EXCEPT ![w] = "IDLE"]
    /\ pc' = [pc EXCEPT ![w] = "check"]
    /\ UNCHANGED <<mainVars, sock, fac, heap, m_event, handled>>
-------------------------------------------------------------------------------
\* CThreadPool::run from its call to its return, without the spurious wake-up.
MainRun ==
    WaitIdle \/ TakeIdle \/ SetEvent \/ Signal \/ InvokeMoveToIdle

\* The steps a scheduled worker takes without the help of pthread_cond_wait.
Work(w) ==
    \/ CheckEvent(w) \/ SetBusy(w) \/ LoadSock(w)
    \/ PeekData(w) \/ PeekNothing(w) \/ PeekAgain(w)
    \/ RestoreSock(w) \/ CopyEvent(w) \/ Handle(w)
    \/ FreeEvent(w) \/ ClearEvent(w) \/ SetIdle(w)

Next ==
    \/ \E s \in Socks : Dispatch(s)
    \/ WakeIdle
    \/ MainRun
    \/ \E w \in Threads : Work(w) \/ SpuriousWake(w)

Spec == Init /\ [][Next]_vars

\* The kernel schedules every runnable thread and every handler returns;
\* nothing obliges a socket to become readable or a wait to wake spuriously.
FairSpec ==
    /\ Spec
    /\ WF_vars(MainRun)
    /\ \A w \in Threads : WF_vars(Work(w))
-------------------------------------------------------------------------------
EventObjects == [sock : Socks \cup {Foreign, NULL}, from : Socks \cup {NULL},
                 status : {"unused", "live", "freed"}]
FactoryObjects == [ev : Events \cup {NULL}, sock : Socks \cup {NULL},
                   from : Socks \cup {NULL}]

\* Every variable has its type; a factory holds a descriptor of this process,
\* never the sender's number that recv(MSG_PEEK) wrote over m_sock.
TypeOK ==
    /\ m_idle_list \in Seq(Threads)
    /\ m_busy_list \in Seq(Threads)
    /\ main \in {"epoll", "run", "idle_wait", "set", "signal", "recycle"}
    /\ work \in Threads \cup {NULL}
    /\ p_event \in Events \cup {NULL}
    /\ n_events \in 0 .. MaxEvents
    /\ heap \in [Events -> EventObjects]
    /\ m_event \in [Threads -> Events \cup {NULL}]
    /\ m_state \in [Threads -> {"IDLE", "BUSY"}]
    /\ pc \in [Threads -> Using \cup {"check", "wait", "clear", "idle"}]
    /\ sock \in [Threads -> Socks \cup {NULL}]
    /\ fac \in [Threads -> FactoryObjects]
    /\ handled \subseteq Events

\* Each thread is in exactly one of the two vectors, once: __move_to_busy and
\* __move_to_idle never lose a thread and never list one twice.
PoolPartition ==
    LET all == m_idle_list \o m_busy_list
    IN  /\ Len(all) = NumThreads
        /\ \A i, j \in 1 .. Len(all) : all[i] = all[j] => i = j

\* The pointers that are dereferenced or deleted: a worker inside its loop body
\* has an st_event that is allocated and not deleted, and no two holders (two
\* workers, or a worker and the dispatching thread) have the same one.  It holds
\* although run() overwrites m_event while the worker uses it.
NoDanglingEvent ==
    /\ \A w \in Threads : pc[w] \in Using =>
            m_event[w] # NULL /\ heap[m_event[w]].status = "live"
    /\ \A v, w \in Threads : m_event[v] = m_event[w] /\ v # w => m_event[v] = NULL
    /\ \A w \in Threads : m_event[w] \notin Undelivered

\* The st_event objects nobody points to any more: overwritten or cleared in
\* m_event before they were deleted.
Abandoned ==
    {e \in 1 .. n_events : /\ heap[e].status = "live"
                           /\ e \notin Undelivered
                           /\ \A w \in Threads : m_event[w] # e}

\* Threads leave m_idle_list at its front and enter it, as m_busy_list, at its
\* end: whichever of them are busy, the n-th st_event goes to thread n modulo
\* m_threads, and run() waits for that thread even when another one is idle.
RoundRobin == main = "set" => work = ((p_event - 1) % NumThreads) + 1

\* set_event overwrites a pending st_event only when the pool has come round to
\* a thread for the second time: none of the first NumThreads events is lost,
\* however early their threads are recycled.
NoLossInFirstRound == n_events <= NumThreads => Abandoned = {}

\* As long as no st_event was lost, each one is handled before it is deleted,
\* and the CFactory is never given one socket's header with another's number.
ExactWithoutLoss ==
    Abandoned = {} =>
        /\ \A w \in Threads : pc[w] = "handle" => fac[w].from \in {NULL, fac[w].sock}
        /\ \A e \in Events : heap[e].status = "freed" => e \in handled

\* Whatever is overwritten, lost or mixed up, no st_event is handled twice and
\* each is handled by one thread: the pool implements JobService.
Job(w) == IF pc[w] = "handle" THEN fac[w].ev ELSE NULL
Queued == {e \in 1 .. n_events : e \notin handled /\ \A w \in Threads : Job(w) # e}
Service == INSTANCE JobService
    WITH Jobs <- Events,
         running <- [w \in Threads |-> Job(w)],
         done <- handled,
         queued <- Queued
AtMostOnce == Service!Spec

\* set_event's signal is not lost: a thread that is asleep when it is given an
\* event wakes up.
NoLostWakeup ==
    \A w \in Threads : (m_event[w] # NULL /\ pc[w] = "wait") ~> pc[w] # "wait"

\* A worker gives up the st_event it was handed (handled and deleted, or
\* overwritten), unless it goes on peeking for ever for an event not handled yet.
EventReleased ==
    \A w \in Threads : \A e \in Events :
        \/ []<>(pc[w] = "peek" /\ m_event[w] = e /\ e \notin handled)
        \/ m_event[w] = e ~> m_event[w] # e
-------------------------------------------------------------------------------
(* What the documents say and the code does not do. *)

\* doc/problem.docx, 4: m_state is IDLE once a thread has finished, otherwise
\* BUSY, and that is what __invoke_move_to_idle recycles threads by.
OnlyFinishedRecycled ==
    \A i \in 1 .. Len(m_idle_list) : m_event[m_idle_list[i]] = NULL

\* doc/program.doc, 5 b: when a socket is readable, a thread of the pool is woken
\* to handle it.  If none is idle, run() waits, and the wait ends.
IdleWaitEnds == main = "idle_wait" ~> main # "idle_wait"
===============================================================================
