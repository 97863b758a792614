------------------------------- MODULE LogFile -------------------------------
(***************************************************************************)
(* One CLogFile of logfile_module.h: the threads that call push_log on it, *)
(* and the thread test.cpp starts on f_log, which calls write_log once.    *)
(* m_log_push_mutex covers the insertion only, m_log_write_mutex is taken  *)
(* by the writer only, so the two sides share the queue, the condition     *)
(* variable and m_log_time without a common lock.  localtime and asctime   *)
(* have one result buffer each for the whole process, which the calls on   *)
(* the other CLogFile objects use too.                                     *)
(*                                                                         *)
(* A line is the call of push_log it comes from; its stamp is the call     *)
(* whose time it shows, the calls being in different seconds.              *)
(*                                                                         *)
(* std::queue is a deque of nodes of NodeSize pointers.  push stores the   *)
(* pointer and then moves the finish, front and pop read and move the      *)
(* start, size reads both; filling the last slot of a node moves several   *)
(* pointers of the deque, and perhaps its map of nodes.                    *)
(***************************************************************************)
EXTENDS Naturals, Sequences, Functions

CONSTANTS
    Pushers,     \* the threads that call push_log
    MaxPushes,   \* bound: the calls each of them makes
    NodeSize,    \* the pointers in a node of the deque, 64 in libstdc++
    GARBLED      \* a time that is none of these calls'

ASSUME LogAssumption ==
    /\ MaxPushes \in Nat /\ NodeSize \in Nat \ {0}
    /\ GARBLED \notin Pushers \X (1 .. MaxPushes)

VARIABLES
    clock,       \* the buffers of localtime and asctime
    m_log_time,  \* the stamp
    m_log_push_mutex, \* the threads that hold it
    m_log_buff,  \* the slots of the queue that were ever filled, in their order
    start, finish,    \* the slots popped, and the slots pushed
    file,        \* what was written to m_log_file
    pushed,      \* history: the lines in the order of their insertion
    overlapped,  \* history: the calls that met another (see PushLog, Elsewhere)
    pc, calls,   \* per pusher: where it is, and the calls it has begun
    writer       \* where write_log is; "done" once f_log has returned, "torn" once
                 \* it read a deque that was in no state (see Tear)

time == <<clock, m_log_time>>
queue == <<m_log_push_mutex, m_log_buff, start, finish, pushed>>
vars == <<time, queue, file, overlapped, pc, calls, writer>>

Calls == Pushers \X (1 .. MaxPushes)
Stamps == Calls \cup {GARBLED}

Init ==
    /\ clock = GARBLED /\ m_log_time = GARBLED
    /\ m_log_push_mutex = {}
    /\ m_log_buff = <<>> /\ start = 0 /\ finish = 0
    /\ file = <<>> /\ pushed = <<>> /\ overlapped = {}
    /\ pc = [p \in Pushers |-> "idle"]
    /\ calls = [p \in Pushers |-> 0]
    /\ writer = "start"
-------------------------------------------------------------------------------
(* push_log *)

Goto(p, l) == pc' = [pc EXCEPT ![p] = l]

\* The threads that are between the beginning of push_log and their insertion,
\* and those of them that have not copied the time yet.
Inserting == {q \in Pushers : pc[q] \in {"clock", "time", "push"}}
Timing == {q \in Pushers : pc[q] \in {"clock", "time"}}
CallsOf(P) == {<<q, calls[q]>> : q \in P}

\* The calls that meet when p begins one more.
Meeting(p) ==
    CallsOf(Inserting)
      \cup (IF Inserting = {} THEN {} ELSE {<<p, calls[p] + 1>>})

PushLog(p) ==
    /\ pc[p] = "idle" /\ calls[p] < MaxPushes
    /\ calls' = [calls EXCEPT ![p] = @ + 1]
    /\ overlapped' = overlapped \cup Meeting(p)
    /\ Goto(p, "clock")
    /\ UNCHANGED <<time, queue, file, writer>>

\* What a thread may leave in memory that it fills: garbled when another is at it.
Filled(t, shared) == {t} \cup (IF shared THEN {GARBLED} ELSE {})

\* localtime and asctime.
Asctime(p) ==
    /\ pc[p] = "clock"
    /\ clock' \in Filled(<<p, calls[p]>>, Timing # {p})
    /\ Goto(p, "time")
    /\ UNCHANGED <<m_log_time, queue, file, overlapped, calls, writer>>

\* The mutant of GetLogTime: lines that wait together share one time.
TimeOfFirst(p) ==
    /\ pc[p] = "time"
    /\ m_log_time' = IF start = finish THEN clock ELSE m_log_time
    /\ Goto(p, "push")
    /\ UNCHANGED <<clock, queue, file, overlapped, calls, writer>>

\* __get_log_time copies the buffer of asctime to the member, without a lock.
GetLogTime(p) ==
    /\ pc[p] = "time"
    /\ m_log_time' \in Filled(clock, Inserting # {p})
    /\ Goto(p, "push")
    /\ UNCHANGED <<clock, queue, file, overlapped, calls, writer>>

\* push writes the slot at the finish.
StoreLine(p) ==
    \E t \in Filled(m_log_time, \E q \in Pushers : pc[q] = "time") :
        LET line == [call |-> <<p, calls[p]>>, stamp |-> t]
        IN  /\ m_log_buff' = Append(SubSeq(m_log_buff, 1, finish), line)
            /\ pushed' = Append(pushed, line)

\* The mutant of Store: the mutex is not waited for.
StoreUnlocked(p) ==
    /\ pc[p] = "push"
    /\ m_log_push_mutex' = m_log_push_mutex \cup {p}
    /\ StoreLine(p)
    /\ Goto(p, "advance")
    /\ UNCHANGED <<time, start, finish, file, overlapped, calls, writer>>

\* The critical section of m_log_push_mutex: the line is made and stored ...
Store(p) ==
    /\ pc[p] = "push" /\ m_log_push_mutex = {}
    /\ m_log_push_mutex' = {p}
    /\ StoreLine(p)
    /\ Goto(p, "advance")
    /\ UNCHANGED <<time, start, finish, file, overlapped, calls, writer>>

\* ... and then the writer can see it.
Advance(p) ==
    /\ pc[p] = "advance"
    /\ finish' = finish + 1
    /\ m_log_push_mutex' = m_log_push_mutex \ {p}
    /\ Goto(p, "signal")
    /\ UNCHANGED <<time, m_log_buff, start, pushed, file, overlapped, calls, writer>>

\* The mutant of Signal: the writer is not woken.
SignalNobody(p) ==
    /\ pc[p] = "signal"
    /\ Goto(p, "idle")
    /\ UNCHANGED <<time, queue, file, overlapped, calls, writer>>

Signal(p) ==
    /\ pc[p] = "signal"
    /\ writer' = IF writer = "waiting" THEN "test" ELSE writer
    /\ Goto(p, "idle")
    /\ UNCHANGED <<time, queue, file, overlapped, calls>>

Pushing(p) == Asctime(p) \/ GetLogTime(p) \/ Store(p) \/ Advance(p) \/ Signal(p)
-------------------------------------------------------------------------------
(* A thread in __get_log_time of another CLogFile, g_system_log, g_event_log  *)
(* or g_thread_log: it meets those that take their time here.                 *)

Elsewhere ==
    /\ clock' = GARBLED
    /\ overlapped' = overlapped \cup CallsOf(Timing)
    /\ UNCHANGED <<m_log_time, queue, file, pc, calls, writer>>
-------------------------------------------------------------------------------
(* write_log *)

WriterOnly == UNCHANGED <<time, queue, file, overlapped, pc, calls>>

WriteLog ==
    /\ writer = "start"
    /\ writer' = "test"
    /\ WriterOnly

\* The size is read here and the wait begins later: pushers take another mutex.
TestSize ==
    /\ writer = "test"
    /\ writer' = IF start = finish THEN "wait" ELSE "drain"
    /\ WriterOnly

Wait ==
    /\ writer = "wait"
    /\ writer' = "waiting"
    /\ WriterOnly

\* pthread_cond_wait may return without a signal.
WakeSpuriously ==
    /\ writer = "waiting"
    /\ writer' = "test"
    /\ WriterOnly

\* The mutant of WriteFront: the line is deleted before it is written.
WriteFreed ==
    /\ writer = "drain" /\ start # finish
    /\ file' = Append(file, [call |-> m_log_buff[start + 1].call, stamp |-> "freed"])
    /\ writer' = "pop"
    /\ UNCHANGED <<time, queue, overlapped, pc, calls>>

WriteFront ==
    /\ writer = "drain" /\ start # finish
    /\ file' = Append(file, m_log_buff[start + 1])
    /\ writer' = "pop"
    /\ UNCHANGED <<time, queue, overlapped, pc, calls>>

Pop ==
    /\ writer = "pop"
    /\ start' = start + 1
    /\ writer' = "drain"
    /\ UNCHANGED <<time, m_log_push_mutex, m_log_buff, finish, pushed, file, overlapped,
                   pc, calls>>

\* write_log returns and f_log ends with it: nobody calls it again.
Return ==
    /\ writer = "drain" /\ start = finish
    /\ writer' = "done"
    /\ WriterOnly

\* A push that fills the last slot of a node is under way.
Crossing ==
    /\ (finish + 1) % NodeSize = 0
    /\ \E p \in Pushers : pc[p] = "advance"

\* The writer touches the queue meanwhile and finds a size, a front or a start
\* that no state of it has: the process may end, or go on with anything.
Tear ==
    /\ writer \in {"test", "drain", "pop"} /\ Crossing
    /\ writer' = "torn"
    /\ WriterOnly

Writer == WriteLog \/ TestSize \/ Wait \/ WriteFront \/ Pop \/ Return
-------------------------------------------------------------------------------
\* The model ends with a torn queue.
Next ==
    /\ writer # "torn"
    /\ \/ \E p \in Pushers : PushLog(p) \/ Pushing(p)
       \/ Elsewhere \/ Writer \/ WakeSpuriously \/ Tear

Spec == Init /\ [][Next]_vars

\* Each thread is scheduled.  A thread may never call push_log again, and the
\* library need not wake the writer spuriously.
FairSpec ==
    /\ Spec
    /\ \A p \in Pushers : WF_vars(writer # "torn" /\ Pushing(p))
    /\ WF_vars(Writer)
-------------------------------------------------------------------------------
Lines == [call : Calls, stamp : Stamps]

\* Every variable has its type.
TypeOK ==
    /\ clock \in Stamps /\ m_log_time \in Stamps
    /\ m_log_push_mutex \subseteq Pushers
    /\ m_log_buff \in Seq(Lines) /\ start \in Nat /\ finish \in Nat
    /\ file \in Seq(Lines) /\ pushed \in Seq(Lines)
    /\ overlapped \subseteq Calls
    /\ pc \in [Pushers -> {"idle", "clock", "time", "push", "advance", "signal"}]
    /\ calls \in [Pushers -> 0 .. MaxPushes]
    /\ writer \in {"start", "test", "wait", "waiting", "drain", "pop", "done", "torn"}

\* The lines in the file followed by those still in the slots are the lines pushed,
\* in the order of their insertion, none lost and none twice: though push_log and
\* write_log share no lock, the slot is filled before the finish moves, and pushers
\* keep each other out.  This ends where the writer meets a push that goes on to
\* another node.
LinesConserved ==
    LET written == IF writer = "pop" THEN start + 1 ELSE start
    IN  writer # "torn" =>
            file \o SubSeq(m_log_buff, written + 1, Len(m_log_buff)) = pushed

\* A line shows the time of the call that pushed it, unless between the beginning
\* of that call and its insertion another call on this log was under way, or a
\* call on another log while it took its time: m_log_time is one member for all
\* threads, and the buffers of localtime and asctime are one for all logs.
StampOwnUnlessOverlap ==
    \A l \in Range(pushed) : l.stamp = l.call \/ l.call \in overlapped

\* When a signal is about to reach a sleeping writer, every line that is in the
\* queue by then comes to the file, unless the writer meets a push that goes on to
\* another node.
SignalledLinesWritten ==
    \A c \in Calls :
        (/\ writer = "waiting"
         /\ \E p \in Pushers : pc[p] = "signal"
         /\ \E i \in start + 1 .. finish : m_log_buff[i].call = c)
            ~> (writer = "torn" \/ \E l \in Range(file) : l.call = c)

\* When the queue is not empty something is written.
BufferGetsWritten == (start < finish) ~> (file # <<>>)

===============================================================================
