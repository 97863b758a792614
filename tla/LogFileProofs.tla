---------------------------- MODULE LogFileProofs ----------------------------
(* Type correctness of the log, the conservation of the lines, and whose time *)
(* a line shows, for any pushers, any number of calls and any size of a node. *)
EXTENDS LogFile, SequenceTheorems, TLAPS

USE LogAssumption

\* The mutex has one holder, which has filled one slot more than the finish says;
\* nobody else is ahead of it, and the writer is not ahead of the finish.
Advancing == {p \in Pushers : pc[p] = "advance"}
Ahead == IF Advancing = {} THEN 0 ELSE 1
Held ==
    /\ m_log_push_mutex = Advancing
    /\ \A p, q \in Advancing : p = q
SlotsFilled == Len(m_log_buff) = finish + Ahead /\ pushed = m_log_buff
StartBehind == start <= finish /\ (writer = "pop" => start # finish)

\* The file is the slots written, in their order.
Written == IF writer = "pop" THEN start + 1 ELSE start
FileIsFront ==
    /\ Len(file) = Written
    /\ \A i \in 1 .. Written : file[i] = m_log_buff[i]

\* A call in progress has been counted.
CallCounted == \A p \in Pushers : pc[p] # "idle" => calls[p] \in 1 .. MaxPushes

QueueInv == Held /\ SlotsFilled /\ StartBehind /\ FileIsFront
IInv == TypeOK /\ CallCounted /\ (writer # "torn" => QueueInv)

\* Two calls before their insertions at the same time have noted each other.
MeetingsNoted ==
    \A p, q \in Inserting : p # q => <<p, calls[p]>> \in overlapped

\* Whoever overwrites the buffers after a thread filled them, or the time it has
\* taken, has met it.
ClockKept ==
    \A p \in Pushers :
        pc[p] = "time" => clock = <<p, calls[p]>> \/ <<p, calls[p]>> \in overlapped
TimeKept ==
    \A p \in Pushers :
        pc[p] = "push" => m_log_time = <<p, calls[p]>> \/ <<p, calls[p]>> \in overlapped

StampsKept == \A i \in 1 .. Len(pushed) :
    pushed[i].stamp = pushed[i].call \/ pushed[i].call \in overlapped

SInv == MeetingsNoted /\ ClockKept /\ TimeKept /\ StampsKept

\* The front of a sequence followed by the rest of another that begins with it.
LEMMA FrontAndRest ==
    ASSUME NEW S, NEW s \in Seq(S), NEW t \in Seq(S), NEW k \in Nat, k <= Len(t),
           Len(s) = k, \A i \in 1 .. k : s[i] = t[i]
    PROVE  s \o SubSeq(t, k + 1, Len(t)) = t
  <1> DEFINE r == SubSeq(t, k + 1, Len(t))
  <1>0. Len(t) \in Nat
    BY LenProperties
  <1>1. r \in Seq(S) /\ Len(r) = Len(t) - k /\ \A i \in 1 .. Len(t) - k : r[i] = t[k + i]
    <2>1. k + 1 \in 1 .. Len(t) + 1 /\ Len(t) \in k .. Len(t)
      BY <1>0
    <2> QED
      BY <1>0, <2>1, SubSeqProperties
  <1> HIDE DEF r
  <1>2. s \o r \in Seq(S) /\ Len(s \o r) = Len(t)
    BY <1>0, <1>1, ConcatProperties
  <1>3. ASSUME NEW i \in 1 .. Len(t) PROVE (s \o r)[i] = t[i]
    <2>1. CASE i <= k
      BY <1>0, <1>1, <2>1, ConcatProperties
    <2>2. CASE i > k
      <3>1. i - k \in 1 .. Len(t) - k /\ k + (i - k) = i
        BY <1>0, <2>2
      <3>2. (s \o r)[i] = r[i - k]
        BY <1>0, <1>1, <2>2, ConcatProperties
      <3> QED
        BY <1>1, <3>1, <3>2
    <2>3. i <= k \/ i > k
      BY <1>0
    <2> QED
      BY <2>1, <2>2, <2>3
  <1> QED
    BY <1>2, <1>3, SeqEqual DEF r

\* What Store makes of slots that end at the finish.
LEMMA StoreAppends ==
    ASSUME NEW S, NEW s \in Seq(S), NEW e \in S
    PROVE  Append(SubSeq(s, 1, Len(s)), e) = Append(s, e)
  <1>1. Len(s) \in Nat
    BY LenProperties
  <1>2. SubSeq(s, 1, Len(s)) \in Seq(S) /\ Len(SubSeq(s, 1, Len(s))) = Len(s)
          /\ \A i \in 1 .. Len(s) : SubSeq(s, 1, Len(s))[i] = s[i]
    BY <1>1, SubSeqProperties
  <1>3. SubSeq(s, 1, Len(s)) = s
    BY <1>1, <1>2, SeqEqual
  <1> QED
    BY <1>3

LEMMA InitIInv == Init => IInv
  BY DEF Init, IInv, TypeOK, Stamps, CallCounted, QueueInv, Held, Advancing, Ahead, SlotsFilled,
         StartBehind, FileIsFront, Written

LEMMA StepIInv == IInv /\ [Next]_vars => IInv'
  <1> SUFFICES ASSUME IInv, [Next]_vars, writer # "torn" PROVE IInv'
    <2>1. CASE writer = "torn"
      BY <2>1 DEF Next, vars, time, queue, IInv, TypeOK, CallCounted
    <2> QED
      BY <2>1
  <1> USE DEF IInv, TypeOK, CallCounted
  <1>0. QueueInv /\ Len(m_log_buff) \in Nat
    BY LenProperties
  <1>1. ASSUME NEW p \in Pushers, PushLog(p) PROVE IInv'
    <2>1. calls[p] \in 0 .. MaxPushes /\ calls[p] + 1 \in 1 .. MaxPushes
      BY <1>1 DEF PushLog
    <2>2. calls' \in [Pushers -> 0 .. MaxPushes]
      BY <1>1, <2>1 DEF PushLog
    <2>3. pc' \in [Pushers -> {"idle", "clock", "time", "push", "advance", "signal"}]
      BY <1>1 DEF PushLog, Goto
    <2>4. overlapped' \subseteq Calls
      BY <1>1, <2>1 DEF PushLog, Meeting, CallsOf, Inserting, Calls
    <2>5. TypeOK'
      BY <1>1, <2>2, <2>3, <2>4 DEF PushLog, time, queue
    <2>6. Advancing' = Advancing
      BY <1>1 DEF PushLog, Goto, Advancing
    <2>7. QueueInv'
      BY <1>0, <1>1, <2>6 DEF PushLog, queue, QueueInv, Held, Ahead, SlotsFilled, StartBehind,
                              FileIsFront, Written
    <2>8. ASSUME NEW q \in Pushers, pc'[q] # "idle" PROVE calls'[q] \in 1 .. MaxPushes
      <3>1. CASE q = p
        BY <1>1, <2>1, <3>1 DEF PushLog
      <3>2. CASE q # p
        BY <1>1, <2>8, <3>2 DEF PushLog, Goto
      <3> QED
        BY <3>1, <3>2
    <2> QED
      BY <2>5, <2>7, <2>8
  <1>2. ASSUME NEW p \in Pushers, Asctime(p) \/ GetLogTime(p) PROVE IInv'
    <2>1. <<p, calls[p]>> \in Stamps /\ GARBLED \in Stamps
      BY <1>2 DEF Asctime, GetLogTime, Stamps, Calls
    <2>2. clock' \in Stamps /\ m_log_time' \in Stamps
      BY <1>2, <2>1 DEF Asctime, GetLogTime, Filled
    <2>3. pc' \in [Pushers -> {"idle", "clock", "time", "push", "advance", "signal"}]
      BY <1>2 DEF Asctime, GetLogTime, Goto
    <2>4. Advancing' = Advancing
      BY <1>2 DEF Asctime, GetLogTime, Goto, Advancing
    <2>5. QueueInv'
      BY <1>0, <1>2, <2>4 DEF Asctime, GetLogTime, queue, QueueInv, Held, Ahead, SlotsFilled,
                              StartBehind, FileIsFront, Written
    <2> QED
      BY <1>2, <2>2, <2>3, <2>5 DEF Asctime, GetLogTime, queue, Goto
  <1>3. ASSUME NEW p \in Pushers, Store(p) PROVE IInv'
    <2>1. PICK t \in Stamps :
             /\ m_log_buff' = Append(SubSeq(m_log_buff, 1, finish), [call |-> <<p, calls[p]>>, stamp |-> t])
             /\ pushed' = Append(pushed, [call |-> <<p, calls[p]>>, stamp |-> t])
      BY <1>3 DEF Store, StoreLine, Filled, Stamps
    <2> DEFINE line == [call |-> <<p, calls[p]>>, stamp |-> t]
    <2>2. line \in Lines
      BY <1>3 DEF Store, Lines, Calls
    <2>3. Advancing = {} /\ Advancing' = {p}
      BY <1>0, <1>3 DEF Store, Goto, QueueInv, Held, Advancing
    <2>4. Len(m_log_buff) = finish
      BY <1>0, <2>3 DEF QueueInv, SlotsFilled, Ahead
    <2>5. m_log_buff' = Append(m_log_buff, line) /\ pushed' = Append(m_log_buff, line)
      <3> HIDE DEF line
      <3> QED
        BY <1>0, <2>1, <2>2, <2>4, StoreAppends DEF QueueInv, SlotsFilled, line
    <2> HIDE DEF line
    <2>6. /\ m_log_buff' \in Seq(Lines) /\ Len(m_log_buff') = finish + 1
          /\ \A i \in 1 .. finish : m_log_buff'[i] = m_log_buff[i]
      BY <2>2, <2>4, <2>5, AppendProperties
    <2>7. Held' /\ SlotsFilled' /\ StartBehind'
      BY <1>0, <1>3, <2>3, <2>5, <2>6 DEF Store, QueueInv, Held, SlotsFilled, StartBehind, Ahead
    <2>8. Written' = Written /\ Written \in 0 .. finish
      BY <1>0, <1>3 DEF Store, Written, QueueInv, StartBehind
    <2>9. FileIsFront'
      <3>1. \A i \in 1 .. Written : m_log_buff'[i] = m_log_buff[i]
        BY <2>6, <2>8
      <3>2. file' = file /\ FileIsFront
        BY <1>0, <1>3 DEF Store, QueueInv
      <3> QED
        BY <2>8, <3>1, <3>2 DEF FileIsFront
    <2>10. pc' \in [Pushers -> {"idle", "clock", "time", "push", "advance", "signal"}]
      BY <1>3 DEF Store, Goto
    <2>11. TypeOK'
      BY <1>3, <2>5, <2>6, <2>10 DEF Store, time
    <2>12. CallCounted'
      BY <1>3 DEF Store, Goto
    <2> QED
      BY <2>7, <2>9, <2>11, <2>12 DEF QueueInv
  <1>4. ASSUME NEW p \in Pushers, Advance(p) PROVE IInv'
    <2>1. Advancing = {p} /\ Advancing' = {}
      BY <1>0, <1>4 DEF Advance, Goto, QueueInv, Held, Advancing
    <2>2. Held' /\ SlotsFilled' /\ StartBehind'
      BY <1>0, <1>4, <2>1 DEF Advance, QueueInv, Held, SlotsFilled, StartBehind, Ahead
    <2>3. FileIsFront'
      BY <1>0, <1>4 DEF Advance, FileIsFront, Written, QueueInv
    <2>4. pc' \in [Pushers -> {"idle", "clock", "time", "push", "advance", "signal"}]
      BY <1>4 DEF Advance, Goto
    <2>5. TypeOK' /\ CallCounted'
      BY <1>4, <2>4 DEF Advance, time, Goto
    <2> QED
      BY <2>2, <2>3, <2>5 DEF QueueInv
  <1>5. ASSUME NEW p \in Pushers, Signal(p) PROVE IInv'
    <2>1. Advancing' = Advancing
      BY <1>5 DEF Signal, Goto, Advancing
    <2>2. QueueInv'
      BY <1>0, <1>5, <2>1 DEF Signal, queue, QueueInv, Held, Ahead, SlotsFilled, StartBehind,
                              FileIsFront, Written
    <2>3. pc' \in [Pushers -> {"idle", "clock", "time", "push", "advance", "signal"}]
      BY <1>5 DEF Signal, Goto
    <2> QED
      BY <1>5, <2>2, <2>3 DEF Signal, time, queue, Goto
  <1>6. ASSUME WriteLog \/ TestSize \/ Wait \/ Return \/ WakeSpuriously \/ Tear PROVE IInv'
    <2>1. TypeOK' /\ CallCounted' /\ UNCHANGED <<queue, pc, file>>
      BY <1>6 DEF WriteLog, TestSize, Wait, Return, WakeSpuriously, Tear, WriterOnly, time, queue
    <2>2. writer' = "torn" \/ (writer # "pop" /\ writer' # "pop")
      BY <1>6 DEF WriteLog, TestSize, Wait, Return, WakeSpuriously, Tear
    <2>3. Advancing' = Advancing
      BY <2>1 DEF Advancing
    <2> QED
      BY <1>0, <2>1, <2>2, <2>3 DEF queue, QueueInv, Held, Ahead, SlotsFilled, StartBehind,
                                    FileIsFront, Written
  <1>7. ASSUME WriteFront PROVE IInv'
    <2>1. start + 1 \in 1 .. Len(m_log_buff) /\ start < finish
      BY <1>0, <1>7 DEF WriteFront, QueueInv, StartBehind, SlotsFilled, Ahead
    <2>2. m_log_buff[start + 1] \in Lines
      BY <2>1, ElementOfSeq
    <2>3. /\ file' \in Seq(Lines) /\ Len(file') = Len(file) + 1
          /\ file'[Len(file) + 1] = m_log_buff[start + 1]
          /\ \A i \in 1 .. Len(file) : file'[i] = file[i]
      BY <1>7, <2>2, AppendProperties DEF WriteFront
    <2>4. Len(file) = start /\ \A i \in 1 .. start : file[i] = m_log_buff[i]
      BY <1>0, <1>7 DEF WriteFront, QueueInv, FileIsFront, Written
    <2>5. FileIsFront'
      BY <1>7, <2>3, <2>4 DEF WriteFront, FileIsFront, Written, queue
    <2>6. Held' /\ SlotsFilled' /\ StartBehind'
      BY <1>0, <1>7 DEF WriteFront, queue, QueueInv, Held, Advancing, Ahead, SlotsFilled, StartBehind
    <2> QED
      BY <1>7, <2>3, <2>5, <2>6 DEF WriteFront, queue, time, QueueInv
  <1>8. ASSUME Pop PROVE IInv'
    <2>1. start' <= finish'
      BY <1>0, <1>8 DEF Pop, QueueInv, StartBehind
    <2> QED
      BY <1>0, <1>8, <2>1 DEF Pop, time, QueueInv, Held, Advancing, Ahead, SlotsFilled, StartBehind,
                              FileIsFront, Written
  <1>9. ASSUME Elsewhere PROVE IInv'
    <2>1. CallsOf(Timing) \subseteq Calls
      BY DEF CallsOf, Timing, Calls
    <2>2. TypeOK' /\ CallCounted' /\ UNCHANGED <<queue, pc, file, writer>>
      BY <1>9, <2>1 DEF Elsewhere, Stamps, queue
    <2> QED
      BY <1>0, <2>2 DEF queue, QueueInv, Held, Advancing, Ahead, SlotsFilled, StartBehind,
                        FileIsFront, Written
  <1>10. ASSUME UNCHANGED vars PROVE IInv'
    BY <1>0, <1>10 DEF vars, time, queue, QueueInv, Held, Advancing, Ahead, SlotsFilled, StartBehind,
                       FileIsFront, Written
  <1> QED
    BY <1>1, <1>2, <1>3, <1>4, <1>5, <1>6, <1>7, <1>8, <1>9, <1>10 DEF Next, Pushing, Writer

\* Every reachable state of the log is well typed.
THEOREM LogTypeCorrect == Spec => []TypeOK
  <1>1. Init => IInv
    BY InitIInv
  <1>2. IInv /\ [Next]_vars => IInv'
    BY StepIInv
  <1>3. IInv => TypeOK
    BY DEF IInv
  <1> QED
    BY <1>1, <1>2, <1>3, PTL DEF Spec

LEMMA FrontIsConserved == IInv => LinesConserved
  <1> SUFFICES ASSUME IInv, writer # "torn"
               PROVE  file \o SubSeq(m_log_buff, Written + 1, Len(m_log_buff)) = pushed
    BY DEF LinesConserved, Written
  <1>1. Written \in Nat /\ Written <= Len(m_log_buff)
    BY DEF IInv, TypeOK, QueueInv, Written, StartBehind, SlotsFilled, Ahead
  <1> QED
    BY <1>1, FrontAndRest DEF IInv, TypeOK, QueueInv, FileIsFront, SlotsFilled

\* push_log and write_log, which share no lock, neither lose, repeat nor reorder
\* a line while the writer meets no push that goes on to another node: the slot is
\* filled before the finish moves, by one pusher at a time.
THEOREM NoLineLost == Spec => []LinesConserved
  <1>1. Init => IInv
    BY InitIInv
  <1>2. IInv /\ [Next]_vars => IInv'
    BY StepIInv
  <1>3. IInv => LinesConserved
    BY FrontIsConserved
  <1> QED
    BY <1>1, <1>2, <1>3, PTL DEF Spec

LEMMA InitSInv == Init => SInv
  BY DEF Init, SInv, MeetingsNoted, ClockKept, TimeKept, StampsKept, Inserting

LEMMA StepSInv == IInv /\ SInv /\ [Next]_vars => SInv'
  <1> SUFFICES ASSUME IInv, SInv, [Next]_vars PROVE SInv'
    OBVIOUS
  <1> USE DEF SInv, MeetingsNoted, ClockKept, TimeKept, StampsKept
  <1>0. /\ pc \in [Pushers -> {"idle", "clock", "time", "push", "advance", "signal"}]
        /\ calls \in [Pushers -> 0 .. MaxPushes]
        /\ pushed \in Seq(Lines)
    BY DEF IInv, TypeOK
  <1>1. ASSUME NEW p \in Pushers, PushLog(p) PROVE SInv'
    <2>1. \A q \in Inserting : /\ <<q, calls[q]>> \in overlapped'
                               /\ <<p, calls[p] + 1>> \in overlapped'
                               /\ q # p
      BY <1>1 DEF PushLog, Meeting, CallsOf, Inserting
    <2>2. \A q \in Pushers \ {p} : calls'[q] = calls[q] /\ pc'[q] = pc[q]
      BY <1>0, <1>1 DEF PushLog, Goto
    <2>3. calls'[p] = calls[p] + 1 /\ pc'[p] = "clock"
      BY <1>0, <1>1 DEF PushLog, Goto
    <2>4. overlapped \subseteq overlapped' /\ UNCHANGED <<clock, m_log_time, pushed>>
      BY <1>1 DEF PushLog, time, queue
    <2>5. MeetingsNoted'
      BY <2>1, <2>2, <2>3 DEF Inserting
    <2>6. ClockKept' /\ TimeKept'
      BY <2>2, <2>3, <2>4
    <2> QED
      BY <2>4, <2>5, <2>6
  <1>2. ASSUME NEW p \in Pushers, Asctime(p) PROVE SInv'
    <2>1. UNCHANGED <<overlapped, pushed, calls, m_log_time>>
      BY <1>2 DEF Asctime, queue
    <2>2. pc'[p] = "time" /\ \A q \in Pushers \ {p} : pc'[q] = pc[q]
      BY <1>0, <1>2 DEF Asctime, Goto
    <2>3. p \in Inserting /\ Inserting' = Inserting /\ Timing \subseteq Inserting /\ p \in Timing
      BY <1>2, <2>2 DEF Asctime, Inserting, Timing
    <2>4. ASSUME NEW q \in Pushers, pc'[q] = "time"
          PROVE  clock' = <<q, calls[q]>> \/ <<q, calls[q]>> \in overlapped
      <3>1. CASE q # p
        <4>1. q \in Inserting
          BY <2>2, <2>4, <3>1 DEF Inserting
        <4> QED
          BY <2>3, <3>1, <4>1
      <3>2. CASE q = p /\ Timing = {p}
        BY <1>2, <3>2 DEF Asctime, Filled
      <3>3. CASE q = p /\ Timing # {p}
        <4>1. PICK r \in Timing : r # p
          BY <2>3, <3>3
        <4> QED
          BY <2>3, <3>3, <4>1
      <3> QED
        BY <3>1, <3>2, <3>3
    <2> QED
      BY <2>1, <2>2, <2>3, <2>4
  <1>3. ASSUME NEW p \in Pushers, GetLogTime(p) PROVE SInv'
    <2>1. UNCHANGED <<overlapped, pushed, calls, clock>>
      BY <1>3 DEF GetLogTime, queue
    <2>2. pc'[p] = "push" /\ \A q \in Pushers \ {p} : pc'[q] = pc[q]
      BY <1>0, <1>3 DEF GetLogTime, Goto
    <2>3. p \in Inserting /\ Inserting' = Inserting /\ pc[p] = "time"
      BY <1>3, <2>2 DEF GetLogTime, Inserting
    <2>4. ASSUME NEW q \in Pushers, pc'[q] = "push"
          PROVE  m_log_time' = <<q, calls[q]>> \/ <<q, calls[q]>> \in overlapped
      <3>1. CASE q # p
        <4>1. q \in Inserting
          BY <2>2, <2>4, <3>1 DEF Inserting
        <4> QED
          BY <2>3, <3>1, <4>1
      <3>2. CASE q = p /\ Inserting = {p}
        <4>1. m_log_time' = clock
          BY <1>3, <3>2 DEF GetLogTime, Filled
        <4> QED
          BY <2>3, <3>2, <4>1
      <3>3. CASE q = p /\ Inserting # {p}
        <4>1. PICK r \in Inserting : r # p
          BY <2>3, <3>3
        <4> QED
          BY <2>3, <3>3, <4>1
      <3> QED
        BY <3>1, <3>2, <3>3
    <2> QED
      BY <2>1, <2>2, <2>3, <2>4
  <1>4. ASSUME NEW p \in Pushers, Store(p) PROVE SInv'
    <2>1. UNCHANGED <<overlapped, clock, m_log_time, calls>>
      BY <1>4 DEF Store, time
    <2>2. pc'[p] = "advance" /\ \A q \in Pushers \ {p} : pc'[q] = pc[q]
      BY <1>0, <1>4 DEF Store, Goto
    <2>3. Inserting' \subseteq Inserting /\ p \in Inserting
      BY <1>4, <2>2 DEF Store, Inserting
    <2>4. PICK t \in Stamps :
             /\ pushed' = Append(pushed, [call |-> <<p, calls[p]>>, stamp |-> t])
             /\ t = m_log_time \/ \E q \in Pushers : pc[q] = "time"
      BY <1>4 DEF Store, StoreLine, Filled, Stamps, IInv, TypeOK
    <2> DEFINE line == [call |-> <<p, calls[p]>>, stamp |-> t]
    <2>5. line.stamp = line.call \/ line.call \in overlapped
      <3>1. CASE t = m_log_time
        BY <1>4, <3>1 DEF Store
      <3>2. CASE \E q \in Pushers : pc[q] = "time"
        <4>1. PICK q \in Pushers : pc[q] = "time"
          BY <3>2
        <4>2. q \in Inserting /\ q # p
          BY <1>4, <4>1 DEF Store, Inserting
        <4> QED
          BY <2>3, <4>2
      <3> QED
        BY <2>4, <3>1, <3>2
    <2>6. line \in Lines
      BY <1>4 DEF Store, Lines, Calls, IInv, CallCounted
    <2>7. /\ Len(pushed') = Len(pushed) + 1 /\ pushed'[Len(pushed) + 1] = line
          /\ \A i \in 1 .. Len(pushed) : pushed'[i] = pushed[i]
      BY <1>0, <2>4, <2>6, AppendProperties
    <2>8. Len(pushed) \in Nat
      BY <1>0, LenProperties
    <2>9. StampsKept'
      <3> HIDE DEF line
      <3>1. ASSUME NEW i \in 1 .. Len(pushed')
            PROVE  pushed'[i].stamp = pushed'[i].call \/ pushed'[i].call \in overlapped
        <4>1. i \in 1 .. Len(pushed) \/ i = Len(pushed) + 1
          BY <2>7, <2>8
        <4> QED
          BY <2>5, <2>7, <4>1
      <3> QED
        BY <2>1, <3>1
    <2>10. MeetingsNoted' /\ ClockKept' /\ TimeKept'
      BY <2>1, <2>2, <2>3
    <2> QED
      BY <2>9, <2>10
  <1>5. ASSUME NEW p \in Pushers, Advance(p) \/ Signal(p) PROVE SInv'
    <2>1. UNCHANGED <<overlapped, clock, m_log_time, calls, pushed>>
      BY <1>5 DEF Advance, Signal, time, queue
    <2>2. pc'[p] \in {"signal", "idle"} /\ \A q \in Pushers \ {p} : pc'[q] = pc[q]
      BY <1>0, <1>5 DEF Advance, Signal, Goto
    <2> QED
      BY <2>1, <2>2 DEF Inserting
  <1>6. ASSUME Elsewhere PROVE SInv'
    <2>1. UNCHANGED <<m_log_time, calls, pushed, pc>> /\ overlapped \subseteq overlapped'
      BY <1>6 DEF Elsewhere, queue
    <2>2. \A p \in Pushers : pc[p] = "time" => <<p, calls[p]>> \in overlapped'
      BY <1>6 DEF Elsewhere, CallsOf, Timing
    <2> QED
      BY <2>1, <2>2 DEF Inserting
  <1>7. ASSUME Writer \/ WakeSpuriously \/ Tear \/ UNCHANGED vars PROVE SInv'
    <2>1. UNCHANGED <<clock, m_log_time, pushed, overlapped, pc, calls>>
      BY <1>7 DEF Writer, WriteLog, TestSize, Wait, WriteFront, Pop, Return, WakeSpuriously, Tear,
                  WriterOnly, vars, time, queue
    <2> QED
      BY <2>1 DEF Inserting
  <1> QED
    BY <1>1, <1>2, <1>3, <1>4, <1>5, <1>6, <1>7 DEF Next, Pushing

\* The time of a line is its own unless another call of push_log on this log was
\* under way between its beginning and its insertion, or a call on another log
\* while it took its time.
THEOREM StampsOwn == Spec => []StampOwnUnlessOverlap
  <1>1. Init => IInv /\ SInv
    BY InitIInv, InitSInv
  <1>2. IInv /\ SInv /\ [Next]_vars => (IInv /\ SInv)'
    BY StepIInv, StepSInv
  <1>3. IInv /\ SInv => StampOwnUnlessOverlap
    BY DEF IInv, TypeOK, SInv, StampsKept, StampOwnUnlessOverlap, Range
  <1> QED
    BY <1>1, <1>2, <1>3, PTL DEF Spec
===============================================================================
