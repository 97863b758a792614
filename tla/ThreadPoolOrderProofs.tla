------------------------ MODULE ThreadPoolOrderProofs ------------------------
(***************************************************************************)
(* The order in which CThreadPool uses its threads, for any number of      *)
(* them.  m_idle_list \o m_busy_list is one queue: __move_to_busy takes    *)
(* its first element to its end, __move_to_idle only moves the border      *)
(* between the two vectors.  The queue therefore rotates by one with each  *)
(* st_event, which gives the partition, the round robin, and from it that  *)
(* the first round of st_events overwrites nothing.                        *)
(***************************************************************************)
EXTENDS ThreadPoolProofs, Integers

Order == m_idle_list \o m_busy_list

\* How many st_events run() has picked a thread for.
Taken == IF main \in {"run", "idle_wait"} THEN n_events - 1 ELSE n_events

\* The thread that is picked for the st_event after the n-th.
Turn(n) == (n % NumThreads) + 1

OrderInv ==
    /\ PoolPartition
    /\ \A i \in Threads : Order[i] = Turn(Taken + i - 1)
    /\ main = "set" => work = Turn(p_event - 1)

FirstRoundInv ==
    n_events <= NumThreads =>
        /\ \A w \in Threads : m_event[w] \in {NULL, w}
        /\ \A w \in Threads :
              pc[w] = "clear" /\ m_event[w] # NULL => heap[w].status = "freed"
        /\ \A e \in Events : heap[e].status = "live" /\ e \notin Undelivered =>
              e \in Threads /\ m_event[e] = e
-------------------------------------------------------------------------------
(* The remainder of a division, which the provers know by its definition only. *)

LEMMA DivMod ==
  \A k \in Nat, n \in Nat \ {0} :
     k \div n \in Nat /\ k % n \in 0 .. (n-1) /\ k = n * (k \div n) + (k % n)
  BY SMTT(20)

LEMMA ModSmall == \A n \in Nat \ {0} : \A k \in 0 .. (n-1) : k % n = k
  BY SMTT(20)

LEMMA Multiple == \A d \in Int, n \in Nat \ {0} : (d >= 1 => n * d >= n) /\ (d <= -1 => n * d <= -n)
  BY SMTT(20)

LEMMA RemainderUnique ==
  ASSUME NEW n \in Nat \ {0}, NEW q1 \in Int, NEW q2 \in Int,
         NEW r1 \in 0 .. (n-1), NEW r2 \in 0 .. (n-1), n * q1 + r1 = n * q2 + r2
  PROVE  r1 = r2
<1>1. n * (q1 - q2) = r2 - r1
  BY SMTT(20)
<1>2. q1 - q2 = 0
  BY <1>1, Multiple
<1> QED
  BY <1>2

LEMMA ModAdd == \A k \in Nat, n \in Nat \ {0} : (k + n) % n = k % n
<1> TAKE k \in Nat, n \in Nat \ {0}
<1> DEFINE m == k + n
<1>0. m \in Nat
  OBVIOUS
<1> HIDE DEF m
<1>1. m = n * (m \div n) + (m % n) /\ m % n \in 0..(n-1) /\ m \div n \in Nat
  BY <1>0, DivMod
<1>2. k = n * (k \div n) + (k % n) /\ k % n \in 0..(n-1) /\ k \div n \in Nat
  BY DivMod
<1>3. n * ((k \div n) + 1) = n * (k \div n) + n
  BY <1>2, SMTT(10)
<1>4. n * ((k \div n) + 1) + (k % n) = n * (m \div n) + (m % n)
  BY <1>1, <1>2, <1>3 DEF m
<1>5. (k \div n) + 1 \in Int /\ m \div n \in Int
  BY <1>1, <1>2
<1>6. k % n = m % n
  BY <1>1, <1>2, <1>4, <1>5, RemainderUnique, Zenon
<1> QED
  BY <1>6 DEF m
-------------------------------------------------------------------------------
LEMMA Rotation ==
  ASSUME NEW S, NEW a \in Seq(S), NEW b \in Seq(S), a # <<>>
  PROVE  /\ Len(Tail(a) \o Append(b, Head(a))) = Len(a \o b)
         /\ \A i \in 1 .. Len(a \o b) : (Tail(a) \o Append(b, Head(a)))[i] = IF i < Len(a \o b) THEN (a \o b)[i+1] ELSE (a \o b)[1]
<1>1. Tail(a) \in Seq(S) /\ Len(Tail(a)) = Len(a) - 1 /\ Len(a) \in Nat \ {0} /\ \A i \in 1..Len(Tail(a)) : Tail(a)[i] = a[i+1]
  BY HeadTailProperties
<1>2. Append(b, Head(a)) \in Seq(S) /\ Len(Append(b, Head(a))) = Len(b) + 1 /\ \A i \in 1..Len(b) : Append(b, Head(a))[i] = b[i]
  BY HeadTailProperties, AppendProperties
<1>3. Append(b, Head(a))[Len(b)+1] = a[1]
  BY HeadTailProperties, AppendProperties
<1> QED
  BY <1>1, <1>2, <1>3, ConcatProperties
LEMMA Handover ==
  ASSUME NEW S, NEW a \in Seq(S), NEW b \in Seq(S), b # <<>>
  PROVE  /\ Len(Append(a, Head(b)) \o Tail(b)) = Len(a \o b)
         /\ \A i \in 1 .. Len(a \o b) : (Append(a, Head(b)) \o Tail(b))[i] = (a \o b)[i]
<1>1. Tail(b) \in Seq(S) /\ Len(Tail(b)) = Len(b) - 1 /\ Len(b) \in Nat \ {0} /\ \A i \in 1..Len(Tail(b)) : Tail(b)[i] = b[i+1]
  BY HeadTailProperties
<1>2. Append(a, Head(b)) \in Seq(S) /\ Len(Append(a, Head(b))) = Len(a) + 1 /\ \A i \in 1..Len(a) : Append(a, Head(b))[i] = a[i]
  BY HeadTailProperties, AppendProperties
<1>3. Append(a, Head(b))[Len(a)+1] = b[1]
  BY HeadTailProperties, AppendProperties
<1> QED
  BY <1>1, <1>2, <1>3, ConcatProperties
-------------------------------------------------------------------------------
USE PoolAssumption

LEMMA TurnWraps == \A k \in Nat : Turn(k + NumThreads) = Turn(k)
BY ModAdd DEF Turn

LEMMA TurnOfFirstRound == \A k \in Threads : Turn(k - 1) = k
<1> TAKE k \in Threads
<1>1. k - 1 \in 0 .. (NumThreads - 1)
  BY DEF Threads
<1> QED
  BY <1>1, ModSmall DEF Turn, Threads

LEMMA InitOrder == Init => OrderInv
<1> SUFFICES ASSUME Init PROVE OrderInv
  OBVIOUS
<1>1. m_idle_list \in Seq(Threads) /\ m_busy_list \in Seq(Threads)
  BY InitIInv DEF IInv, TypeOK
<1>2. Len(m_idle_list) = NumThreads /\ Len(m_busy_list) = 0
  BY DEF Init, Threads
<1>3. Len(Order) = NumThreads /\ \A i \in Threads : Order[i] = i
  BY <1>1, <1>2, ConcatProperties DEF Init, Threads, Order
<1>4. PoolPartition
  BY <1>3 DEF PoolPartition, Order, Threads
<1>5. \A i \in Threads : Order[i] = Turn(Taken + i - 1)
  BY <1>3, TurnOfFirstRound DEF Init, Taken, Threads
<1> QED
  BY <1>4, <1>5 DEF OrderInv, Init

LEMMA StepOrder == IInv /\ OrderInv /\ [Next]_vars => OrderInv'
<1> SUFFICES ASSUME IInv, OrderInv, [Next]_vars PROVE OrderInv'
  OBVIOUS
<1> USE DEF Threads
<1>t. /\ m_idle_list \in Seq(Threads) /\ m_busy_list \in Seq(Threads)
      /\ n_events \in Nat /\ Len(Order) = NumThreads
  BY DEF IInv, TypeOK, OrderInv, PoolPartition, Order
(* Steps that leave both vectors, the count and the choice alone. *)
<1>s. ASSUME UNCHANGED <<m_idle_list, m_busy_list, p_event, work>>, Taken' = Taken,
             main' = "set" => main = "set"
      PROVE  OrderInv'
  BY <1>s DEF OrderInv, PoolPartition, Order
<1>1. ASSUME NEW s \in Socks, Dispatch(s) PROVE OrderInv'
  <2>1. UNCHANGED <<m_idle_list, m_busy_list>> /\ main' = "run" /\ Taken' = Taken
    BY <1>1, <1>t DEF Dispatch, Taken
  <2> QED
    BY <2>1 DEF OrderInv, PoolPartition, Order
<1>2. CASE TakeIdle
  <2>1. m_idle_list # <<>> /\ main = "run"
    BY <1>2 DEF TakeIdle
  <2>2. /\ Len(Order') = NumThreads
        /\ \A i \in Threads : Order'[i] = IF i < NumThreads THEN Order[i + 1] ELSE Order[1]
    <3>1. Order' = Tail(m_idle_list) \o Append(m_busy_list, Head(m_idle_list))
      BY <1>2 DEF TakeIdle, MoveToBusy, Order
    <3>2. /\ Len(Order') = Len(Order)
          /\ \A i \in 1 .. Len(Order) :
                Order'[i] = IF i < Len(Order) THEN Order[i + 1] ELSE Order[1]
      BY <3>1, <1>t, <2>1, Rotation DEF Order
    <3> QED
      BY <3>2, <1>t
  <2>3. PoolPartition'
    <3>1. \A i, j \in Threads : Order[i] = Order[j] => i = j
      BY <1>t DEF OrderInv, PoolPartition, Order
    <3>2. \A i, j \in Threads : Order'[i] = Order'[j] => i = j
      BY <2>2, <3>1
    <3> QED
      BY <2>2, <3>2 DEF PoolPartition, Order
  <2>4. Taken \in Nat /\ Taken' = Taken + 1 /\ p_event' = Taken + 1 /\ work' = Order[1]
    <3>1. n_events \in Nat \ {0} /\ p_event = n_events
      BY <2>1 DEF IInv, TypeOK, MainInv, Events
    <3>2. Head(m_idle_list) = Order[1]
      BY <2>1, <1>t, HeadTailProperties, ConcatProperties, EmptySeq DEF Order
    <3> QED
      BY <1>2, <2>1, <3>1, <3>2 DEF TakeIdle, Taken
  <2>5. \A i \in Threads : Order'[i] = Turn(Taken' + i - 1)
    <3> TAKE i \in Threads
    <3>1. CASE i < NumThreads
      <4>1. Order'[i] = Order[i + 1] /\ i + 1 \in Threads
        BY <3>1, <2>2
      <4>2. Taken' + i - 1 = Taken + (i + 1) - 1
        BY <2>4
      <4> QED
        BY <4>1, <4>2 DEF OrderInv
    <3>2. CASE i = NumThreads
      <4>1. Order'[i] = Turn(Taken)
        BY <3>2, <2>2, <2>4 DEF OrderInv
      <4>2. Taken' + i - 1 = Taken + NumThreads
        BY <3>2, <2>4
      <4> QED
        BY <4>1, <4>2, <2>4, TurnWraps
    <3> QED
      BY <3>1, <3>2
  <2>6. work' = Turn(p_event' - 1)
    BY <2>4 DEF OrderInv
  <2> QED
    BY <2>3, <2>5, <2>6 DEF OrderInv
<1>3. CASE InvokeMoveToIdle
  <2>1. UNCHANGED <<p_event, work>> /\ Taken' = Taken /\ main' = "epoll"
    BY <1>3 DEF InvokeMoveToIdle, Taken
  <2>2. CASE UNCHANGED <<m_idle_list, m_busy_list>>
    BY <2>1, <2>2 DEF OrderInv, PoolPartition, Order
  <2>3. CASE m_busy_list # <<>> /\ MoveToIdle(Head(m_busy_list))
    <3>1. /\ Len(Order') = NumThreads
          /\ \A i \in Threads : Order'[i] = Order[i]
      BY <2>3, <1>t, Handover DEF MoveToIdle, Order
    <3> QED
      BY <3>1, <2>1, <1>t DEF OrderInv, PoolPartition, Order
  <2> QED
    BY <1>3, <2>2, <2>3 DEF InvokeMoveToIdle
<1>4. CASE WaitIdle \/ WakeIdle \/ SetEvent \/ Signal
  BY <1>4, <1>s DEF WaitIdle, WakeIdle, SetEvent, Signal, Taken
<1>5. ASSUME NEW w \in Threads, Work(w) \/ SpuriousWake(w) PROVE OrderInv'
  <2>1. UNCHANGED mainVars
    BY <1>5 DEF Work, CheckEvent, SpuriousWake, SetBusy, LoadSock, PeekData, PeekNothing,
       PeekAgain, RestoreSock, CopyEvent, Handle, FreeEvent, ClearEvent, SetIdle
  <2> QED
    BY <2>1, <1>s DEF mainVars, Taken
<1>6. CASE UNCHANGED vars
  BY <1>6, <1>s DEF vars, mainVars, Taken
<1> QED
  BY <1>1, <1>2, <1>3, <1>4, <1>5, <1>6 DEF Next, MainRun

LEMMA OrderInductive == Spec => []OrderInv
<1>1. IInv /\ OrderInv /\ [Next]_vars => OrderInv'
  BY StepOrder
<1> QED
  BY <1>1, InitOrder, Inductive, PTL DEF Spec

(* Each thread is in exactly one of the two vectors and in it once, for any   *)
(* number of threads: __move_to_busy and __move_to_idle lose none.            *)
THEOREM Partition == Spec => []PoolPartition
<1>1. OrderInv => PoolPartition
  BY DEF OrderInv
<1> QED
  BY <1>1, OrderInductive, PTL

(* The n-th st_event goes to thread n modulo m_threads, whatever the workers  *)
(* do: a long job delays its whole turn, not only its socket.                 *)
THEOREM Rotates == Spec => []RoundRobin
<1>1. OrderInv => RoundRobin
  BY DEF OrderInv, RoundRobin, Turn
<1> QED
  BY <1>1, OrderInductive, PTL
-------------------------------------------------------------------------------
LEMMA InitFirstRound == Init => FirstRoundInv
BY DEF Init, FirstRoundInv, Threads, Events

LEMMA StepFirstRound == IInv /\ OrderInv /\ FirstRoundInv /\ [Next]_vars => FirstRoundInv'
<1> SUFFICES ASSUME IInv, OrderInv, FirstRoundInv, [Next]_vars, n_events' <= NumThreads
             PROVE  FirstRoundInv'
  BY DEF FirstRoundInv
<1> USE DEF Threads, Events
<1>t. /\ TypeOK /\ HeapInv /\ PointerInv /\ MainInv
      /\ m_event \in [Threads -> Events \cup {NULL}]
  BY DEF IInv, TypeOK
<1>1. ASSUME NEW s \in Socks, Dispatch(s) PROVE FirstRoundInv'
  <2>1. n_events <= NumThreads /\ n_events + 1 \in Events
    BY <1>1, <1>t DEF Dispatch, TypeOK
  <2>2. heap[n_events + 1].status = "unused" /\ p_event' = n_events + 1 /\ main' = "run"
    BY <1>1, <1>t, <2>1 DEF Dispatch, HeapInv, TypeOK
  <2> QED
    BY <1>1, <1>t, <2>1, <2>2 DEF Dispatch, workerVars, TypeOK, EventObjects, FirstRoundInv, Undelivered, PointerInv, MainInv, HeapInv
<1>2. CASE WaitIdle \/ WakeIdle \/ TakeIdle \/ InvokeMoveToIdle
  BY <1>2, <1>t DEF WaitIdle, WakeIdle, TakeIdle, InvokeMoveToIdle, workerVars, FirstRoundInv, Undelivered
<1>3. CASE SetEvent
  <2>1. work = p_event /\ p_event \in Threads /\ p_event = n_events
    BY <1>3, <1>t, TurnOfFirstRound DEF SetEvent, OrderInv, MainInv, TypeOK
  <2>2. \A w \in Threads : m_event'[w] = IF w = p_event THEN p_event ELSE m_event[w]
    BY <1>3, <1>t, <2>1 DEF SetEvent
  <2>3. heap[p_event].status = "live" /\ p_event \in Events
    BY <1>3, <1>t DEF SetEvent, MainInv
  <2> QED
    BY <1>3, <1>t, <2>1, <2>2, <2>3 DEF SetEvent, workerVars, TypeOK, EventObjects, FirstRoundInv, Undelivered, PointerInv, MainInv, HeapInv
<1>4. CASE Signal
  BY <1>4, <1>t DEF Signal, Wake, FirstRoundInv, Undelivered, TypeOK, MainInv
<1>5. ASSUME NEW w \in Threads, FreeEvent(w) PROVE FirstRoundInv'
  BY <1>5, <1>t DEF FreeEvent, mainVars, TypeOK, EventObjects, FirstRoundInv, Undelivered, PointerInv, MainInv, HeapInv, Using
<1>6. ASSUME NEW w \in Threads, ClearEvent(w) PROVE FirstRoundInv'
  BY <1>6, <1>t DEF ClearEvent, mainVars, TypeOK, EventObjects, FirstRoundInv, Undelivered, PointerInv, MainInv, HeapInv, Using
<1>7. ASSUME NEW w \in Threads, PeekData(w) \/ RestoreSock(w) PROVE FirstRoundInv'
  <2>1. heap \in [Events -> EventObjects] /\ m_event[w] \in Events
    BY <1>7, <1>t DEF PeekData, RestoreSock, TypeOK, PointerInv, Using
  <2>2. \A e \in Events : heap'[e].status = heap[e].status
    <3>1. CASE PeekData(w)
      BY <3>1, <2>1 DEF PeekData, EventObjects
    <3>2. CASE RestoreSock(w)
      BY <3>2, <2>1 DEF RestoreSock, EventObjects
    <3> QED
      BY <1>7, <3>1, <3>2
  <2>3. /\ UNCHANGED <<main, p_event, n_events, m_event>>
        /\ \A v \in Threads : pc'[v] = "clear" => pc[v] = "clear"
    BY <1>7, <1>t DEF PeekData, RestoreSock, mainVars, TypeOK
  <2>4. /\ Undelivered' = Undelivered
        /\ \A v \in Threads : pc'[v] = "clear" /\ m_event[v] # NULL => heap'[v].status = "freed"
    <3>1. Undelivered' = Undelivered /\ n_events <= NumThreads
      BY <2>3 DEF Undelivered
    <3>2. \A v \in Threads : m_event[v] # NULL => m_event[v] = v /\ v \in Events
      BY <3>1, <1>t DEF FirstRoundInv
    <3> QED
      BY <2>2, <2>3, <3>1, <3>2 DEF FirstRoundInv
  <2> QED
    BY <2>2, <2>3, <2>4 DEF FirstRoundInv
<1>8. ASSUME NEW w \in Threads,
             CheckEvent(w) \/ SpuriousWake(w) \/ SetBusy(w) \/ LoadSock(w) \/ PeekNothing(w)
               \/ PeekAgain(w) \/ CopyEvent(w) \/ Handle(w) \/ SetIdle(w)
      PROVE  FirstRoundInv'
  BY <1>8, <1>t DEF CheckEvent, SpuriousWake, Wake, SetBusy, LoadSock, PeekNothing, PeekAgain,
     CopyEvent, Handle, SetIdle, mainVars, TypeOK, FirstRoundInv, Undelivered
<1>9. CASE UNCHANGED vars
  BY <1>9 DEF vars, mainVars, workerVars, FirstRoundInv, Undelivered
<1> QED
  BY <1>1, <1>2, <1>3, <1>4, <1>5, <1>6, <1>7, <1>8, <1>9 DEF Next, MainRun, Work

(* However early threads are recycled, set_event overwrites no st_event while *)
(* run() has not come round to a thread for the second time.                  *)
THEOREM FirstRoundIsSafe == Spec => []NoLossInFirstRound
<1>1. IInv /\ FirstRoundInv => NoLossInFirstRound
  BY DEF IInv, TypeOK, FirstRoundInv, NoLossInFirstRound, Abandoned, Events, Threads
<1>2. IInv /\ OrderInv /\ FirstRoundInv /\ [Next]_vars => FirstRoundInv'
  BY StepFirstRound
<1> QED
  BY <1>1, <1>2, InitFirstRound, Inductive, OrderInductive, PTL DEF Spec
===============================================================================
