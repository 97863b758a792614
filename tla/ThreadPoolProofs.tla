--------------------------- MODULE ThreadPoolProofs ---------------------------
(***************************************************************************)
(* Proofs about ThreadPool, for any number of threads, events and sockets. *)
(*                                                                         *)
(* The invariants of the module are not inductive.  Three facts about the  *)
(* pointers make them so: which st_event objects are allocated (HeapInv),  *)
(* that a non-NULL m_event is the only pointer to a live st_event unless   *)
(* its worker has just deleted it (PointerInv), and that the dispatching   *)
(* thread alone knows the st_event it has not handed over (MainInv).       *)
(***************************************************************************)
EXTENDS ThreadPool, SequenceTheorems, TLAPS

HeapInv == \A e \in Events : heap[e].status = "unused" <=> e > n_events

LocalInv ==
    \A w \in Threads :
        /\ pc[w] \in {"peek", "restore"} => sock[w] \in Socks
        /\ pc[w] = "handle" => fac[w].ev \in Events

PointerInv ==
    /\ \A w \in Threads : pc[w] \in Using \cup {"clear"} => m_event[w] # NULL
    /\ \A w \in Threads : m_event[w] # NULL =>
          /\ pc[w] # "clear" => heap[m_event[w]].status = "live"
          /\ pc[w] = "clear" => heap[m_event[w]].status \in {"live", "freed"}
          /\ pc[w] # "restore" => heap[m_event[w]].sock \in Socks
    /\ \A v, w \in Threads : m_event[v] = m_event[w] /\ v # w => m_event[v] = NULL

MainInv ==
    /\ main \in {"run", "idle_wait", "set"} =>
          /\ p_event = n_events
          /\ p_event \in Events
          /\ heap[p_event].status = "live"
          /\ heap[p_event].sock \in Socks
          /\ \A w \in Threads : m_event[w] # p_event
    /\ main \in {"set", "signal"} => work \in Threads

IInv == TypeOK /\ HeapInv /\ LocalInv /\ PointerInv /\ MainInv

USE PoolAssumption
-------------------------------------------------------------------------------
LEMMA InitIInv == Init => IInv
<1> SUFFICES ASSUME Init PROVE IInv
  OBVIOUS
<1> USE DEF Init, Threads, Events
<1>1. TypeOK
  BY DEF TypeOK, EventObjects, FactoryObjects, Using
<1>2. HeapInv /\ LocalInv /\ PointerInv /\ MainInv
  BY DEF HeapInv, LocalInv, PointerInv, MainInv, Using
<1> QED
  BY <1>1, <1>2 DEF IInv

LEMMA StepIInv == IInv /\ [Next]_vars => IInv'
<1> SUFFICES ASSUME IInv, [Next]_vars PROVE IInv'
  OBVIOUS
<1> USE DEF IInv, Threads, Events
<1>1. ASSUME NEW s \in Socks, Dispatch(s) PROVE IInv'
  <2> USE <1>1 DEF Dispatch, mainVars, workerVars
  <2>0. \A w \in Threads : m_event[w] # n_events + 1
    <3>1. n_events + 1 \in Events /\ heap[n_events + 1].status = "unused"
      BY DEF TypeOK, HeapInv
    <3>2. \A w \in Threads : m_event[w] # NULL => heap[m_event[w]].status # "unused"
      BY DEF PointerInv
    <3> QED
      BY <3>1, <3>2
  <2>1. TypeOK'
    <3>1. n_events + 1 \in Events
      BY DEF TypeOK
    <3>2. heap' \in [Events -> EventObjects]
      BY DEF TypeOK, EventObjects
    <3> QED
      BY <3>1, <3>2 DEF TypeOK
  <2>2. HeapInv' /\ LocalInv'
    BY DEF TypeOK, EventObjects, FactoryObjects, HeapInv, LocalInv, PointerInv, MainInv, Using
  <2>3. PointerInv'
    BY <2>0 DEF TypeOK, EventObjects, PointerInv, Using
  <2>4. MainInv'
    <3>1. n_events + 1 \in Events /\ heap'[n_events + 1] = [sock |-> s, from |-> NULL, status |-> "live"]
      BY DEF TypeOK
    <3> QED
      BY <2>0, <3>1 DEF TypeOK, MainInv
  <2> QED
    BY <2>1, <2>2, <2>3, <2>4
<1>2. CASE WaitIdle
  <2> USE <1>2 DEF WaitIdle, mainVars, workerVars
  <2>1. TypeOK'
    BY DEF TypeOK, EventObjects, FactoryObjects, Using
  <2>2. HeapInv' /\ LocalInv'
    BY DEF TypeOK, EventObjects, FactoryObjects, HeapInv, LocalInv, PointerInv, MainInv, Using
  <2>3. PointerInv'
    BY DEF TypeOK, EventObjects, HeapInv, LocalInv, PointerInv, MainInv, Using
  <2>4. MainInv'
    BY DEF TypeOK, EventObjects, HeapInv, LocalInv, PointerInv, MainInv, Using
  <2> QED
    BY <2>1, <2>2, <2>3, <2>4
<1>3. CASE WakeIdle
  <2> USE <1>3 DEF WakeIdle, mainVars, workerVars
  <2>1. TypeOK'
    BY DEF TypeOK, EventObjects, FactoryObjects, Using
  <2>2. HeapInv' /\ LocalInv'
    BY DEF TypeOK, EventObjects, FactoryObjects, HeapInv, LocalInv, PointerInv, MainInv, Using
  <2>3. PointerInv'
    BY DEF TypeOK, EventObjects, HeapInv, LocalInv, PointerInv, MainInv, Using
  <2>4. MainInv'
    BY DEF TypeOK, EventObjects, HeapInv, LocalInv, PointerInv, MainInv, Using
  <2> QED
    BY <2>1, <2>2, <2>3, <2>4
<1>4. CASE TakeIdle
  <2> USE <1>4 DEF TakeIdle, MoveToBusy, mainVars, workerVars
  <2>1. TypeOK'
    <3>1. Head(m_idle_list) \in Threads /\ Tail(m_idle_list) \in Seq(Threads)
      BY HeadTailProperties DEF TypeOK
    <3>2. Append(m_busy_list, Head(m_idle_list)) \in Seq(Threads)
      BY <3>1, AppendProperties DEF TypeOK
    <3> QED
      BY <3>1, <3>2 DEF TypeOK
  <2>2. HeapInv' /\ LocalInv'
    BY DEF TypeOK, EventObjects, FactoryObjects, HeapInv, LocalInv, PointerInv, MainInv, Using
  <2>3. PointerInv'
    BY DEF TypeOK, EventObjects, HeapInv, LocalInv, PointerInv, MainInv, Using
  <2>4. MainInv'
    BY DEF TypeOK, EventObjects, HeapInv, LocalInv, PointerInv, MainInv, Using
  <2> QED
    BY <2>1, <2>2, <2>3, <2>4
<1>5. CASE SetEvent
  <2> USE <1>5 DEF SetEvent, mainVars, workerVars
  <2>1. TypeOK'
    BY DEF TypeOK, EventObjects, FactoryObjects, Using
  <2>2. HeapInv' /\ LocalInv'
    BY DEF TypeOK, EventObjects, FactoryObjects, HeapInv, LocalInv, PointerInv, MainInv, Using
  <2>3. PointerInv'
    <3>1. /\ work \in Threads /\ p_event \in Events
          /\ m_event' = [m_event EXCEPT ![work] = p_event]
          /\ heap[p_event].status = "live" /\ heap[p_event].sock \in Socks
          /\ \A w \in Threads : m_event[w] # p_event
      BY DEF MainInv
    <3>2. \A w \in Threads : m_event'[w] = IF w = work THEN p_event ELSE m_event[w]
      BY <3>1 DEF TypeOK
    <3>3. p_event # NULL
      BY <3>1
    <3> QED
      BY <3>1, <3>2, <3>3 DEF PointerInv, Using
  <2>4. MainInv'
    BY DEF TypeOK, EventObjects, HeapInv, LocalInv, PointerInv, MainInv, Using
  <2> QED
    BY <2>1, <2>2, <2>3, <2>4
<1>6. CASE Signal
  <2> USE <1>6 DEF Signal, Wake, mainVars, workerVars
  <2>1. TypeOK'
    BY DEF TypeOK, EventObjects, FactoryObjects, Using
  <2>2. HeapInv' /\ LocalInv'
    BY DEF TypeOK, EventObjects, FactoryObjects, HeapInv, LocalInv, PointerInv, MainInv, Using
  <2>3. PointerInv'
    <3>1. \A w \in Threads : pc'[w] = pc[w] \/ (pc[w] = "wait" /\ pc'[w] = "check")
      BY DEF TypeOK, MainInv
    <3>2. UNCHANGED <<m_event, heap>>
      OBVIOUS
    <3> QED
      BY <3>1, <3>2, PointerInv DEF PointerInv, Using, Threads
  <2>4. MainInv'
    BY DEF TypeOK, EventObjects, HeapInv, LocalInv, PointerInv, MainInv, Using
  <2> QED
    BY <2>1, <2>2, <2>3, <2>4
<1>7. CASE InvokeMoveToIdle
  <2> USE <1>7 DEF InvokeMoveToIdle, MoveToIdle, mainVars, workerVars
  <2>1. TypeOK'
    <3>1. m_busy_list # <<>> => Head(m_busy_list) \in Threads /\ Tail(m_busy_list) \in Seq(Threads)
      BY HeadTailProperties DEF TypeOK
    <3>2. m_busy_list # <<>> => Append(m_idle_list, Head(m_busy_list)) \in Seq(Threads)
      BY <3>1, AppendProperties DEF TypeOK
    <3> QED
      BY <3>1, <3>2 DEF TypeOK
  <2>2. HeapInv' /\ LocalInv'
    BY DEF TypeOK, EventObjects, FactoryObjects, HeapInv, LocalInv, PointerInv, MainInv, Using
  <2>3. PointerInv'
    BY DEF TypeOK, EventObjects, HeapInv, LocalInv, PointerInv, MainInv, Using
  <2>4. MainInv'
    BY DEF TypeOK, EventObjects, HeapInv, LocalInv, PointerInv, MainInv, Using
  <2> QED
    BY <2>1, <2>2, <2>3, <2>4
<1>8. ASSUME NEW w \in Threads, CheckEvent(w) PROVE IInv'
  <2> USE <1>8 DEF CheckEvent, mainVars, workerVars
  <2>1. TypeOK'
    BY DEF TypeOK, EventObjects, FactoryObjects, Using, PointerInv
  <2>2. HeapInv' /\ LocalInv'
    BY DEF TypeOK, EventObjects, FactoryObjects, HeapInv, LocalInv, PointerInv, MainInv, Using
  <2>3. PointerInv'
    BY DEF TypeOK, EventObjects, HeapInv, LocalInv, PointerInv, MainInv, Using
  <2>4. MainInv'
    BY DEF TypeOK, EventObjects, HeapInv, LocalInv, PointerInv, MainInv, Using
  <2> QED
    BY <2>1, <2>2, <2>3, <2>4
<1>9. ASSUME NEW w \in Threads, SpuriousWake(w) PROVE IInv'
  <2> USE <1>9 DEF SpuriousWake, Wake, mainVars, workerVars
  <2>1. TypeOK'
    BY DEF TypeOK, EventObjects, FactoryObjects, Using, PointerInv
  <2>2. HeapInv' /\ LocalInv'
    BY DEF TypeOK, EventObjects, FactoryObjects, HeapInv, LocalInv, PointerInv, MainInv, Using
  <2>3. PointerInv'
    BY DEF TypeOK, EventObjects, HeapInv, LocalInv, PointerInv, MainInv, Using
  <2>4. MainInv'
    BY DEF TypeOK, EventObjects, HeapInv, LocalInv, PointerInv, MainInv, Using
  <2> QED
    BY <2>1, <2>2, <2>3, <2>4
<1>10. ASSUME NEW w \in Threads, SetBusy(w) PROVE IInv'
  <2> USE <1>10 DEF SetBusy, mainVars, workerVars
  <2>1. TypeOK'
    BY DEF TypeOK, EventObjects, FactoryObjects, Using, PointerInv
  <2>2. HeapInv' /\ LocalInv'
    BY DEF TypeOK, EventObjects, FactoryObjects, HeapInv, LocalInv, PointerInv, MainInv, Using
  <2>3. PointerInv'
    BY DEF TypeOK, EventObjects, HeapInv, LocalInv, PointerInv, MainInv, Using
  <2>4. MainInv'
    BY DEF TypeOK, EventObjects, HeapInv, LocalInv, PointerInv, MainInv, Using
  <2> QED
    BY <2>1, <2>2, <2>3, <2>4
<1>11. ASSUME NEW w \in Threads, LoadSock(w) PROVE IInv'
  <2> USE <1>11 DEF LoadSock, mainVars, workerVars
  <2>1. TypeOK'
    BY DEF TypeOK, EventObjects, FactoryObjects, Using, PointerInv
  <2>2. HeapInv' /\ LocalInv'
    BY DEF TypeOK, EventObjects, FactoryObjects, HeapInv, LocalInv, PointerInv, MainInv, Using
  <2>3. PointerInv'
    BY DEF TypeOK, EventObjects, HeapInv, LocalInv, PointerInv, MainInv, Using
  <2>4. MainInv'
    BY DEF TypeOK, EventObjects, HeapInv, LocalInv, PointerInv, MainInv, Using
  <2> QED
    BY <2>1, <2>2, <2>3, <2>4
<1>12. ASSUME NEW w \in Threads, PeekData(w) PROVE IInv'
  <2> USE <1>12 DEF PeekData, mainVars, workerVars
  <2>0. /\ m_event[w] \in Events
        /\ heap[m_event[w]] \in EventObjects
        /\ pc[w] # "restore" => heap[m_event[w]].sock \in Socks
    BY DEF TypeOK, PointerInv, Using
  <2>1. TypeOK'
    <3>1. heap' \in [Events -> EventObjects]
      BY <2>0 DEF TypeOK, EventObjects, LocalInv
    <3>2. pc' \in [Threads -> Using \cup {"check", "wait", "clear", "idle"}]
      BY DEF TypeOK, Using
    <3> QED
      BY <3>1, <3>2 DEF TypeOK
  <2>2. HeapInv' /\ LocalInv'
    BY DEF TypeOK, EventObjects, FactoryObjects, HeapInv, LocalInv, PointerInv, MainInv, Using
  <2>3. PointerInv'
    BY DEF TypeOK, EventObjects, HeapInv, LocalInv, PointerInv, MainInv, Using
  <2>4. MainInv'
    BY DEF TypeOK, EventObjects, HeapInv, LocalInv, PointerInv, MainInv, Using
  <2> QED
    BY <2>1, <2>2, <2>3, <2>4
<1>13. ASSUME NEW w \in Threads, PeekNothing(w) PROVE IInv'
  <2> USE <1>13 DEF PeekNothing, mainVars, workerVars
  <2>1. TypeOK'
    BY DEF TypeOK, EventObjects, FactoryObjects, Using, PointerInv
  <2>2. HeapInv' /\ LocalInv'
    BY DEF TypeOK, EventObjects, FactoryObjects, HeapInv, LocalInv, PointerInv, MainInv, Using
  <2>3. PointerInv'
    BY DEF TypeOK, EventObjects, HeapInv, LocalInv, PointerInv, MainInv, Using
  <2>4. MainInv'
    BY DEF TypeOK, EventObjects, HeapInv, LocalInv, PointerInv, MainInv, Using
  <2> QED
    BY <2>1, <2>2, <2>3, <2>4
<1>14. ASSUME NEW w \in Threads, PeekAgain(w) PROVE IInv'
  <2> USE <1>14 DEF PeekAgain, mainVars, workerVars
  <2>1. TypeOK'
    BY DEF TypeOK, EventObjects, FactoryObjects, Using, PointerInv
  <2>2. HeapInv' /\ LocalInv'
    BY DEF TypeOK, EventObjects, FactoryObjects, HeapInv, LocalInv, PointerInv, MainInv, Using
  <2>3. PointerInv'
    BY DEF TypeOK, EventObjects, HeapInv, LocalInv, PointerInv, MainInv, Using
  <2>4. MainInv'
    BY DEF TypeOK, EventObjects, HeapInv, LocalInv, PointerInv, MainInv, Using
  <2> QED
    BY <2>1, <2>2, <2>3, <2>4
<1>15. ASSUME NEW w \in Threads, RestoreSock(w) PROVE IInv'
  <2> USE <1>15 DEF RestoreSock, mainVars, workerVars
  <2>0. /\ m_event[w] \in Events
        /\ heap[m_event[w]] \in EventObjects
        /\ pc[w] # "restore" => heap[m_event[w]].sock \in Socks
    BY DEF TypeOK, PointerInv, Using
  <2>1. TypeOK'
    <3>1. heap' \in [Events -> EventObjects]
      BY <2>0 DEF TypeOK, EventObjects, LocalInv
    <3>2. pc' \in [Threads -> Using \cup {"check", "wait", "clear", "idle"}]
      BY DEF TypeOK, Using
    <3> QED
      BY <3>1, <3>2 DEF TypeOK
  <2>2. HeapInv' /\ LocalInv'
    BY DEF TypeOK, EventObjects, FactoryObjects, HeapInv, LocalInv, PointerInv, MainInv, Using
  <2>3. PointerInv'
    BY DEF TypeOK, EventObjects, HeapInv, LocalInv, PointerInv, MainInv, Using
  <2>4. MainInv'
    BY DEF TypeOK, EventObjects, HeapInv, LocalInv, PointerInv, MainInv, Using
  <2> QED
    BY <2>1, <2>2, <2>3, <2>4
<1>16. ASSUME NEW w \in Threads, CopyEvent(w) PROVE IInv'
  <2> USE <1>16 DEF CopyEvent, mainVars, workerVars
  <2>1. TypeOK'
    BY DEF TypeOK, EventObjects, FactoryObjects, Using, PointerInv
  <2>2. HeapInv' /\ LocalInv'
    BY DEF TypeOK, EventObjects, FactoryObjects, HeapInv, LocalInv, PointerInv, MainInv, Using
  <2>3. PointerInv'
    BY DEF TypeOK, EventObjects, HeapInv, LocalInv, PointerInv, MainInv, Using
  <2>4. MainInv'
    BY DEF TypeOK, EventObjects, HeapInv, LocalInv, PointerInv, MainInv, Using
  <2> QED
    BY <2>1, <2>2, <2>3, <2>4
<1>17. ASSUME NEW w \in Threads, Handle(w) PROVE IInv'
  <2> USE <1>17 DEF Handle, mainVars, workerVars
  <2>1. TypeOK'
    BY DEF TypeOK, LocalInv, Using
  <2>2. HeapInv' /\ LocalInv'
    BY DEF TypeOK, EventObjects, FactoryObjects, HeapInv, LocalInv, PointerInv, MainInv, Using
  <2>3. PointerInv'
    BY DEF TypeOK, EventObjects, HeapInv, LocalInv, PointerInv, MainInv, Using
  <2>4. MainInv'
    BY DEF TypeOK, EventObjects, HeapInv, LocalInv, PointerInv, MainInv, Using
  <2> QED
    BY <2>1, <2>2, <2>3, <2>4
<1>18. ASSUME NEW w \in Threads, FreeEvent(w) PROVE IInv'
  <2> USE <1>18 DEF FreeEvent, mainVars, workerVars
  <2>0. /\ m_event[w] \in Events
        /\ heap[m_event[w]] \in EventObjects
        /\ pc[w] # "restore" => heap[m_event[w]].sock \in Socks
    BY DEF TypeOK, PointerInv, Using
  <2>1. TypeOK'
    <3>1. heap' \in [Events -> EventObjects]
      BY <2>0 DEF TypeOK, EventObjects, LocalInv
    <3>2. pc' \in [Threads -> Using \cup {"check", "wait", "clear", "idle"}]
      BY DEF TypeOK, Using
    <3> QED
      BY <3>1, <3>2 DEF TypeOK
  <2>2. HeapInv' /\ LocalInv'
    <3>1. HeapInv'
      BY DEF TypeOK, EventObjects, HeapInv, PointerInv, Using
    <3>2. LocalInv'
      BY DEF TypeOK, LocalInv, FactoryObjects
    <3> QED
      BY <3>1, <3>2
  <2>3. PointerInv'
    BY DEF TypeOK, EventObjects, HeapInv, LocalInv, PointerInv, MainInv, Using
  <2>4. MainInv'
    BY DEF TypeOK, EventObjects, HeapInv, LocalInv, PointerInv, MainInv, Using
  <2> QED
    BY <2>1, <2>2, <2>3, <2>4
<1>19. ASSUME NEW w \in Threads, ClearEvent(w) PROVE IInv'
  <2> USE <1>19 DEF ClearEvent, mainVars, workerVars
  <2>1. TypeOK'
    BY DEF TypeOK, EventObjects, FactoryObjects, Using, PointerInv
  <2>2. HeapInv' /\ LocalInv'
    BY DEF TypeOK, EventObjects, FactoryObjects, HeapInv, LocalInv, PointerInv, MainInv, Using
  <2>3. PointerInv'
    BY DEF TypeOK, EventObjects, HeapInv, LocalInv, PointerInv, MainInv, Using
  <2>4. MainInv'
    BY DEF TypeOK, EventObjects, HeapInv, LocalInv, PointerInv, MainInv, Using
  <2> QED
    BY <2>1, <2>2, <2>3, <2>4
<1>20. ASSUME NEW w \in Threads, SetIdle(w) PROVE IInv'
  <2> USE <1>20 DEF SetIdle, mainVars, workerVars
  <2>1. TypeOK'
    BY DEF TypeOK, EventObjects, FactoryObjects, Using, PointerInv
  <2>2. HeapInv' /\ LocalInv'
    BY DEF TypeOK, EventObjects, FactoryObjects, HeapInv, LocalInv, PointerInv, MainInv, Using
  <2>3. PointerInv'
    BY DEF TypeOK, EventObjects, HeapInv, LocalInv, PointerInv, MainInv, Using
  <2>4. MainInv'
    BY DEF TypeOK, EventObjects, HeapInv, LocalInv, PointerInv, MainInv, Using
  <2> QED
    BY <2>1, <2>2, <2>3, <2>4
<1>21. CASE UNCHANGED vars
  BY <1>21 DEF vars, mainVars, workerVars, TypeOK, HeapInv, LocalInv, PointerInv, MainInv, Using, EventObjects, FactoryObjects
<1> QED
  BY <1>1, <1>2, <1>3, <1>4, <1>5, <1>6, <1>7, <1>8, <1>9, <1>10, <1>11, <1>12, <1>13, <1>14, <1>15, <1>16, <1>17, <1>18, <1>19, <1>20, <1>21 DEF Next, MainRun, Work

(* IInv is inductive: the three facts below are cited by every theorem. *)
LEMMA Inductive == Spec => []IInv
BY InitIInv, StepIInv, PTL DEF Spec
-------------------------------------------------------------------------------
(* Every variable has its type: in particular a CFactory never receives a   *)
(* descriptor number of the sender, whatever set_event overwrote.          *)
THEOREM TypeCorrect == Spec => []TypeOK
<1>1. IInv => TypeOK
  BY DEF IInv
<1> QED
  BY <1>1, Inductive, PTL

LEMMA PointersSafe == IInv => NoDanglingEvent
<1> SUFFICES ASSUME IInv PROVE NoDanglingEvent
  OBVIOUS
<1> USE DEF IInv, Threads, Events
<1>1. \A w \in Threads : pc[w] \in Using =>
          m_event[w] # NULL /\ heap[m_event[w]].status = "live"
  BY DEF PointerInv, Using
<1>2. \A w \in Threads : m_event[w] \notin Undelivered
  BY DEF MainInv, Undelivered
<1> QED
  BY <1>1, <1>2 DEF NoDanglingEvent, PointerInv

(* No worker reads, writes or deletes an st_event that is not allocated, and  *)
(* none is held twice, although run() hands st_events to recycled threads.   *)
THEOREM PointerSafety == Spec => []NoDanglingEvent
BY Inductive, PointersSafe, PTL
===============================================================================
