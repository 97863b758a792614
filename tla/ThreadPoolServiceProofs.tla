----------------------- MODULE ThreadPoolServiceProofs -----------------------
(***************************************************************************)
(* What CThreadPool does with the work it is given: it implements          *)
(* JobService (ServiceInv), and it is exact as long as set_event           *)
(* overwrites no pending st_event (ExactInv).                              *)
(***************************************************************************)
EXTENDS ThreadPoolProofs

\* The st_events whose copy a CFactory has received.
Executed == handled \cup {fac[w].ev : w \in {v \in Threads : pc[v] = "handle"}}

ServiceInv ==
    /\ \A e \in handled : e <= n_events
    /\ \A w \in Threads : pc[w] = "handle" =>
          fac[w].ev \notin handled /\ fac[w].ev <= n_events
    /\ \A v, w \in Threads :
          pc[v] = "handle" /\ pc[w] = "handle" /\ fac[v].ev = fac[w].ev => v = w
    /\ \A w \in Threads : m_event[w] # NULL /\ m_event[w] \in Executed =>
          pc[w] \in {"handle", "free", "clear"} /\ m_event[w] = fac[w].ev
    /\ Undelivered \cap Executed = {}

\* The st_event a worker holds carries no foreign header before it is peeked
\* at, and the header of its own socket afterwards.
Clean(w) ==
    /\ m_event[w] # NULL /\ pc[w] \in {"check", "wait", "busy", "load", "peek", "idle"}
          => heap[m_event[w]].from = NULL
    /\ pc[w] = "peek" => sock[w] = heap[m_event[w]].sock
    /\ pc[w] = "restore" => heap[m_event[w]].from \in {NULL, sock[w]}
    /\ pc[w] = "copy" => heap[m_event[w]].from \in {NULL, heap[m_event[w]].sock}
    /\ pc[w] = "handle" => fac[w].ev = m_event[w] /\ fac[w].from \in {NULL, fac[w].sock}
    /\ pc[w] = "free" => m_event[w] \in handled

Exact ==
    /\ \A w \in Threads : Clean(w)
    /\ \A e \in Events : heap[e].status = "freed" => e \in handled
    /\ \A e \in Undelivered : heap[e].from = NULL

ExactInv == Abandoned = {} => Exact

USE PoolAssumption
-------------------------------------------------------------------------------
LEMMA AbandonedGrows == IInv /\ [Next]_vars => Abandoned \subseteq Abandoned'
<1> SUFFICES ASSUME IInv, [Next]_vars, NEW e \in Abandoned PROVE e \in Abandoned'
  OBVIOUS
<1> USE DEF Threads, Events
<1>t. /\ TypeOK /\ HeapInv /\ PointerInv /\ MainInv /\ n_events \in Nat
      /\ heap \in [Events -> EventObjects] /\ m_event \in [Threads -> Events \cup {NULL}]
  BY DEF IInv, TypeOK
<1>e. /\ e \in 1 .. n_events /\ e \in Events /\ heap[e].status = "live" /\ e \notin Undelivered
      /\ \A w \in Threads : m_event[w] # e
  BY <1>t DEF Abandoned, TypeOK
<1>s. ASSUME heap'[e].status = "live", n_events' >= n_events, n_events' \in Nat,
             e \notin Undelivered', \A w \in Threads : m_event'[w] # e
      PROVE  e \in Abandoned'
  BY <1>s, <1>e, <1>t DEF Abandoned
<1>1. ASSUME NEW s \in Socks, Dispatch(s) PROVE e \in Abandoned'
  BY <1>1, <1>s, <1>e, <1>t DEF Dispatch, Undelivered, TypeOK
<1>2. CASE SetEvent
  <2>1. p_event # e
    BY <1>2, <1>e DEF SetEvent, Undelivered
  <2> QED
    BY <1>2, <2>1, <1>s, <1>e, <1>t DEF SetEvent, workerVars, Undelivered, TypeOK
<1>3. CASE WaitIdle \/ WakeIdle \/ TakeIdle \/ Signal \/ InvokeMoveToIdle
  BY <1>3, <1>s, <1>e, <1>t
     DEF WaitIdle, WakeIdle, TakeIdle, Signal, InvokeMoveToIdle, Undelivered, TypeOK
<1>4. ASSUME NEW w \in Threads, PeekData(w) \/ RestoreSock(w) \/ FreeEvent(w) \/ ClearEvent(w)
      PROVE  e \in Abandoned'
  BY <1>4, <1>s, <1>e, <1>t
     DEF PeekData, RestoreSock, FreeEvent, ClearEvent, mainVars, Undelivered, EventObjects, PointerInv
<1>5. ASSUME NEW w \in Threads,
             CheckEvent(w) \/ SpuriousWake(w) \/ SetBusy(w) \/ LoadSock(w) \/ PeekNothing(w)
               \/ PeekAgain(w) \/ CopyEvent(w) \/ Handle(w) \/ SetIdle(w)
      PROVE  e \in Abandoned'
  BY <1>5, <1>s, <1>e, <1>t
     DEF CheckEvent, SpuriousWake, SetBusy, LoadSock, PeekNothing, PeekAgain,
         CopyEvent, Handle, SetIdle, mainVars, Undelivered
<1>6. CASE UNCHANGED vars
  BY <1>6, <1>s, <1>e, <1>t DEF vars, mainVars, Undelivered
<1> QED
  BY <1>1, <1>2, <1>3, <1>4, <1>5, <1>6 DEF Next, MainRun, Work
-------------------------------------------------------------------------------
LEMMA InitExact == Init => ExactInv
BY DEF Init, ExactInv, Exact, Clean, Undelivered, Threads, Events

LEMMA StepExact == IInv /\ ExactInv /\ [Next]_vars => ExactInv'
<1> SUFFICES ASSUME IInv, ExactInv, [Next]_vars, Abandoned' = {} PROVE Exact'
  BY DEF ExactInv
<1> USE DEF Threads, Events
<1>t. /\ TypeOK /\ HeapInv /\ LocalInv /\ PointerInv /\ MainInv
      /\ n_events \in Nat /\ heap \in [Events -> EventObjects]
      /\ m_event \in [Threads -> Events \cup {NULL}]
      /\ pc \in [Threads -> Using \cup {"check", "wait", "clear", "idle"}]
      /\ sock \in [Threads -> Socks \cup {NULL}]
      /\ fac \in [Threads -> FactoryObjects]
  BY DEF IInv, TypeOK
<1>x. Exact
  BY AbandonedGrows DEF ExactInv
<1>1. ASSUME NEW s \in Socks, Dispatch(s) PROVE Exact'
  <2>1. n_events + 1 \in Events /\ heap[n_events + 1].status = "unused"
    BY <1>1, <1>t DEF Dispatch, HeapInv
  <2>2. \A w \in Threads : m_event[w] # n_events + 1
    BY <2>1, <1>t DEF PointerInv
  <2>3. \A e \in Events : heap'[e] = IF e = n_events + 1
                            THEN [sock |-> s, from |-> NULL, status |-> "live"] ELSE heap[e]
    BY <1>1, <1>t DEF Dispatch
  <2>4. \A w \in Threads : Clean(w)'
    BY <1>1, <1>t, <1>x, <2>2, <2>3 DEF Dispatch, workerVars, Exact, Clean, PointerInv, Using
  <2> QED
    BY <1>1, <1>t, <1>x, <2>1, <2>3, <2>4 DEF Dispatch, Exact, Undelivered
<1>2. CASE SetEvent
  <2>1. /\ work \in Threads /\ p_event \in Events /\ p_event \in Undelivered
        /\ heap[p_event].status = "live" /\ \A w \in Threads : m_event[w] # p_event
        /\ \A w \in Threads : m_event'[w] = IF w = work THEN p_event ELSE m_event[w]
    BY <1>2, <1>t DEF SetEvent, MainInv, Undelivered
  <2>2. m_event[work] = NULL \/ pc[work] = "clear"
    <3>1. SUFFICES ASSUME m_event[work] # NULL, pc[work] # "clear" PROVE FALSE
      OBVIOUS
    <3>2. m_event[work] \in Events /\ heap[m_event[work]].status = "live"
      BY <3>1, <2>1, <1>t DEF PointerInv
    <3>3. m_event[work] \in 1 .. n_events
      BY <3>2, <1>t DEF HeapInv
    <3>4. \A w \in Threads : m_event'[w] # m_event[work]
      BY <2>1, <3>1, <1>t DEF PointerInv
    <3>5. m_event[work] \in Abandoned'
      BY <1>2, <3>2, <3>3, <3>4 DEF SetEvent, Abandoned, Undelivered
    <3> QED
      BY <3>5
  <2>3. pc[work] \in {"check", "wait", "clear", "idle"}
    BY <2>1, <2>2, <1>t DEF PointerInv
  <2>4. heap[p_event].from = NULL
    BY <2>1, <1>x DEF Exact
  <2> QED
    BY <1>2, <1>t, <1>x, <2>1, <2>3, <2>4 DEF SetEvent, workerVars, Exact, Clean, Undelivered
<1>3. CASE WaitIdle \/ WakeIdle \/ TakeIdle \/ InvokeMoveToIdle
  BY <1>3, <1>t, <1>x
     DEF WaitIdle, WakeIdle, TakeIdle, InvokeMoveToIdle, workerVars, Exact, Clean, Undelivered
<1>4. CASE Signal
  <2>1. \A w \in Threads : pc'[w] = pc[w] \/ (pc[w] = "wait" /\ pc'[w] = "check")
    BY <1>4, <1>t DEF Signal, Wake, MainInv
  <2>2. UNCHANGED <<heap, m_event, sock, fac, handled>> /\ Undelivered' = {}
    BY <1>4 DEF Signal, Undelivered
  <2> QED
    BY <1>x, <2>1, <2>2 DEF Exact, Clean
<1>5. ASSUME NEW w \in Threads, PeekData(w) PROVE Exact'
  <2>1. /\ m_event[w] \in Events /\ heap[m_event[w]].sock = sock[w]
        /\ \A e \in Events : e # m_event[w] => heap'[e] = heap[e]
        /\ heap'[m_event[w]].from = sock[w]
        /\ heap'[m_event[w]].status = heap[m_event[w]].status
        /\ m_event[w] \notin Undelivered
    BY <1>5, <1>t, <1>x DEF PeekData, PointerInv, MainInv, Undelivered, EventObjects, Using, Exact, Clean
  <2>2. \A v \in Threads : Clean(v)'
    BY <1>5, <1>t, <1>x, <2>1 DEF PeekData, Exact, Clean, PointerInv, Using
  <2> QED
    BY <1>5, <1>x, <2>1, <2>2 DEF PeekData, mainVars, Exact, Undelivered
<1>6. ASSUME NEW w \in Threads, RestoreSock(w) PROVE Exact'
  <2>1. /\ m_event[w] \in Events
        /\ \A e \in Events : e # m_event[w] => heap'[e] = heap[e]
        /\ heap'[m_event[w]].from = heap[m_event[w]].from
        /\ heap'[m_event[w]].sock = sock[w]
        /\ heap'[m_event[w]].status = heap[m_event[w]].status
        /\ m_event[w] \notin Undelivered
    BY <1>6, <1>t DEF RestoreSock, PointerInv, MainInv, Undelivered, EventObjects, Using
  <2>2. \A v \in Threads : Clean(v)'
    BY <1>6, <1>t, <1>x, <2>1 DEF RestoreSock, Exact, Clean, PointerInv, Using
  <2> QED
    BY <1>6, <1>x, <2>1, <2>2 DEF RestoreSock, mainVars, Exact, Undelivered
<1>7. ASSUME NEW w \in Threads, FreeEvent(w) PROVE Exact'
  <2>1. /\ m_event[w] \in Events /\ m_event[w] \in handled
        /\ \A e \in Events : heap'[e].from = heap[e].from /\ heap'[e].sock = heap[e].sock
        /\ \A e \in Events : e # m_event[w] => heap'[e] = heap[e]
    BY <1>7, <1>t, <1>x DEF FreeEvent, PointerInv, EventObjects, Using, Exact, Clean
  <2>2. \A v \in Threads : Clean(v)'
    BY <1>7, <1>t, <1>x, <2>1 DEF FreeEvent, Exact, Clean
  <2> QED
    BY <1>7, <1>x, <2>1, <2>2 DEF FreeEvent, mainVars, Exact, Undelivered
<1>8. ASSUME NEW w \in Threads, CopyEvent(w) PROVE Exact'
  <2>1. /\ fac'[w] = [ev |-> m_event[w], sock |-> heap[m_event[w]].sock, from |-> heap[m_event[w]].from]
        /\ pc[w] = "copy" /\ pc'[w] = "handle"
        /\ \A v \in Threads : v # w => fac'[v] = fac[v] /\ pc'[v] = pc[v]
        /\ UNCHANGED <<m_event, heap, sock, handled>> /\ Undelivered' = Undelivered
    BY <1>8, <1>t DEF CopyEvent, mainVars, Undelivered
  <2>2. \A v \in Threads : Clean(v)'
    BY <1>x, <2>1 DEF Exact, Clean
  <2> QED
    BY <1>x, <2>1, <2>2 DEF Exact
<1>9. ASSUME NEW w \in Threads, Handle(w) PROVE Exact'
  BY <1>9, <1>t, <1>x DEF Handle, mainVars, Exact, Clean, Undelivered, Using
<1>10. ASSUME NEW w \in Threads, ClearEvent(w) PROVE Exact'
  BY <1>10, <1>t, <1>x DEF ClearEvent, mainVars, Exact, Clean, Undelivered, Using
<1>11. ASSUME NEW w \in Threads, LoadSock(w) PROVE Exact'
  BY <1>11, <1>t, <1>x DEF LoadSock, mainVars, Exact, Clean, Undelivered, PointerInv, Using
<1>12. ASSUME NEW w \in Threads,
              CheckEvent(w) \/ SpuriousWake(w) \/ SetBusy(w) \/ PeekNothing(w)
                \/ PeekAgain(w) \/ SetIdle(w)
      PROVE  Exact'
  BY <1>12, <1>t, <1>x
     DEF CheckEvent, SpuriousWake, Wake, SetBusy, PeekNothing, PeekAgain, SetIdle,
         mainVars, Exact, Clean, Undelivered, PointerInv, Using
<1>13. CASE UNCHANGED vars
  BY <1>13, <1>x DEF vars, mainVars, workerVars, Exact, Clean, Undelivered
<1> QED
  BY <1>1, <1>2, <1>3, <1>4, <1>5, <1>6, <1>7, <1>8, <1>9, <1>10, <1>11, <1>12, <1>13
     DEF Next, MainRun, Work

(* As long as set_event overwrote no pending st_event, no socket is handled   *)
(* with another's header and no st_event is deleted unhandled: overwriting is *)
(* the only way the pool goes wrong.                                          *)
THEOREM ExactUnlessLost == Spec => []ExactWithoutLoss
<1>1. ExactInv => ExactWithoutLoss
  BY DEF ExactInv, Exact, Clean, ExactWithoutLoss
<1>2. IInv /\ ExactInv /\ [Next]_vars => ExactInv'
  BY StepExact
<1> QED
  BY <1>1, <1>2, InitExact, Inductive, PTL DEF Spec
-------------------------------------------------------------------------------
LEMMA InitService == Init => ServiceInv
BY DEF Init, ServiceInv, Executed, Undelivered, Threads, Events

LEMMA StepService == IInv /\ ServiceInv /\ [Next]_vars => ServiceInv'
<1> SUFFICES ASSUME IInv, ServiceInv, [Next]_vars PROVE ServiceInv'
  OBVIOUS
<1> USE DEF Threads, Events
<1>t. /\ TypeOK /\ HeapInv /\ LocalInv /\ PointerInv /\ MainInv
      /\ n_events \in Nat /\ heap \in [Events -> EventObjects] /\ handled \subseteq Events
      /\ m_event \in [Threads -> Events \cup {NULL}]
      /\ pc \in [Threads -> Using \cup {"check", "wait", "clear", "idle"}]
      /\ fac \in [Threads -> FactoryObjects]
  BY DEF IInv, TypeOK
<1>e. \A e \in Executed : e \in Events /\ e <= n_events
  BY <1>t DEF ServiceInv, Executed, LocalInv
(* Steps of the dispatching thread move no worker into or out of "handle". *)
<1>m. ASSUME UNCHANGED <<handled, fac>>, n_events' \in {n_events, n_events + 1},
             \A w \in Threads : (pc'[w] = "handle") <=> (pc[w] = "handle"),
             \A w \in Threads : m_event'[w] # NULL /\ m_event'[w] \in Executed =>
                   pc'[w] \in {"handle", "free", "clear"} /\ m_event'[w] = fac[w].ev,
             Undelivered' \cap Executed = {}
      PROVE  ServiceInv'
  <2>1. Executed' = Executed
    BY <1>m DEF Executed
  <2> QED
    BY <1>m, <1>t, <2>1 DEF ServiceInv, LocalInv
<1>1. ASSUME NEW s \in Socks, Dispatch(s) PROVE ServiceInv'
  <2>1. Undelivered' \subseteq {n_events + 1}
    BY <1>1 DEF Dispatch, Undelivered
  <2>2. n_events + 1 \notin Executed
    BY <1>e, <1>t
  <2> QED
    BY <1>1, <1>m, <1>t, <2>1, <2>2 DEF Dispatch, workerVars, ServiceInv
<1>2. CASE SetEvent
  <2>1. /\ work \in Threads /\ p_event \in Undelivered
        /\ \A w \in Threads : m_event'[w] = IF w = work THEN p_event ELSE m_event[w]
    BY <1>2, <1>t DEF SetEvent, MainInv, Undelivered
  <2> QED
    BY <1>2, <1>m, <1>t, <2>1 DEF SetEvent, workerVars, ServiceInv, Undelivered
<1>3. CASE WaitIdle \/ WakeIdle \/ TakeIdle \/ InvokeMoveToIdle
  BY <1>3, <1>m, <1>t
     DEF WaitIdle, WakeIdle, TakeIdle, InvokeMoveToIdle, workerVars, ServiceInv, Undelivered
<1>4. CASE Signal
  <2>1. \A w \in Threads : pc'[w] = pc[w] \/ (pc[w] = "wait" /\ pc'[w] = "check")
    BY <1>4, <1>t DEF Signal, Wake, MainInv
  <2> QED
    BY <1>4, <1>m, <1>t, <2>1 DEF Signal, ServiceInv, Undelivered
<1>5. ASSUME NEW w \in Threads, CopyEvent(w) PROVE ServiceInv'
  <2>1. /\ pc[w] = "copy" /\ pc'[w] = "handle" /\ fac'[w].ev = m_event[w]
        /\ \A v \in Threads : v # w => fac'[v] = fac[v] /\ pc'[v] = pc[v]
        /\ UNCHANGED <<m_event, handled, n_events>> /\ Undelivered' = Undelivered
    BY <1>5, <1>t DEF CopyEvent, mainVars, Undelivered
  <2>2. /\ m_event[w] \in Events /\ m_event[w] <= n_events /\ m_event[w] \notin Executed
        /\ m_event[w] \notin Undelivered
        /\ \A v \in Threads : v # w => m_event[v] # m_event[w]
    <3>1. m_event[w] # NULL /\ m_event[w] \in Events
      BY <2>1, <1>t DEF PointerInv, Using
    <3>2. heap[m_event[w]].status = "live"
      BY <2>1, <3>1, <1>t DEF PointerInv
    <3>3. m_event[w] <= n_events
      <4>1. ~ (m_event[w] > n_events)
        BY <3>1, <3>2, <1>t DEF HeapInv
      <4> QED
        BY <3>1, <4>1, <1>t
    <3>4. m_event[w] \notin Executed
      BY <2>1, <3>1 DEF ServiceInv
    <3>5. m_event[w] \notin Undelivered
      BY <3>1, <1>t DEF MainInv, Undelivered
    <3>6. \A v \in Threads : v # w => m_event[v] # m_event[w]
      BY <3>1, <1>t DEF PointerInv
    <3> QED
      BY <3>1, <3>3, <3>4, <3>5, <3>6
  <2>3. Executed' = Executed \cup {m_event[w]}
    BY <2>1 DEF Executed
  <2>4. \A v \in Threads : pc[v] = "handle" => fac[v].ev \in Executed
    BY DEF Executed
  <2>5. \A v \in Threads : pc'[v] = "handle" => fac'[v].ev \notin handled' /\ fac'[v].ev <= n_events'
    BY <2>1, <2>2 DEF ServiceInv, Executed
  <2>6. \A v, u \in Threads :
            pc'[v] = "handle" /\ pc'[u] = "handle" /\ fac'[v].ev = fac'[u].ev => v = u
    BY <2>1, <2>2, <2>4 DEF ServiceInv
  <2>7. \A v \in Threads : m_event'[v] # NULL /\ m_event'[v] \in Executed' =>
            pc'[v] \in {"handle", "free", "clear"} /\ m_event'[v] = fac'[v].ev
    BY <2>1, <2>2, <2>3 DEF ServiceInv
  <2>8. Undelivered' \cap Executed' = {}
    BY <2>1, <2>2, <2>3 DEF ServiceInv
  <2> QED
    BY <2>1, <2>5, <2>6, <2>7, <2>8 DEF ServiceInv
<1>6. ASSUME NEW w \in Threads, Handle(w) PROVE ServiceInv'
  <2>1. /\ pc[w] = "handle" /\ pc'[w] = "free" /\ handled' = handled \cup {fac[w].ev}
        /\ \A v \in Threads : v # w => pc'[v] = pc[v]
        /\ UNCHANGED <<m_event, fac, n_events>> /\ Undelivered' = Undelivered
    BY <1>6, <1>t DEF Handle, mainVars, Undelivered
  <2>2. Executed' = Executed
    BY <2>1 DEF Executed
  <2>3. fac[w].ev <= n_events
    BY <2>1 DEF ServiceInv
  <2>4. \A v \in Threads : pc'[v] = "handle" => v # w /\ pc[v] = "handle" /\ fac[v].ev # fac[w].ev
    BY <2>1 DEF ServiceInv
  <2>5. \A v \in Threads : m_event'[v] # NULL /\ m_event'[v] \in Executed' =>
            pc'[v] \in {"handle", "free", "clear"} /\ m_event'[v] = fac'[v].ev
    BY <2>1, <2>2 DEF ServiceInv
  <2>6. \A e \in handled' : e <= n_events'
    BY <2>1, <2>3 DEF ServiceInv
  <2>7. \A v \in Threads : pc'[v] = "handle" =>
            fac'[v].ev \notin handled' /\ fac'[v].ev <= n_events'
    BY <2>1, <2>4 DEF ServiceInv
  <2>8. \A v, u \in Threads :
            pc'[v] = "handle" /\ pc'[u] = "handle" /\ fac'[v].ev = fac'[u].ev => v = u
    BY <2>1, <2>4 DEF ServiceInv
  <2>9. Undelivered' \cap Executed' = {}
    BY <2>1, <2>2 DEF ServiceInv
  <2> QED
    BY <2>5, <2>6, <2>7, <2>8, <2>9 DEF ServiceInv
<1>7. ASSUME NEW w \in Threads, FreeEvent(w) \/ ClearEvent(w) \/ SetIdle(w) PROVE ServiceInv'
  <2>1. UNCHANGED <<handled, fac, n_events>> /\ Undelivered' = Undelivered
    BY <1>7 DEF FreeEvent, ClearEvent, SetIdle, mainVars, Undelivered
  <2>2. /\ \A v \in Threads : v # w => pc'[v] = pc[v] /\ m_event'[v] = m_event[v]
        /\ <<pc[w], pc'[w]>> \in {<<"free", "clear">>, <<"clear", "idle">>, <<"idle", "check">>}
        /\ m_event'[w] = IF pc[w] = "clear" THEN NULL ELSE m_event[w]
    BY <1>7, <1>t DEF FreeEvent, ClearEvent, SetIdle
  <2> QED
    BY <1>m, <1>t, <2>1, <2>2 DEF ServiceInv
<1>8. ASSUME NEW w \in Threads,
             CheckEvent(w) \/ SpuriousWake(w) \/ SetBusy(w) \/ LoadSock(w) \/ PeekData(w)
               \/ PeekNothing(w) \/ PeekAgain(w) \/ RestoreSock(w)
      PROVE  ServiceInv'
  BY <1>8, <1>m, <1>t
     DEF CheckEvent, SpuriousWake, Wake, SetBusy, LoadSock, PeekData, PeekNothing, PeekAgain,
         RestoreSock, mainVars, Undelivered, ServiceInv
<1>9. CASE UNCHANGED vars
  BY <1>9, <1>m DEF vars, mainVars, workerVars, Undelivered, ServiceInv
<1> QED
  BY <1>1, <1>2, <1>3, <1>4, <1>5, <1>6, <1>7, <1>8, <1>9 DEF Next, MainRun, Work
-------------------------------------------------------------------------------
LEMMA InitRefines == Init => Service!Init
<1> SUFFICES ASSUME Init PROVE Service!Init
  OBVIOUS
<1>1. \A w \in Threads : Job(w) = NULL
  BY DEF Init, Job
<1>2. 1 .. n_events = {} /\ handled = {}
  BY DEF Init
<1> QED
  BY <1>1, <1>2 DEF Service!Init, Queued

LEMMA StepRefines == IInv /\ ServiceInv /\ [Next]_vars => [Service!Next]_(Service!vars)
<1> SUFFICES ASSUME IInv, ServiceInv, [Next]_vars PROVE [Service!Next]_(Service!vars)
  OBVIOUS
<1> USE DEF Threads, Events
<1>t. /\ TypeOK /\ HeapInv /\ LocalInv /\ PointerInv
      /\ n_events \in Nat /\ heap \in [Events -> EventObjects] /\ handled \subseteq Events
      /\ m_event \in [Threads -> Events \cup {NULL}]
      /\ pc \in [Threads -> Using \cup {"check", "wait", "clear", "idle"}]
      /\ fac \in [Threads -> FactoryObjects]
  BY DEF IInv, TypeOK
<1>j. \A w \in Threads : Job(w) # NULL <=> pc[w] = "handle"
  BY <1>t DEF Job, LocalInv
(* Every other step leaves the abstract state alone. *)
<1>s. ASSUME UNCHANGED <<n_events, handled>>, \A w \in Threads : Job(w)' = Job(w)
      PROVE  UNCHANGED Service!vars
  BY <1>s DEF Service!vars, Queued
<1>1. ASSUME NEW s \in Socks, Dispatch(s)
      PROVE  n_events + 1 \in Events /\ Service!Submit(n_events + 1)
  <2>1. /\ n_events' = n_events + 1 /\ n_events + 1 \in Events /\ handled' = handled
        /\ \A w \in Threads : Job(w)' = Job(w)
    BY <1>1, <1>t DEF Dispatch, workerVars, Job
  <2>2. n_events + 1 \notin handled /\ \A w \in Threads : Job(w) # n_events + 1
    BY <1>t DEF ServiceInv, Job
  <2>3. n_events + 1 \notin Queued
    BY <1>t DEF Queued
  <2>4. Queued' = Queued \cup {n_events + 1}
    <3>1. 1 .. n_events' = (1 .. n_events) \cup {n_events + 1}
      BY <2>1, <1>t
    <3> QED
      BY <2>1, <2>2, <3>1 DEF Queued
  <2>5. UNCHANGED <<[w \in Threads |-> Job(w)], handled>>
    BY <2>1
  <2> QED
    BY <2>1, <2>2, <2>3, <2>4, <2>5 DEF Service!Submit, Service!Started
<1>2. ASSUME NEW w \in Threads, CopyEvent(w) PROVE Service!Start(w, m_event[w])
  <2>1. /\ Job(w) = NULL /\ Job(w)' = m_event[w] /\ handled' = handled /\ n_events' = n_events
        /\ \A v \in Threads : v # w => Job(v)' = Job(v)
    BY <1>2, <1>t DEF CopyEvent, mainVars, Job
  <2>2. m_event[w] \in 1 .. n_events /\ m_event[w] \notin Executed
    BY <1>2, <1>t DEF CopyEvent, PointerInv, HeapInv, ServiceInv, Using
  <2>3. m_event[w] \notin handled /\ \A v \in Threads : Job(v) # m_event[w]
    BY <2>2, <1>t DEF Executed, Job
  <2>4. m_event[w] \in Queued /\ Queued' = Queued \ {m_event[w]}
    BY <2>1, <2>2, <2>3 DEF Queued
  <2>5. [v \in Threads |-> Job(v)]' = [[v \in Threads |-> Job(v)] EXCEPT ![w] = m_event[w]]
    BY <2>1
  <2> QED
    BY <2>1, <2>4, <2>5 DEF Service!Start
<1>3. ASSUME NEW w \in Threads, Handle(w) PROVE Service!Finish(w)
  <2>1. /\ Job(w) # NULL /\ Job(w)' = NULL /\ handled' = handled \cup {Job(w)} /\ n_events' = n_events
        /\ \A v \in Threads : v # w => Job(v)' = Job(v)
    BY <1>3, <1>t, <1>j DEF Handle, mainVars, Job
  <2>2. \A e \in 1 .. n_events : e # NULL
    BY <1>t
  <2>3. Queued' = Queued
    BY <2>1, <2>2 DEF Queued
  <2>4. [v \in Threads |-> Job(v)]' = [[v \in Threads |-> Job(v)] EXCEPT ![w] = NULL]
    BY <2>1
  <2> QED
    BY <2>1, <2>3, <2>4 DEF Service!Finish
<1>4. CASE MainRun \/ WakeIdle
  <2>1. UNCHANGED <<n_events, handled, fac>>
    BY <1>4 DEF MainRun, WaitIdle, WakeIdle, TakeIdle, SetEvent, Signal, InvokeMoveToIdle, workerVars
  <2>2. \A w \in Threads : (pc'[w] = "handle") <=> (pc[w] = "handle")
    BY <1>4, <1>t DEF MainRun, WaitIdle, WakeIdle, TakeIdle, SetEvent, Signal, Wake,
       InvokeMoveToIdle, workerVars
  <2> QED
    BY <2>1, <2>2, <1>s DEF Job
<1>5. ASSUME NEW w \in Threads, Work(w) \/ SpuriousWake(w), ~ CopyEvent(w), ~ Handle(w)
      PROVE  UNCHANGED Service!vars
  <2>1. UNCHANGED <<n_events, handled, fac>>
    BY <1>5 DEF Work, CheckEvent, SpuriousWake, SetBusy, LoadSock, PeekData, PeekNothing, PeekAgain,
       RestoreSock, FreeEvent, ClearEvent, SetIdle, mainVars
  <2>2. \A v \in Threads : (pc'[v] = "handle") <=> (pc[v] = "handle")
    BY <1>5, <1>t DEF Work, CheckEvent, SpuriousWake, Wake, SetBusy, LoadSock, PeekData, PeekNothing,
       PeekAgain, RestoreSock, FreeEvent, ClearEvent, SetIdle
  <2> QED
    BY <2>1, <2>2, <1>s DEF Job
<1>6. CASE UNCHANGED vars
  BY <1>6, <1>s DEF vars, mainVars, workerVars, Job
<1>7. ASSUME NEW w \in Threads, CopyEvent(w) PROVE m_event[w] \in Events
  BY <1>7, <1>t DEF CopyEvent, PointerInv, Using
<1> QED
  BY <1>1, <1>2, <1>3, <1>4, <1>5, <1>6, <1>7 DEF Next, Service!Next

(* The pool implements JobService: no st_event is handled twice and each is   *)
(* handled by one thread, even when m_event is overwritten under a worker.    *)
THEOREM ImplementsJobService == Spec => AtMostOnce
<1>1. IInv /\ ServiceInv /\ [Next]_vars => ServiceInv'
  BY StepService
<1>2. Spec => []ServiceInv
  BY <1>1, InitService, Inductive, PTL DEF Spec
<1> QED
  BY <1>2, InitRefines, StepRefines, Inductive, PTL DEF Spec, AtMostOnce, Service!Spec
===============================================================================
