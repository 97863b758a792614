------------------------------ MODULE JobService ------------------------------
(***************************************************************************)
(* What a pool of worker threads promises the code that feeds it: a job    *)
(* that was submitted is executed at most once, by one thread, and a       *)
(* thread executes one job at a time.  Nothing promises that a submitted   *)
(* job is ever executed: a job may stay in "queued" for ever.              *)
(***************************************************************************)

CONSTANTS Jobs, Threads, NULL

VARIABLES queued,    \* the jobs that were submitted and not started
          running,   \* the job each thread executes, or NULL
          done       \* the jobs that were executed

vars == <<queued, running, done>>

Started == {j \in Jobs : \E w \in Threads : running[w] = j}

Init ==
    /\ queued = {}
    /\ running = [w \in Threads |-> NULL]
    /\ done = {}

Submit(j) ==
    /\ j \notin queued \cup Started \cup done
    /\ queued' = queued \cup {j}
    /\ UNCHANGED <<running, done>>

Start(w, j) ==
    /\ running[w] = NULL
    /\ j \in queued
    /\ queued' = queued \ {j}
    /\ running' = [running EXCEPT ![w] = j]
    /\ UNCHANGED done

Finish(w) ==
    /\ running[w] # NULL
    /\ done' = done \cup {running[w]}
    /\ running' = [running EXCEPT ![w] = NULL]
    /\ UNCHANGED queued

Next ==
    \/ \E j \in Jobs : Submit(j)
    \/ \E w \in Threads : (\E j \in Jobs : Start(w, j)) \/ Finish(w)

Spec == Init /\ [][Next]_vars
===============================================================================
