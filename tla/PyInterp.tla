------------------------------ MODULE PyInterp -------------------------------
(***************************************************************************)
(* The embedded Python interpreter: the CPython objects by which           *)
(* construct_ and parse_transport_message_header call a Python function,   *)
(* from the constructor's Py_Initialize to the destructor's Py_Finalize    *)
(* and __py_decref.  Nothing keeps two threads from doing so at once.      *)
(*                                                                         *)
(* Each statement is a step.  Of an object the model keeps its reference   *)
(* count, 0 when it is not allocated.  The interpreter that the n-th       *)
(* effective Py_Initialize starts is the number n, and has a module with   *)
(* a dictionary and, in that, the function.                                *)
(***************************************************************************)
EXTENDS Naturals, Sequences, FiniteSets, Functions

CONSTANTS
    Calls,    \* the CPython objects that are constructed
    MaxExec,  \* bound: the times exec is called on one of them
    NULL,
    DUMMY,    \* what __initial allocates: a PyObject of zeros
    NONE      \* Py_None, which nobody brings to 0

ASSUME PyAssumption == IsFiniteSet(Calls) /\ MaxExec \in Nat \ {0}

Epochs == 1 .. Cardinality(Calls)
Order == <<"name", "func", "module", "dict", "result", "args">>  \* of __py_decref
Fields == Range(Order)

Objects == ({"module", "dict", "func"} \X Epochs) \cup ({"name"} \X Calls)
             \cup ({"args", "result"} \X Calls \X (1 .. MaxExec))

ASSUME PointerAssumption ==
    /\ {NULL, DUMMY, NONE} \cap Objects = {}
    /\ NULL # DUMMY /\ NULL # NONE /\ DUMMY # NONE

VARIABLES
    interp,     \* the interpreter that is initialised, or 0
    epochs,     \* how many were
    count,      \* ob_refcnt
    pc,         \* where each call is
    ptr,        \* its m_p_name, m_p_func, ...
    todo,       \* the members __py_decref has yet to test
    execs,      \* how often exec has reached the function
    m_result,   \* the object m_result points into; NULL when it was never set
    answer,     \* history: what get_result's string turned out to be
    overlapped, \* history: the calls that met another one
    failed,     \* history: what raised in Python, an import (0) or an exec of a call
    broken,     \* history: a count was not what it should be
    alive       \* the process runs, with a heap of which something is known

mine == <<pc, ptr, todo, execs, m_result, answer>>
history == <<overlapped, failed, broken>>
vars == <<interp, epochs, count, mine, history, alive>>

Init ==
    /\ interp = 0 /\ epochs = 0
    /\ count = [o \in Objects |-> 0]
    /\ pc = [k \in Calls |-> "new"]
    /\ ptr = [k \in Calls |-> [f \in Fields |-> NULL]]
    /\ todo = [k \in Calls |-> Order]
    /\ execs = [k \in Calls |-> 0]
    /\ m_result = [k \in Calls |-> NULL]
    /\ answer = [k \in Calls |-> "none"]
    /\ overlapped = {} /\ failed = {} /\ broken = FALSE
    /\ alive = TRUE

Allocated(o) == o \in Objects /\ count[o] > 0
Freed(o) == o \in Objects /\ count[o] = 0

Present == {k \in Calls : pc[k] \notin {"new", "gone"}}
-------------------------------------------------------------------------------
(* Reference counts. *)

Drop(c, o) == [c EXCEPT ![o] = IF @ = 0 THEN 0 ELSE @ - 1]
Dies(c, o) == c[o] = 1

\* Py_DECREF: a dictionary releases its function with it, a module its dictionary.
DropDict(c, e) ==
    IF Dies(c, <<"dict", e>>) THEN Drop(Drop(c, <<"dict", e>>), <<"func", e>>)
                              ELSE Drop(c, <<"dict", e>>)
DropModule(c, e) ==
    IF Dies(c, <<"module", e>>) THEN DropDict(Drop(c, <<"module", e>>), e)
                                ELSE Drop(c, <<"module", e>>)
Decref(c, o) ==
    CASE o[1] = "module" -> DropModule(c, o[2])
      [] o[1] = "dict"   -> DropDict(c, o[2])
      [] OTHER           -> Drop(c, o)

\* k owns what it got as a new reference and has not released: m_p_dict and m_p_func
\* are borrowed.
Owns(k, o) ==
    \E f \in {"name", "module", "args", "result"} : ptr[k][f] = o /\ f \in Range(todo[k])
Imported(e) == \E k \in Calls : ptr[k]["module"] = <<"module", e>>

\* The references to an object that exist.  The args and the result of an exec are
\* leaked when the next one overwrites their members.
Holders(o) ==
    LET one(P) == IF P THEN 1 ELSE 0
    IN  CASE o[1] = "module" -> Cardinality({k \in Calls : Owns(k, o)})
                                  + one(interp = o[2] /\ Imported(o[2]))
          [] o[1] = "dict"   -> one(count[<<"module", o[2]>>] > 0)
          [] o[1] = "func"   -> one(interp = o[2] /\ Imported(o[2]))
          [] o[1] = "name"   -> one(Owns(o[2], o))
          [] o[1] = "args"   -> one(Owns(o[2], o) \/ o[3] < execs[o[2]])
          [] OTHER           -> one(\/ Owns(o[2], o)
                                    \/ o[3] < execs[o[2]] /\ <<o[2], o[3]>> \notin failed)
Exact == \A o \in Objects : count[o] = Holders(o)

Note == broken' = (broken \/ ~Exact')

\* A member that is NULL is dereferenced, or memory is gone: the process ends.
Die ==
    /\ alive' = FALSE
    /\ UNCHANGED <<interp, epochs, count, mine, history>>
-------------------------------------------------------------------------------
Goto(k, l) == pc' = [pc EXCEPT ![k] = l]

\* __initial: each member points to a PyObject of its own, of which nobody takes care.
Zeroed == [f \in Fields |-> DUMMY]

\* Py_Initialize does nothing when there is an interpreter, whoever started it.
Construct(k) ==
    /\ pc[k] = "new"
    /\ IF interp = 0 THEN interp' = epochs + 1 /\ epochs' = epochs + 1
                     ELSE UNCHANGED <<interp, epochs>>
    /\ ptr' = [ptr EXCEPT ![k] = Zeroed]
    /\ overlapped' = IF Present = {} THEN overlapped ELSE overlapped \cup Present \cup {k}
    /\ Goto(k, "initial")
    /\ UNCHANGED <<count, todo, execs, m_result, answer, failed, broken, alive>>

\* initial: __py_decref finds zeros only.  Its result is not looked at.
NotInitialized(k) ==
    /\ pc[k] = "initial" /\ interp = 0
    /\ Goto(k, "exec")
    /\ UNCHANGED <<interp, epochs, count, ptr, todo, execs, m_result, answer, history, alive>>

\* The first import in an interpreter makes the module, which sys.modules keeps.
Import(k) ==
    LET e == interp
        new == ~Imported(e)
    IN  /\ pc[k] = "initial" /\ e # 0
        /\ count' = [o \in Objects |->
                       CASE o = <<"name", k>>   -> 1
                         [] o = <<"module", e>> -> count[o] + (IF new THEN 2 ELSE 1)
                         [] o \in {<<"dict", e>>, <<"func", e>>} /\ new -> 1
                         [] OTHER               -> count[o]]
        /\ ptr' = [ptr EXCEPT ![k]["name"] = <<"name", k>>, ![k]["module"] = <<"module", e>>,
                              ![k]["dict"] = <<"dict", e>>]
        /\ Goto(k, "exec")
        /\ UNCHANGED <<interp, epochs, todo, execs, m_result, answer, overlapped, failed, alive>>
        /\ Note

ImportRaises(k) ==
    /\ pc[k] = "initial" /\ interp # 0
    /\ count' = [count EXCEPT ![<<"name", k>>] = 1]
    /\ ptr' = [ptr EXCEPT ![k]["name"] = <<"name", k>>, ![k]["module"] = NULL]
    /\ failed' = failed \cup {<<k, 0>>}
    /\ Goto(k, "exec")
    /\ UNCHANGED <<interp, epochs, todo, execs, m_result, answer, overlapped, broken, alive>>
-------------------------------------------------------------------------------
(* exec *)

Dict(k) == ptr[k]["dict"]
Found(k) == Allocated(Dict(k)) /\ interp = Dict(k)[2]

\* PyDict_GetItemString on the zeros of __initial, or on a dictionary that was freed.
ExecDies(k) ==
    /\ pc[k] = "exec" /\ (Dict(k) = DUMMY \/ Freed(Dict(k)))
    /\ Die

\* Py_Finalize has put None for every value of the module, or the freed dictionary
\* is read as one without the function: exec returns false, which nobody looks at.
ExecFindsNothing(k) ==
    /\ pc[k] = "exec" /\ Dict(k) # DUMMY /\ ~Found(k)
    /\ ptr' = [ptr EXCEPT ![k]["func"] = IF Allocated(Dict(k)) THEN NONE ELSE NULL]
    /\ Goto(k, "use")
    /\ UNCHANGED <<interp, epochs, count, todo, execs, m_result, answer, history, alive>>

\* The function is called on a new tuple, and m_result set to point into what it
\* returned.  c is what becomes of the counts besides, n the count it leaves the result.
Called(k, c, n) ==
    LET i == execs[k] + 1
        args == <<"args", k, i>>
        result == <<"result", k, i>>
    IN  /\ pc[k] = "exec" /\ Found(k) /\ i <= MaxExec
        /\ count' = [c EXCEPT ![args] = 1, ![result] = n]
        /\ ptr' = [ptr EXCEPT ![k]["func"] = <<"func", interp>>,
                              ![k]["args"] = args, ![k]["result"] = result]
        /\ m_result' = [m_result EXCEPT ![k] = result]
        /\ execs' = [execs EXCEPT ![k] = i]
        /\ Goto(k, "use")
        /\ UNCHANGED <<interp, epochs, todo, answer, overlapped, failed, alive>>
        /\ Note

\* The mutant of Exec: the result of the exec before is released first.
ExecReleasesLast(k) ==
    Called(k, IF execs[k] = 0 THEN count ELSE Drop(count, ptr[k]["result"]), 1)

\* Another one: the result is released before it is read, as the class did at first.
ExecReleases(k) == Called(k, count, 0)

Exec(k) == Called(k, count, 1)

\* It raises: m_p_result is NULL, m_result stays what it was.
ExecRaises(k) ==
    LET i == execs[k] + 1
        args == <<"args", k, i>>
    IN  /\ pc[k] = "exec" /\ Found(k) /\ i <= MaxExec
        /\ count' = [count EXCEPT ![args] = 1]
        /\ ptr' = [ptr EXCEPT ![k]["func"] = <<"func", interp>>,
                              ![k]["args"] = args, ![k]["result"] = NULL]
        /\ execs' = [execs EXCEPT ![k] = i]
        /\ failed' = failed \cup {<<k, i>>}
        /\ Goto(k, "use")
        /\ UNCHANGED <<interp, epochs, todo, m_result, answer, overlapped, broken, alive>>

\* The string at get_result() is copied: of the last exec, or another or none.
ReadAnswer(k) ==
    /\ pc[k] = "use"
    /\ answer' = [answer EXCEPT ![k] =
                     IF Allocated(m_result[k]) /\ m_result[k] = ptr[k]["result"]
                     THEN "own" ELSE "garbage"]
    /\ \E l \in {"exec", "finalize"} : (l = "exec" => execs[k] < MaxExec) /\ Goto(k, l)
    /\ UNCHANGED <<interp, epochs, count, ptr, todo, execs, m_result, history, alive>>

ReadDies(k) ==
    /\ pc[k] = "use" /\ ~Allocated(m_result[k])
    /\ Die
-------------------------------------------------------------------------------
(* The destructor *)

\* The mutant of Finalize: the interpreter is kept for the next call.
FinalizeNothing(k) ==
    /\ pc[k] = "finalize"
    /\ Goto(k, "decref")
    /\ UNCHANGED <<interp, epochs, count, ptr, todo, execs, m_result, answer, history, alive>>

\* Py_Finalize, whoever still uses the interpreter: the values of the module are
\* replaced by None and sys.modules lets go of it.
Finalize(k) ==
    /\ pc[k] = "finalize"
    /\ interp' = 0
    /\ count' = IF interp = 0 \/ ~Imported(interp) THEN count
                ELSE DropModule(Drop(count, <<"func", interp>>), interp)
    /\ Goto(k, "decref")
    /\ UNCHANGED <<epochs, ptr, todo, execs, m_result, answer, overlapped, failed, alive>>
    /\ Note

\* One test of __py_decref.
Test(k, f) ==
    /\ pc[k] = "decref" /\ f = Head(todo[k])
    /\ todo' = [todo EXCEPT ![k] = Tail(@)]
    /\ Goto(k, IF Len(todo[k]) = 1 THEN "gone" ELSE "decref")
    /\ UNCHANGED <<interp, epochs, ptr, execs, m_result, answer, overlapped, failed, alive>>

NotCounted(k, f) ==
    /\ ptr[k][f] \in {DUMMY, NONE}
    /\ UNCHANGED <<count, broken>>
    /\ Test(k, f)

Release(k, f) ==
    /\ Allocated(ptr[k][f])
    /\ count' = Decref(count, ptr[k][f])
    /\ Test(k, f)
    /\ Note

\* The mutant of TestFreed: every member is released, without a test of its count.
ReleaseUntested(k, f) ==
    /\ Freed(ptr[k][f])
    /\ count' = [count EXCEPT ![ptr[k][f]] = @ - 1]
    /\ Test(k, f)
    /\ UNCHANGED broken

\* The object was freed: its memory still holds the 0 its count had, or, where another
\* call has allocated meanwhile, something else that is then decremented.
TestFreed(k, f) ==
    /\ Freed(ptr[k][f])
    /\ broken' \in {broken} \cup (IF k \in overlapped THEN {TRUE} ELSE {})
    /\ UNCHANGED count
    /\ Test(k, f)

\* m_p_func, m_p_module or m_p_result is NULL, or freed memory was given back.
TestDies(k, f) ==
    /\ pc[k] = "decref" /\ f = Head(todo[k])
    /\ ptr[k][f] = NULL \/ Freed(ptr[k][f])
    /\ Die

\* Two threads inside Python without its lock, or one in an interpreter whose counts
\* are wrong, break the heap: the process ends or nothing is known of it any more.
Race(k) ==
    /\ pc[k] \in {"initial", "exec", "finalize"}
    /\ broken \/ \E j \in Calls \ {k} : pc[j] \in {"initial", "exec", "finalize"}
    /\ Die
-------------------------------------------------------------------------------
Call(k) ==
    \/ Construct(k)
    \/ NotInitialized(k) \/ Import(k) \/ ImportRaises(k)
    \/ ExecDies(k) \/ ExecFindsNothing(k) \/ Exec(k) \/ ExecRaises(k)
    \/ ReadAnswer(k) \/ ReadDies(k)
    \/ Finalize(k)
    \/ \E f \in Fields : NotCounted(k, f) \/ Release(k, f) \/ TestFreed(k, f) \/ TestDies(k, f)

Next == alive /\ \E k \in Calls : Call(k) \/ Race(k)

Spec == Init /\ [][Next]_vars
-------------------------------------------------------------------------------
Pointers == Objects \cup {NULL, DUMMY, NONE}

\* Every variable has its type.
TypeOK ==
    /\ interp \in {0} \cup Epochs /\ epochs \in {0} \cup Epochs
    /\ count \in [Objects -> Nat]
    /\ pc \in [Calls -> {"new", "initial", "exec", "use", "finalize", "decref", "gone"}]
    /\ ptr \in [Calls -> [Fields -> Pointers]]
    /\ todo \in [Calls -> Seq(Fields)]
    /\ execs \in [Calls -> 0 .. MaxExec]
    /\ m_result \in [Calls -> Objects \cup {NULL}]
    /\ answer \in [Calls -> {"none", "own", "garbage"}]
    /\ overlapped \subseteq Calls /\ failed \subseteq Calls \X (0 .. MaxExec)
    /\ broken \in BOOLEAN /\ alive \in BOOLEAN

\* As long as the CPython objects follow one another, every object has as many
\* counts as references, at every statement: __py_decref releases m_p_dict and
\* m_p_func, which are only borrowed, but Py_Finalize has freed what they point to
\* by then and the counts it tests are 0.
CountsExact == overlapped = {} => Exact /\ ~broken

\* The string a call hands on is what its own function returned, unless it met another
\* call or Python raised an exception.
AnswerOwn ==
    \A k \in Calls : answer[k] = "garbage" =>
        k \in overlapped \/ \E i \in 0 .. MaxExec : <<k, i>> \in failed

\* What get_result returned stays readable until the destructor, through later execs,
\* even when another call has finalized the interpreter meanwhile.
ResultsReadable ==
    \A k \in Calls : pc[k] \notin {"decref", "gone"} =>
        \A i \in 1 .. execs[k] : <<k, i>> \notin failed => Allocated(<<"result", k, i>>)

\* An interpreter runs only while some call has still to come to its Py_Finalize,
\* whatever the calls did to each other.
InterpreterEnded ==
    interp # 0 => \E k \in Calls : pc[k] \in {"initial", "exec", "use", "finalize"}
===============================================================================
