---------------------------- MODULE PyInterpProofs ----------------------------
(***************************************************************************)
(* Proofs about PyInterp, for any number of CPython objects and of calls   *)
(* of a function.                                                          *)
(***************************************************************************)
EXTENDS PyInterp, FiniteSetTheorems, TLAPS

USE PyAssumption, PointerAssumption

Before == {"initial", "exec", "use", "finalize"}  \* the places before Py_Finalize

\* What is left of Order as __py_decref goes through it.
Suffixes ==
    {Order, <<"func", "module", "dict", "result", "args">>,
     <<"module", "dict", "result", "args">>, <<"dict", "result", "args">>,
     <<"result", "args">>, <<"args">>, <<>>}

\* Every interpreter was started by a call of its own; the last may still run.
EpochInv ==
    /\ epochs \in Nat /\ epochs <= Cardinality({k \in Calls : pc[k] # "new"})
    /\ interp \in {0, epochs}

\* What the members of a call can point to.
PtrOf(k) ==
    /\ ptr[k]["name"] \in {NULL, DUMMY, <<"name", k>>}
    /\ ptr[k]["module"] \in {NULL, DUMMY} \cup {<<"module", e>> : e \in 1 .. epochs}
    /\ ptr[k]["dict"] \in {DUMMY} \cup {<<"dict", e>> : e \in 1 .. epochs} \/ pc[k] = "new"
    /\ ptr[k]["func"] \in {NULL, DUMMY, NONE} \cup {<<"func", e>> : e \in 1 .. epochs}
    /\ execs[k] = 0 => {ptr[k]["args"], ptr[k]["result"]} \subseteq {NULL, DUMMY}
    /\ execs[k] # 0 =>
          /\ ptr[k]["args"] = <<"args", k, execs[k]>>
          /\ ptr[k]["result"] = IF <<k, execs[k]>> \in failed THEN NULL
                                ELSE <<"result", k, execs[k]>>
    /\ pc[k] = "new" => execs[k] = 0 /\ \A f \in Fields : ptr[k][f] = NULL
    /\ \A i \in 0 .. MaxExec : <<k, i>> \in failed => i <= execs[k]
PtrInv == \A k \in Calls : PtrOf(k)

TodoOf(k) ==
    /\ pc[k] = "decref" => todo[k] \in Suffixes \ {<<>>}
    /\ pc[k] = "gone" => todo[k] = <<>>
    /\ pc[k] \notin {"decref", "gone"} => todo[k] = Order
TodoInv == \A k \in Calls : TodoOf(k)
-------------------------------------------------------------------------------
LEMMA FieldsAre == Fields = {"name", "func", "module", "dict", "result", "args"}
    BY DEF Fields, Order, Range

LEMMA EpochsAre == Cardinality(Calls) \in Nat /\ Epochs \subseteq Nat \ {0}
<1>1. Cardinality(Calls) \in Nat
    BY FS_CardinalityType
<1>. QED BY <1>1 DEF Epochs

LEMMA ObjectsAre ==
    /\ \A e \in Epochs : {<<"module", e>>, <<"dict", e>>, <<"func", e>>} \subseteq Objects
    /\ \A k \in Calls : <<"name", k>> \in Objects
    /\ \A k \in Calls, i \in 1 .. MaxExec :
          <<"args", k, i>> \in Objects /\ <<"result", k, i>> \in Objects
    /\ \A o \in Objects :
          \/ \E e \in Epochs : o \in {<<"module", e>>, <<"dict", e>>, <<"func", e>>}
          \/ \E k \in Calls : o = <<"name", k>>
          \/ \E k \in Calls, i \in 1 .. MaxExec : o \in {<<"args", k, i>>, <<"result", k, i>>}
    BY DEF Objects

LEMMA NotObjects == NULL \notin Objects /\ DUMMY \notin Objects /\ NONE \notin Objects
    OBVIOUS

LEMMA SuffixSteps ==
    ASSUME NEW s \in Suffixes \ {<<>>}
    PROVE  /\ Tail(s) \in Suffixes /\ (Len(s) = 1 <=> Tail(s) = <<>>)
           /\ Range(s) = {Head(s)} \cup Range(Tail(s)) /\ Head(s) \notin Range(Tail(s))
           /\ Head(s) = "dict" => "module" \notin Range(s)
           /\ Head(s) \in Fields
<1>1. CASE s = Order
    BY <1>1, FieldsAre DEF Suffixes, Order, Range
<1>2. CASE s = <<"func", "module", "dict", "result", "args">>
    BY <1>2, FieldsAre DEF Suffixes, Order, Range
<1>3. CASE s = <<"module", "dict", "result", "args">>
    BY <1>3, FieldsAre DEF Suffixes, Order, Range
<1>4. CASE s = <<"dict", "result", "args">>
    BY <1>4, FieldsAre DEF Suffixes, Order, Range
<1>5. CASE s = <<"result", "args">>
    BY <1>5, FieldsAre DEF Suffixes, Order, Range
<1>6. CASE s = <<"args">>
    BY <1>6, FieldsAre DEF Suffixes, Order, Range
<1>. QED BY <1>1, <1>2, <1>3, <1>4, <1>5, <1>6 DEF Suffixes

LEMMA SuffixRanges ==
    /\ Suffixes \subseteq Seq(Fields) /\ Range(Order) = Fields /\ Range(<<>>) = {}
    /\ Order \in Suffixes \ {<<>>}
    BY FieldsAre DEF Suffixes, Order, Range, Fields

LEMMA DropSteps ==
    ASSUME NEW c \in [Objects -> Nat], NEW o
    PROVE  /\ Drop(c, o) \in [Objects -> Nat]
           /\ \A x \in Objects : x # o => Drop(c, o)[x] = c[x]
           /\ o \in Objects => Drop(c, o)[o] = IF c[o] = 0 THEN 0 ELSE c[o] - 1
<1>. DEFINE n == IF c[o] = 0 THEN 0 ELSE c[o] - 1
<1>1. Drop(c, o) = [c EXCEPT ![o] = n]
    BY DEF Drop
<1>2. o \in Objects => n \in Nat
    OBVIOUS
<1>. HIDE DEF n
<1>3. /\ Drop(c, o) \in [Objects -> Nat]
      /\ \A x \in Objects : x # o => Drop(c, o)[x] = c[x]
      /\ o \in Objects => Drop(c, o)[o] = n
    BY <1>1, <1>2
<1>. QED BY <1>3 DEF n

LEMMA DropDictSteps ==
    ASSUME NEW c \in [Objects -> Nat], NEW e
    PROVE  /\ DropDict(c, e) \in [Objects -> Nat]
           /\ \A x \in Objects : x \notin {<<"dict", e>>, <<"func", e>>} => DropDict(c, e)[x] = c[x]
<1>. DEFINE d == Drop(c, <<"dict", e>>)
<1>1. d \in [Objects -> Nat] /\ \A x \in Objects : x # <<"dict", e>> => d[x] = c[x]
    BY DropSteps
<1>. HIDE DEF d
<1>2. ASSUME NEW o
      PROVE  Drop(d, o) \in [Objects -> Nat] /\ \A x \in Objects : x # o => Drop(d, o)[x] = d[x]
    BY <1>1, DropSteps
<1>. QED BY <1>1, <1>2 DEF DropDict, d

LEMMA DropModuleSteps ==
    ASSUME NEW c \in [Objects -> Nat], NEW e
    PROVE  /\ DropModule(c, e) \in [Objects -> Nat]
           /\ \A x \in Objects :
                 x \notin {<<"module", e>>, <<"dict", e>>, <<"func", e>>} =>
                    DropModule(c, e)[x] = c[x]
<1>. DEFINE d == Drop(c, <<"module", e>>)
<1>1. d \in [Objects -> Nat] /\ \A x \in Objects : x # <<"module", e>> => d[x] = c[x]
    BY DropSteps
<1>. HIDE DEF d
<1>2. /\ DropDict(d, e) \in [Objects -> Nat]
      /\ \A x \in Objects : x \notin {<<"dict", e>>, <<"func", e>>} => DropDict(d, e)[x] = d[x]
    BY <1>1, DropDictSteps
<1>. QED BY <1>1, <1>2 DEF DropModule, d

\* Py_DECREF takes a name, an args or a result away only when it is given it.
LEMMA DecrefSteps ==
    ASSUME NEW c \in [Objects -> Nat], NEW o \in Objects
    PROVE  /\ Decref(c, o) \in [Objects -> Nat]
           /\ \A x \in Objects :
                 x # o /\ x[1] \notin {"module", "dict", "func"} => Decref(c, o)[x] = c[x]
<1>1. CASE o[1] = "module"
    BY <1>1, DropModuleSteps DEF Decref
<1>2. CASE o[1] = "dict"
    BY <1>2, DropDictSteps DEF Decref
<1>3. CASE o[1] \notin {"module", "dict"}
    BY <1>3, DropSteps DEF Decref
<1>. QED BY <1>1, <1>2, <1>3

LEMMA DictFound ==
    ASSUME TypeOK, PtrInv, NEW k \in Calls, pc[k] # "new", Found(k)
    PROVE  interp \in Epochs /\ ptr[k]["dict"] = <<"dict", interp>>
<1>1. ptr[k]["dict"] \in Objects /\ ptr[k]["dict"][2] = interp
    BY DEF Found, Dict, Allocated
<1>2. PICK e \in 1 .. epochs : ptr[k]["dict"] = <<"dict", e>>
    BY <1>1, NotObjects DEF PtrInv, PtrOf
<1>3. e \in Epochs
    BY EpochsAre DEF TypeOK, Epochs
<1>. QED BY <1>1, <1>2, <1>3
-------------------------------------------------------------------------------
\* The steps after which the process has ended.
LEMMA Deaths ==
    ASSUME NEW k \in Calls,
           ExecDies(k) \/ ReadDies(k) \/ Race(k) \/ \E f \in Fields : TestDies(k, f)
    PROVE  Die
    BY DEF ExecDies, ReadDies, Race, TestDies

LEMMA TypeStep ==
    ASSUME TypeOK, EpochInv, PtrInv, TodoInv, [Next]_vars
    PROVE  (TypeOK /\ EpochInv)'
<1>. DEFINE N == {k \in Calls : pc[k] # "new"}
<1>0. N \in SUBSET Calls /\ IsFiniteSet(N) /\ Cardinality(N) \in Nat /\ IsFiniteSet(Calls)
    BY FS_Subset, FS_CardinalityType
<1>a. ASSUME N' = N, interp' \in {0, interp}, epochs' = epochs
      PROVE  /\ EpochInv' /\ interp' \in {0} \cup Epochs /\ epochs' \in {0} \cup Epochs
    BY <1>a DEF EpochInv, TypeOK
<1>b. ASSUME NEW k \in Calls, NEW l, Goto(k, l), pc[k] # "new",
             l \in {"initial", "exec", "use", "finalize", "decref", "gone"}
      PROVE  /\ N' = N
             /\ pc' \in [Calls -> {"new", "initial", "exec", "use", "finalize", "decref", "gone"}]
    BY <1>b DEF Goto, TypeOK
<1>1. ASSUME NEW k \in Calls, Construct(k) PROVE (TypeOK /\ EpochInv)'
  <2>1. /\ k \notin N /\ N' = N \cup {k}
        /\ pc' \in [Calls -> {"new", "initial", "exec", "use", "finalize", "decref", "gone"}]
    BY <1>1 DEF Construct, Goto, TypeOK
  <2>2. Cardinality(N') = Cardinality(N) + 1
    BY <1>0, <2>1, FS_AddElement
  <2>3. Cardinality(N') <= Cardinality(Calls)
    BY <1>0, <2>1, FS_Subset
  <2>4. \/ interp' = epochs + 1 /\ epochs' = epochs + 1
        \/ interp' = interp /\ epochs' = epochs
    BY <1>1 DEF Construct
  <2>. HIDE DEF N
  <2>5. /\ epochs' \in Nat /\ epochs' <= Cardinality(N') /\ interp' \in {0, epochs'}
        /\ epochs' <= Cardinality(Calls)
    BY <1>0, <2>2, <2>3, <2>4, EpochsAre DEF EpochInv, N
  <2>6. EpochInv'
    BY <2>5 DEF EpochInv, N
  <2>7. interp' \in {0} \cup Epochs /\ epochs' \in {0} \cup Epochs
    BY <2>5, EpochsAre DEF Epochs
  <2>8. ptr' \in [Calls -> [Fields -> Pointers]]
    BY <1>1 DEF Construct, Zeroed, Pointers, TypeOK
  <2>9. overlapped' \subseteq Calls
    BY <1>1 DEF Construct, Present, TypeOK
  <2>. QED BY <1>1, <2>1, <2>6, <2>7, <2>8, <2>9 DEF Construct, TypeOK
<1>2. ASSUME NEW k \in Calls, NotInitialized(k) PROVE (TypeOK /\ EpochInv)'
  <2>1. Goto(k, "exec") /\ pc[k] # "new"
    BY <1>2 DEF NotInitialized
  <2>. QED BY <1>a, <1>b, <1>2, <2>1 DEF NotInitialized, TypeOK, history
<1>3. ASSUME NEW k \in Calls, Import(k) PROVE (TypeOK /\ EpochInv)'
  <2>1. Goto(k, "exec") /\ pc[k] # "new" /\ interp \in Epochs
    BY <1>3 DEF Import, TypeOK
  <2>2. count' \in [Objects -> Nat]
    BY <1>3, ObjectsAre DEF Import, TypeOK
  <2>3. ptr' \in [Calls -> [Fields -> Pointers]]
    BY <1>3, <2>1, ObjectsAre, FieldsAre DEF Import, Pointers, TypeOK
  <2>4. broken' \in BOOLEAN
    BY <1>3 DEF Import, Note, TypeOK
  <2>. QED BY <1>a, <1>b, <1>3, <2>1, <2>2, <2>3, <2>4 DEF Import, TypeOK
<1>4. ASSUME NEW k \in Calls, ImportRaises(k) PROVE (TypeOK /\ EpochInv)'
  <2>1. Goto(k, "exec") /\ pc[k] # "new"
    BY <1>4 DEF ImportRaises
  <2>2. count' \in [Objects -> Nat]
    BY <1>4 DEF ImportRaises, TypeOK
  <2>3. ptr' \in [Calls -> [Fields -> Pointers]]
    BY <1>4, ObjectsAre, FieldsAre DEF ImportRaises, Pointers, TypeOK
  <2>4. failed' \subseteq Calls \X (0 .. MaxExec)
    BY <1>4 DEF ImportRaises, TypeOK
  <2>. QED BY <1>a, <1>b, <1>4, <2>1, <2>2, <2>3, <2>4 DEF ImportRaises, TypeOK
<1>5. ASSUME NEW k \in Calls, ExecFindsNothing(k) PROVE (TypeOK /\ EpochInv)'
  <2>1. Goto(k, "use") /\ pc[k] # "new"
    BY <1>5 DEF ExecFindsNothing
  <2>2. ptr' \in [Calls -> [Fields -> Pointers]]
    BY <1>5, FieldsAre DEF ExecFindsNothing, Pointers, TypeOK
  <2>. QED BY <1>a, <1>b, <1>5, <2>1, <2>2 DEF ExecFindsNothing, TypeOK, history
<1>6. ASSUME NEW k \in Calls, Exec(k) \/ ExecRaises(k) PROVE (TypeOK /\ EpochInv)'
  <2>. DEFINE i == execs[k] + 1
  <2>1. /\ Goto(k, "use") /\ pc[k] # "new" /\ i \in 1 .. MaxExec /\ interp \in Epochs
        /\ i \in 0 .. MaxExec
    <3>1. Goto(k, "use") /\ pc[k] = "exec" /\ Found(k) /\ i <= MaxExec
      BY <1>6 DEF Exec, Called, ExecRaises
    <3>2. execs[k] \in 0 .. MaxExec
      BY DEF TypeOK
    <3>. QED BY <3>1, <3>2, DictFound
  <2>2. {<<"args", k, i>>, <<"result", k, i>>, <<"func", interp>>} \subseteq Objects
    BY <2>1, ObjectsAre
  <2>. HIDE DEF i
  <2>3. CASE Exec(k)
    <3>. USE DEF Exec, Called, i
    <3>1. count' \in [Objects -> Nat]
      BY <2>3 DEF TypeOK
    <3>2. ptr' = [ptr EXCEPT ![k]["func"] = <<"func", interp>>, ![k]["args"] = <<"args", k, i>>,
                             ![k]["result"] = <<"result", k, i>>]
      BY <2>3
    <3>3. m_result' = [m_result EXCEPT ![k] = <<"result", k, i>>]
      BY <2>3
    <3>4. execs' \in [Calls -> 0 .. MaxExec]
      BY <2>1, <2>3 DEF TypeOK
    <3>. HIDE DEF i
    <3>5. ptr' \in [Calls -> [Fields -> Pointers]]
      BY <2>2, <3>2, FieldsAre DEF Pointers, TypeOK
    <3>6. m_result' \in [Calls -> Objects \cup {NULL}]
      BY <2>2, <3>3 DEF TypeOK
    <3>7. broken' \in BOOLEAN
      BY <2>3 DEF Note, TypeOK
    <3>. QED BY <1>a, <1>b, <2>1, <2>3, <3>1, <3>4, <3>5, <3>6, <3>7 DEF TypeOK
  <2>4. CASE ExecRaises(k)
    <3>. USE DEF ExecRaises, i
    <3>1. count' \in [Objects -> Nat]
      BY <2>4 DEF TypeOK
    <3>2. ptr' = [ptr EXCEPT ![k]["func"] = <<"func", interp>>, ![k]["args"] = <<"args", k, i>>,
                             ![k]["result"] = NULL]
      BY <2>4
    <3>3. execs' \in [Calls -> 0 .. MaxExec]
      BY <2>1, <2>4 DEF TypeOK
    <3>4. failed' \subseteq Calls \X (0 .. MaxExec)
      BY <2>1, <2>4 DEF TypeOK
    <3>. HIDE DEF i
    <3>5. ptr' \in [Calls -> [Fields -> Pointers]]
      BY <2>2, <3>2, FieldsAre DEF Pointers, TypeOK
    <3>. QED BY <1>a, <1>b, <2>1, <2>4, <3>1, <3>3, <3>4, <3>5 DEF TypeOK
  <2>. QED BY <1>6, <2>3, <2>4
<1>7. ASSUME NEW k \in Calls, ReadAnswer(k) PROVE (TypeOK /\ EpochInv)'
  <2>1. PICK l \in {"exec", "finalize"} : Goto(k, l)
    BY <1>7 DEF ReadAnswer
  <2>2. pc[k] # "new" /\ answer' \in [Calls -> {"none", "own", "garbage"}]
    BY <1>7 DEF ReadAnswer, TypeOK
  <2>. QED BY <1>a, <1>b, <1>7, <2>1, <2>2 DEF ReadAnswer, TypeOK, history
<1>8. ASSUME NEW k \in Calls, Finalize(k) PROVE (TypeOK /\ EpochInv)'
  <2>1. Goto(k, "decref") /\ pc[k] # "new" /\ interp' = 0
    BY <1>8 DEF Finalize
  <2>2. count' \in [Objects -> Nat]
    <3>1. Drop(count, <<"func", interp>>) \in [Objects -> Nat]
      BY DropSteps DEF TypeOK
    <3>2. DropModule(Drop(count, <<"func", interp>>), interp) \in [Objects -> Nat]
      BY <3>1, DropModuleSteps
    <3>. QED BY <1>8, <3>2 DEF Finalize, TypeOK
  <2>3. broken' \in BOOLEAN
    BY <1>8 DEF Finalize, Note, TypeOK
  <2>. QED BY <1>a, <1>b, <1>8, <2>1, <2>2, <2>3 DEF Finalize, TypeOK
<1>9. ASSUME NEW k \in Calls, NEW f \in Fields, NotCounted(k, f) \/ Release(k, f) \/ TestFreed(k, f)
      PROVE  (TypeOK /\ EpochInv)'
  <2>1. Test(k, f) /\ pc[k] = "decref" /\ pc[k] # "new"
    BY <1>9 DEF NotCounted, Release, TestFreed, Test
  <2>2. N' = N /\ pc' \in [Calls -> {"new", "initial", "exec", "use", "finalize", "decref", "gone"}]
    BY <2>1, <1>b DEF Test
  <2>3. count' \in [Objects -> Nat]
    <3>1. CASE Release(k, f)
      BY <3>1, DecrefSteps DEF Release, Allocated, TypeOK
    <3>2. CASE count' = count
      BY <3>2 DEF TypeOK
    <3>. QED BY <1>9, <3>1, <3>2 DEF NotCounted, TestFreed
  <2>4. broken' \in BOOLEAN
    BY <1>9 DEF NotCounted, Release, TestFreed, Note, TypeOK
  <2>5. todo' \in [Calls -> Seq(Fields)]
    <3>1. Tail(todo[k]) \in Seq(Fields)
      BY <2>1, SuffixSteps, SuffixRanges DEF TodoInv, TodoOf
    <3>. QED BY <2>1, <3>1 DEF Test, TypeOK
  <2>. QED BY <1>a, <2>1, <2>2, <2>3, <2>4, <2>5 DEF Test, TypeOK
<1>10. CASE Die \/ UNCHANGED vars
  <2>1. UNCHANGED <<interp, epochs, count, mine, history>> /\ alive' \in BOOLEAN
    BY <1>10 DEF Die, vars, TypeOK
  <2>2. UNCHANGED <<interp, epochs, count, pc, ptr, todo, execs, m_result, answer,
                    overlapped, failed, broken>>
    BY <2>1 DEF mine, history
  <2>. QED BY <2>1, <2>2 DEF TypeOK, EpochInv
<1>. QED BY <1>1, <1>2, <1>3, <1>4, <1>5, <1>6, <1>7, <1>8, <1>9, <1>10, Deaths DEF Next, Call
-------------------------------------------------------------------------------
\* A step leaves the members of a call that it is not of as they are.
LEMMA PtrFrame ==
    ASSUME TypeOK, epochs' \in Nat, epochs <= epochs',
           NEW j \in Calls, PtrOf(j), ptr'[j] = ptr[j], execs'[j] = execs[j],
           pc'[j] = "new" <=> pc[j] = "new",
           \A i \in 0 .. MaxExec : <<j, i>> \in failed' <=> <<j, i>> \in failed
    PROVE  PtrOf(j)'
<1>1. epochs \in Nat /\ 1 .. epochs \subseteq 1 .. epochs' /\ execs[j] \in 0 .. MaxExec
    BY EpochsAre DEF TypeOK
<1>2. \A o, t : o \in {<<t, e>> : e \in 1 .. epochs} => o \in {<<t, e>> : e \in 1 .. epochs'}
    BY <1>1
<1>. QED BY <1>1, <1>2 DEF PtrOf

LEMMA PtrStep ==
    ASSUME TypeOK, EpochInv, PtrInv, [Next]_vars
    PROVE  PtrInv'
<1>0. epochs \in Nat /\ (interp # 0 => interp \in 1 .. epochs)
    BY DEF EpochInv
<1>1. ASSUME NEW k \in Calls, Construct(k) PROVE PtrInv'
  <2>1. epochs' \in Nat /\ epochs <= epochs' /\ execs[k] = 0
    <3>1. epochs' = epochs \/ epochs' = epochs + 1
      BY <1>1 DEF Construct
    <3>2. execs[k] = 0
      BY <1>1 DEF Construct, PtrInv, PtrOf
    <3>. QED BY <1>0, <3>1, <3>2
  <2>2. \A j \in Calls : j # k => PtrOf(j)'
    BY <1>1, <2>1, PtrFrame DEF Construct, Goto, PtrInv, TypeOK
  <2>3. /\ \A f \in Fields : ptr'[k][f] = DUMMY
        /\ execs' = execs /\ failed' = failed /\ pc'[k] = "initial"
    BY <1>1 DEF Construct, Goto, Zeroed, TypeOK
  <2>4. \A i \in 0 .. MaxExec : <<k, i>> \in failed => i <= execs[k]
    BY DEF PtrInv, PtrOf
  <2>5. PtrOf(k)'
    BY <2>1, <2>3, <2>4, FieldsAre DEF PtrOf
  <2>. QED BY <2>2, <2>5 DEF PtrInv
<1>2. ASSUME NEW k \in Calls, ptr' = ptr, execs' = execs, failed' = failed, epochs' = epochs,
             NEW l, l # "new", pc[k] # "new", Goto(k, l)
      PROVE  PtrInv'
  <2>1. \A j \in Calls : pc'[j] = "new" <=> pc[j] = "new"
    BY <1>2 DEF Goto, TypeOK
  <2>. QED BY <1>0, <1>2, <2>1, PtrFrame DEF PtrInv
<1>3. ASSUME NEW k \in Calls, Import(k) PROVE PtrInv'
  <2>1. \A j \in Calls : j # k => PtrOf(j)'
    <3>1. /\ UNCHANGED <<epochs, execs, failed>>
          /\ \A j \in Calls : j # k => pc'[j] = pc[j] /\ ptr'[j] = ptr[j]
      BY <1>3 DEF Import, Goto, TypeOK
    <3>. QED BY <1>0, <3>1, PtrFrame DEF PtrInv
  <2>2. /\ ptr'[k]["name"] = <<"name", k>> /\ ptr'[k]["module"] = <<"module", interp>>
        /\ ptr'[k]["dict"] = <<"dict", interp>> /\ ptr'[k]["func"] = ptr[k]["func"]
        /\ ptr'[k]["args"] = ptr[k]["args"] /\ ptr'[k]["result"] = ptr[k]["result"]
    <3>1. ptr' = [ptr EXCEPT ![k]["name"] = <<"name", k>>, ![k]["module"] = <<"module", interp>>,
                             ![k]["dict"] = <<"dict", interp>>]
      BY <1>3 DEF Import
    <3>2. ptr'[k] = [ptr[k] EXCEPT !["name"] = <<"name", k>>, !["module"] = <<"module", interp>>,
                                   !["dict"] = <<"dict", interp>>]
      BY <3>1 DEF TypeOK
    <3>3. ptr[k] \in [Fields -> Pointers]
      BY DEF TypeOK
    <3>. QED BY <3>2, <3>3, FieldsAre
  <2>3. /\ UNCHANGED <<execs, failed, epochs>> /\ pc'[k] = "exec" /\ pc[k] = "initial"
        /\ interp # 0
    BY <1>3 DEF Import, Goto, TypeOK
  <2>4. PtrOf(k)'
    BY <1>0, <2>2, <2>3 DEF PtrInv, PtrOf
  <2>. QED BY <2>1, <2>4 DEF PtrInv
<1>4. ASSUME NEW k \in Calls, ImportRaises(k) PROVE PtrInv'
  <2>1. \A j \in Calls : j # k => PtrOf(j)'
    <3>. SUFFICES ASSUME NEW j \in Calls, j # k PROVE PtrOf(j)'
      OBVIOUS
    <3>1. /\ ptr'[j] = ptr[j] /\ execs'[j] = execs[j] /\ pc'[j] = pc[j] /\ epochs' = epochs
          /\ \A i : <<j, i>> \in failed' <=> <<j, i>> \in failed
      BY <1>4 DEF ImportRaises, Goto, TypeOK
    <3>. QED BY <1>0, <3>1, PtrFrame DEF PtrInv
  <2>2. /\ ptr'[k]["name"] = <<"name", k>> /\ ptr'[k]["module"] = NULL
        /\ ptr'[k]["dict"] = ptr[k]["dict"] /\ ptr'[k]["func"] = ptr[k]["func"]
        /\ ptr'[k]["args"] = ptr[k]["args"] /\ ptr'[k]["result"] = ptr[k]["result"]
        /\ UNCHANGED <<execs, epochs>> /\ failed' = failed \cup {<<k, 0>>}
        /\ pc'[k] = "exec" /\ pc[k] = "initial" /\ execs[k] \in Nat
    BY <1>4, FieldsAre DEF ImportRaises, Goto, TypeOK
  <2>3. PtrOf(k)'
    BY <1>0, <2>2 DEF PtrInv, PtrOf
  <2>. QED BY <2>1, <2>3 DEF PtrInv
<1>5. ASSUME NEW k \in Calls, ExecFindsNothing(k) PROVE PtrInv'
  <2>1. \A j \in Calls : j # k => PtrOf(j)'
    BY <1>0, <1>5, PtrFrame DEF ExecFindsNothing, Goto, PtrInv, TypeOK, history
  <2>2. /\ \A f \in Fields : f # "func" => ptr'[k][f] = ptr[k][f]
        /\ ptr'[k]["func"] \in {NONE, NULL} /\ UNCHANGED <<execs, failed, epochs>>
        /\ pc'[k] = "use" /\ pc[k] = "exec"
    BY <1>5, FieldsAre DEF ExecFindsNothing, Goto, TypeOK, history
  <2>3. PtrOf(k)'
    BY <1>0, <2>2, FieldsAre DEF PtrInv, PtrOf
  <2>. QED BY <2>1, <2>3 DEF PtrInv
<1>6. ASSUME NEW k \in Calls, Exec(k) \/ ExecRaises(k) PROVE PtrInv'
  <2>. DEFINE i == execs[k] + 1
  <2>1. /\ pc[k] = "exec" /\ pc'[k] = "use" /\ epochs' = epochs /\ interp # 0
        /\ execs'[k] = i /\ i \in Nat \ {0} /\ execs[k] \in Nat /\ interp \in Epochs
        /\ \A j \in Calls : j # k => /\ pc'[j] = pc[j] /\ execs'[j] = execs[j]
                                     /\ ptr'[j] = ptr[j]
    <3>1. pc[k] = "exec" /\ Found(k) /\ Goto(k, "use") /\ epochs' = epochs
      BY <1>6 DEF Exec, Called, ExecRaises
    <3>2. interp \in Epochs /\ interp # 0
      BY <3>1, DictFound, EpochsAre
    <3>3. /\ execs'[k] = i /\ i \in Nat \ {0} /\ execs[k] \in Nat
          /\ \A j \in Calls : j # k => execs'[j] = execs[j] /\ ptr'[j] = ptr[j]
      BY <1>6 DEF Exec, Called, ExecRaises, TypeOK
    <3>. QED BY <3>1, <3>2, <3>3 DEF Goto, TypeOK
  <2>2. \/ failed' = failed /\ ptr'[k]["result"] = <<"result", k, i>>
        \/ failed' = failed \cup {<<k, i>>} /\ ptr'[k]["result"] = NULL
    BY <1>6, FieldsAre DEF Exec, Called, ExecRaises, TypeOK
  <2>3. /\ ptr'[k]["name"] = ptr[k]["name"] /\ ptr'[k]["module"] = ptr[k]["module"]
        /\ ptr'[k]["dict"] = ptr[k]["dict"] /\ ptr'[k]["func"] = <<"func", interp>>
        /\ ptr'[k]["args"] = <<"args", k, i>>
    BY <1>6, FieldsAre DEF Exec, Called, ExecRaises, TypeOK
  <2>. HIDE DEF i
  <2>4. \A j \in Calls : j # k => PtrOf(j)'
    BY <1>0, <2>1, <2>2, PtrFrame DEF PtrInv
  <2>5. /\ \A n \in 0 .. MaxExec : <<k, n>> \in failed => n < i
        /\ ptr[k]["name"] \in {NULL, DUMMY, <<"name", k>>}
        /\ ptr[k]["module"] \in {NULL, DUMMY} \cup {<<"module", e>> : e \in 1 .. epochs}
        /\ ptr[k]["dict"] \in {DUMMY} \cup {<<"dict", e>> : e \in 1 .. epochs}
    <3>1. PtrOf(k)
      BY DEF PtrInv
    <3>2. \A n \in 0 .. MaxExec : <<k, n>> \in failed => n <= execs[k]
      BY <3>1 DEF PtrOf
    <3>3. \A n \in 0 .. MaxExec : n <= execs[k] => n < i
      BY <2>1 DEF i
    <3>. QED BY <2>1, <3>1, <3>2, <3>3 DEF PtrOf
  <2>6. <<k, i>> \notin failed
    <3>1. i \in 0 .. MaxExec
      BY <1>6, <2>1 DEF i, Exec, Called, ExecRaises
    <3>. QED BY <2>1, <2>5, <3>1
  <2>7. ptr'[k]["func"] \in {NULL, DUMMY, NONE} \cup {<<"func", e>> : e \in 1 .. epochs'}
    BY <1>0, <2>1, <2>3
  <2>8. \A n \in 0 .. MaxExec : <<k, n>> \in failed' => n <= i
    BY <2>1, <2>2, <2>5
  <2>9. ptr'[k]["result"] = IF <<k, i>> \in failed' THEN NULL ELSE <<"result", k, i>>
    BY <2>2, <2>6
  <2>10. PtrOf(k)'
    BY <2>1, <2>3, <2>5, <2>7, <2>8, <2>9 DEF PtrOf
  <2>. QED BY <2>4, <2>10 DEF PtrInv
<1>7. ASSUME NEW k \in Calls, NotInitialized(k) \/ ReadAnswer(k) \/ Finalize(k) PROVE PtrInv'
  <2>1. PICK l \in {"exec", "finalize", "decref"} : Goto(k, l)
    BY <1>7 DEF NotInitialized, ReadAnswer, Finalize
  <2>2. ptr' = ptr /\ execs' = execs /\ failed' = failed /\ epochs' = epochs /\ pc[k] # "new"
    BY <1>7 DEF NotInitialized, ReadAnswer, Finalize, history
  <2>. QED BY <1>2, <2>1, <2>2
<1>8. ASSUME NEW k \in Calls, NEW f \in Fields, NotCounted(k, f) \/ Release(k, f) \/ TestFreed(k, f)
      PROVE  PtrInv'
  <2>1. Test(k, f)
    BY <1>8 DEF NotCounted, Release, TestFreed
  <2>2. PICK l \in {"gone", "decref"} : Goto(k, l)
    BY <2>1 DEF Test
  <2>. QED BY <1>2, <2>1, <2>2 DEF Test
<1>9. CASE Die \/ UNCHANGED vars
  <2>1. UNCHANGED <<interp, epochs, count, mine, history>>
    BY <1>9 DEF Die, vars
  <2>2. UNCHANGED <<epochs, pc, ptr, execs, failed>>
    BY <2>1 DEF mine, history
  <2>. QED BY <2>2 DEF PtrInv, PtrOf
<1>. QED BY <1>1, <1>3, <1>4, <1>5, <1>6, <1>7, <1>8, <1>9, Deaths DEF Next, Call

LEMMA TodoStep ==
    ASSUME TypeOK, TodoInv, [Next]_vars
    PROVE  TodoInv'
<1>1. ASSUME NEW k \in Calls, NEW l, Goto(k, l), todo' = todo,
             l = pc[k] \/ (pc[k] \notin {"decref", "gone"} /\ l # "gone")
      PROVE  TodoInv'
    BY <1>1, SuffixRanges DEF Goto, TodoInv, TodoOf, TypeOK
<1>2. ASSUME NEW k \in Calls, Construct(k) \/ NotInitialized(k) \/ Import(k) \/ ImportRaises(k)
                                \/ ExecFindsNothing(k) \/ Exec(k) \/ ExecRaises(k) \/ Finalize(k)
      PROVE  TodoInv'
  <2>1. PICK l \in {"initial", "exec", "use", "decref"} : Goto(k, l)
    BY <1>2 DEF Construct, NotInitialized, Import, ImportRaises, ExecFindsNothing, Exec, Called,
                ExecRaises, Finalize
  <2>2. todo' = todo /\ pc[k] \notin {"decref", "gone"}
    BY <1>2 DEF Construct, NotInitialized, Import, ImportRaises, ExecFindsNothing, Exec, Called,
                ExecRaises, Finalize
  <2>. QED BY <1>1, <2>1, <2>2
<1>3. ASSUME NEW k \in Calls, ReadAnswer(k) PROVE TodoInv'
  <2>1. PICK l \in {"exec", "finalize"} : Goto(k, l)
    BY <1>3 DEF ReadAnswer
  <2>. QED BY <1>1, <1>3, <2>1 DEF ReadAnswer
<1>4. ASSUME NEW k \in Calls, NEW f \in Fields, Test(k, f) PROVE TodoInv'
  <2>1. todo[k] \in Suffixes \ {<<>>}
    BY <1>4 DEF Test, TodoInv, TodoOf
  <2>2. /\ todo'[k] = Tail(todo[k]) /\ pc'[k] = IF Len(todo[k]) = 1 THEN "gone" ELSE "decref"
        /\ \A j \in Calls : j # k => todo'[j] = todo[j] /\ pc'[j] = pc[j]
    BY <1>4 DEF Test, Goto, TypeOK
  <2>3. TodoOf(k)'
    BY <2>1, <2>2, SuffixSteps DEF TodoOf
  <2>. QED BY <2>2, <2>3 DEF TodoInv, TodoOf
<1>5. CASE Die \/ UNCHANGED vars
  <2>1. UNCHANGED <<interp, epochs, count, mine, history>>
    BY <1>5 DEF Die, vars
  <2>2. UNCHANGED <<pc, todo>>
    BY <2>1 DEF mine
  <2>. QED BY <2>2 DEF TodoInv, TodoOf
<1>6. ASSUME NEW k \in Calls, NEW f \in Fields, NotCounted(k, f) \/ Release(k, f) \/ TestFreed(k, f)
      PROVE  Test(k, f)
    BY <1>6 DEF NotCounted, Release, TestFreed
<1>. QED BY <1>2, <1>3, <1>4, <1>5, <1>6, Deaths DEF Next, Call
-------------------------------------------------------------------------------
\* The objects that a call makes for itself have as many counts as references, whatever
\* the other calls do: of its execs, the last is still in its members, and the others
\* are leaked.
Holds(k, f) == f \in Range(todo[k])
OwnOf(k) ==
    /\ count[<<"name", k>>] =
          IF ptr[k]["name"] = <<"name", k>> /\ Holds(k, "name") THEN 1 ELSE 0
    /\ \A i \in 1 .. MaxExec :
          /\ count[<<"args", k, i>>] =
                IF i < execs[k] \/ (i = execs[k] /\ Holds(k, "args")) THEN 1 ELSE 0
          /\ count[<<"result", k, i>>] =
                IF /\ i < execs[k] \/ (i = execs[k] /\ Holds(k, "result"))
                   /\ <<k, i>> \notin failed
                THEN 1 ELSE 0
OwnInv == \A k \in Calls : OwnOf(k)

\* The kinds of objects differ.
LEMMA KindsDiffer ==
    /\ \A j : <<"name", j>>[1] = "name" /\ <<"name", j>>[2] = j
    /\ \A j, i : <<"args", j, i>>[1] = "args" /\ <<"args", j, i>>[2] = j
    /\ \A j, i : <<"result", j, i>>[1] = "result" /\ <<"result", j, i>>[2] = j
    /\ \A e : /\ <<"module", e>>[1] = "module" /\ <<"dict", e>>[1] = "dict"
              /\ <<"func", e>>[1] = "func"
    OBVIOUS

\* What a member points to is of its kind.
LEMMA PtrKinds ==
    ASSUME PtrInv, NEW k \in Calls, pc[k] # "new", NEW f \in Fields, ptr[k][f] \in Objects
    PROVE  /\ ptr[k][f][1] = f
           /\ f \in {"name", "args", "result"} => ptr[k][f][2] = k
           /\ f = "name" => ptr[k][f] = <<"name", k>>
           /\ f = "args" => execs[k] # 0 /\ ptr[k][f] = <<"args", k, execs[k]>>
           /\ f = "result" => /\ execs[k] # 0 /\ <<k, execs[k]>> \notin failed
                              /\ ptr[k][f] = <<"result", k, execs[k]>>
<1>1. PtrOf(k) /\ ptr[k][f] \notin {NULL, DUMMY, NONE}
    BY NotObjects DEF PtrInv
<1>2. CASE f = "name"
    BY <1>1, <1>2, KindsDiffer DEF PtrOf
<1>3. CASE f = "module"
    BY <1>1, <1>3, KindsDiffer DEF PtrOf
<1>4. CASE f = "dict"
    BY <1>1, <1>4, KindsDiffer DEF PtrOf
<1>5. CASE f = "func"
    BY <1>1, <1>5, KindsDiffer DEF PtrOf
<1>6. CASE f = "args"
    BY <1>1, <1>6, KindsDiffer DEF PtrOf
<1>7. CASE f = "result"
  <2>1. execs[k] # 0 /\ <<k, execs[k]>> \notin failed
    BY <1>1, <1>7 DEF PtrOf
  <2>. QED BY <1>1, <1>7, <2>1, KindsDiffer DEF PtrOf
<1>. QED BY <1>2, <1>3, <1>4, <1>5, <1>6, <1>7, FieldsAre

\* The calls whose objects and members a step leaves alone.
LEMMA OwnFrame ==
    ASSUME OwnInv, NEW j \in Calls,
           \A o \in Objects : o[1] \in {"name", "args", "result"} /\ o[2] = j =>
              count'[o] = count[o],
           ptr'[j]["name"] = ptr[j]["name"], todo'[j] = todo[j], execs'[j] = execs[j],
           \A i \in 1 .. MaxExec : <<j, i>> \in failed' <=> <<j, i>> \in failed
    PROVE  OwnOf(j)'
<1>1. /\ count'[<<"name", j>>] = count[<<"name", j>>]
      /\ \A i \in 1 .. MaxExec : /\ count'[<<"args", j, i>>] = count[<<"args", j, i>>]
                                 /\ count'[<<"result", j, i>>] = count[<<"result", j, i>>]
    BY ObjectsAre, KindsDiffer
<1>. QED BY <1>1 DEF OwnInv, OwnOf, Holds

LEMMA OwnStep ==
    ASSUME TypeOK, PtrInv, TodoInv, OwnInv, [Next]_vars
    PROVE  OwnInv'
<1>1. ASSUME count' = count, todo' = todo, execs' = execs, failed' = failed,
             \A j \in Calls : ptr'[j]["name"] = ptr[j]["name"]
      PROVE  OwnInv'
    BY <1>1, OwnFrame DEF OwnInv
<1>2. ASSUME NEW k \in Calls, Construct(k) PROVE OwnInv'
  <2>1. /\ count' = count /\ todo' = todo /\ execs' = execs /\ failed' = failed
        /\ \A j \in Calls : j # k => ptr'[j] = ptr[j]
        /\ ptr[k]["name"] = NULL /\ ptr'[k]["name"] = DUMMY
    <3>1. ptr'[k]["name"] = DUMMY
      BY <1>2, FieldsAre DEF Construct, Zeroed, TypeOK
    <3>2. ptr[k]["name"] = NULL
      BY <1>2, FieldsAre DEF Construct, PtrInv, PtrOf
    <3>. QED BY <1>2, <3>1, <3>2 DEF Construct, TypeOK
  <2>2. ASSUME NEW j \in Calls, j # k PROVE OwnOf(j)'
    BY <2>1, <2>2, OwnFrame
  <2>3. <<"name", k>> \notin {NULL, DUMMY}
    BY ObjectsAre, NotObjects
  <2>4. OwnOf(k)'
    BY <2>1, <2>3 DEF OwnInv, OwnOf, Holds
  <2>. QED BY <2>2, <2>4 DEF OwnInv
<1>3. ASSUME NEW k \in Calls, NotInitialized(k) \/ ReadAnswer(k) PROVE OwnInv'
  <2>1. UNCHANGED <<count, todo, execs, failed, ptr>>
    BY <1>3 DEF NotInitialized, ReadAnswer, history
  <2>. QED BY <1>1, <2>1
<1>4. ASSUME NEW k \in Calls, ExecFindsNothing(k) PROVE OwnInv'
  <2>1. UNCHANGED <<count, todo, execs, failed>>
    BY <1>4 DEF ExecFindsNothing, history
  <2>2. \A j \in Calls : ptr'[j]["name"] = ptr[j]["name"]
    BY <1>4, FieldsAre DEF ExecFindsNothing, TypeOK
  <2>. QED BY <1>1, <2>1, <2>2
<1>5. ASSUME NEW k \in Calls, Import(k) \/ ImportRaises(k) PROVE OwnInv'
  <2>1. /\ UNCHANGED <<todo, execs>> /\ failed' \subseteq failed \cup {<<k, 0>>}
        /\ failed \subseteq failed' /\ pc[k] = "initial"
    BY <1>5 DEF Import, ImportRaises
  <2>2. \A o \in Objects : o # <<"name", k>> /\ o[1] \in {"name", "args", "result"} =>
           count'[o] = count[o]
    <3>. SUFFICES ASSUME NEW o \in Objects, o # <<"name", k>>,
                         o[1] \in {"name", "args", "result"}
                  PROVE  count'[o] = count[o]
      OBVIOUS
    <3>1. o \notin {<<"module", interp>>, <<"dict", interp>>, <<"func", interp>>}
      BY KindsDiffer
    <3>. QED BY <1>5, <3>1 DEF Import, ImportRaises, TypeOK
  <2>3. count'[<<"name", k>>] = 1
    <3>1. <<"name", k>> \in Objects
      BY ObjectsAre
    <3>. QED BY <1>5, <3>1 DEF Import, ImportRaises, TypeOK
  <2>4. ptr'[k]["name"] = <<"name", k>> /\ \A j \in Calls : j # k => ptr'[j] = ptr[j]
    BY <1>5, FieldsAre DEF Import, ImportRaises, TypeOK
  <2>5. ASSUME NEW j \in Calls, j # k PROVE OwnOf(j)'
    <3>1. \A o \in Objects : o[1] \in {"name", "args", "result"} /\ o[2] = j =>
             count'[o] = count[o]
      BY <2>2, <2>5, KindsDiffer
    <3>2. \A i \in 1 .. MaxExec : <<j, i>> \in failed' <=> <<j, i>> \in failed
      BY <2>1
    <3>. QED BY <2>1, <2>4, <2>5, <3>1, <3>2, OwnFrame
  <2>6. OwnOf(k)'
    <3>1. Holds(k, "name")'
      BY <2>1, SuffixRanges, FieldsAre DEF TodoInv, TodoOf, Holds
    <3>2. \A i \in 1 .. MaxExec : /\ count'[<<"args", k, i>>] = count[<<"args", k, i>>]
                                  /\ count'[<<"result", k, i>>] = count[<<"result", k, i>>]
                                  /\ <<k, i>> \in failed' <=> <<k, i>> \in failed
      <4>1. \A i \in 1 .. MaxExec : <<k, i>> \in failed' <=> <<k, i>> \in failed
        BY <2>1
      <4>. QED BY <2>2, <4>1, ObjectsAre, KindsDiffer
    <3>. QED BY <2>1, <2>3, <2>4, <3>1, <3>2 DEF OwnInv, OwnOf, Holds
  <2>. QED BY <2>5, <2>6 DEF OwnInv
<1>6. ASSUME NEW k \in Calls, Exec(k) \/ ExecRaises(k) PROVE OwnInv'
  <2>. DEFINE n == execs[k] + 1
  <2>1. /\ pc[k] = "exec" /\ n \in 1 .. MaxExec /\ execs'[k] = n /\ execs[k] \in Nat
        /\ todo' = todo /\ \A j \in Calls : j # k => execs'[j] = execs[j]
    BY <1>6 DEF Exec, Called, ExecRaises, TypeOK
  <2>2. /\ <<"args", k, n>> \in Objects /\ <<"result", k, n>> \in Objects
        /\ <<"args", k, n>> # <<"result", k, n>>
    BY <2>1, ObjectsAre, KindsDiffer
  <2>3. \/ /\ failed' = failed
           /\ count' = [count EXCEPT ![<<"args", k, n>>] = 1, ![<<"result", k, n>>] = 1]
        \/ failed' = failed \cup {<<k, n>>} /\ count' = [count EXCEPT ![<<"args", k, n>>] = 1]
    BY <1>6 DEF Exec, Called, ExecRaises
  <2>4. \A j \in Calls : ptr'[j]["name"] = ptr[j]["name"]
    <3>1. ASSUME NEW z, ptr' = [ptr EXCEPT ![k]["func"] = <<"func", interp>>,
                                           ![k]["args"] = <<"args", k, n>>, ![k]["result"] = z]
          PROVE  \A j \in Calls : ptr'[j]["name"] = ptr[j]["name"]
      <4>1. ptr \in [Calls -> [Fields -> Pointers]] /\ "name" \in Fields
        BY FieldsAre DEF TypeOK
      <4>2. /\ \A j \in Calls \ {k} : ptr'[j] = ptr[j]
            /\ ptr'[k] = [ptr[k] EXCEPT !["func"] = <<"func", interp>>,
                                        !["args"] = <<"args", k, n>>, !["result"] = z]
        BY <3>1, <4>1
      <4>. QED BY <4>1, <4>2
    <3>. QED BY <1>6, <3>1 DEF Exec, Called, ExecRaises
  <2>. HIDE DEF n
  <2>5. \A o \in Objects : o \notin {<<"args", k, n>>, <<"result", k, n>>} =>
           count'[o] = count[o]
    BY <2>3 DEF TypeOK
  <2>6. ASSUME NEW j \in Calls, j # k PROVE OwnOf(j)'
    <3>1. \A o \in Objects : o[1] \in {"name", "args", "result"} /\ o[2] = j =>
             count'[o] = count[o]
      BY <2>5, <2>6, KindsDiffer
    <3>2. \A i \in 1 .. MaxExec : <<j, i>> \in failed' <=> <<j, i>> \in failed
      BY <2>3, <2>6
    <3>. QED BY <2>1, <2>4, <2>6, <3>1, <3>2, OwnFrame
  <2>7. OwnOf(k)'
    <3>1. \A f \in Fields : Holds(k, f) /\ Holds(k, f)'
      BY <2>1, SuffixRanges DEF TodoInv, TodoOf, Holds
    <3>2. count'[<<"name", k>>] = count[<<"name", k>>]
      BY <2>5, ObjectsAre, KindsDiffer
    <3>6. /\ Holds(k, "name") /\ Holds(k, "args") /\ Holds(k, "result")
          /\ Holds(k, "name")' /\ Holds(k, "args")' /\ Holds(k, "result")'
      BY <3>1, FieldsAre
    <3>7. ASSUME NEW i \in 1 .. MaxExec
          PROVE  /\ count[<<"args", k, i>>] = IF i < n THEN 1 ELSE 0
                 /\ count[<<"result", k, i>>] = IF i < n /\ <<k, i>> \notin failed THEN 1 ELSE 0
      <4>1. i < execs[k] \/ i = execs[k] <=> i < n
        BY <2>1 DEF n
      <4>. QED BY <3>6, <4>1 DEF OwnInv, OwnOf
    <3>3. ASSUME NEW i \in 1 .. MaxExec
          PROVE  count'[<<"args", k, i>>] = IF i <= n THEN 1 ELSE 0
      <4>1. CASE i = n
        BY <2>2, <2>3, <4>1 DEF TypeOK
      <4>2. CASE i # n
        <5>1. count'[<<"args", k, i>>] = count[<<"args", k, i>>]
          BY <2>5, <4>2, ObjectsAre, KindsDiffer
        <5>2. i <= n <=> i < n
          BY <2>1, <4>2
        <5>. QED BY <3>7, <5>1, <5>2
      <4>. QED BY <4>1, <4>2
    <3>4. ASSUME NEW i \in 1 .. MaxExec
          PROVE  count'[<<"result", k, i>>] =
                    IF i <= n /\ <<k, i>> \notin failed' THEN 1 ELSE 0
      <4>1. count[<<"result", k, i>>] = IF i < n /\ <<k, i>> \notin failed THEN 1 ELSE 0
        BY <3>7
      <4>2. CASE i = n
        <5>1. <<k, n>> \notin failed
          <6>1. n \in 0 .. MaxExec /\ ~(n <= execs[k])
            BY <2>1 DEF n
          <6>. QED BY <6>1 DEF PtrInv, PtrOf
        <5>2. n \in Nat
          BY <2>1
        <5>3. CASE failed' = failed /\
                   count' = [count EXCEPT ![<<"args", k, n>>] = 1, ![<<"result", k, n>>] = 1]
          BY <2>2, <4>2, <5>1, <5>2, <5>3 DEF TypeOK
        <5>4. CASE failed' = failed \cup {<<k, n>>} /\
                   count' = [count EXCEPT ![<<"args", k, n>>] = 1]
          BY <2>2, <4>1, <4>2, <5>2, <5>4 DEF TypeOK
        <5>. QED BY <2>3, <5>3, <5>4
      <4>3. CASE i # n
        <5>1. count'[<<"result", k, i>>] = count[<<"result", k, i>>]
          BY <2>5, <4>3, ObjectsAre, KindsDiffer
        <5>2. <<k, i>> \in failed' <=> <<k, i>> \in failed
          BY <2>3, <4>3
        <5>. QED BY <2>1, <4>1, <4>3, <5>1, <5>2
      <4>. QED BY <4>2, <4>3
    <3>5. /\ ptr'[k]["name"] = ptr[k]["name"]
          /\ \A i \in 1 .. MaxExec : i <= n <=> i < n \/ i = n
      BY <2>1, <2>4
    <3>. QED BY <2>1, <3>2, <3>3, <3>4, <3>5, <3>6 DEF OwnInv, OwnOf
  <2>. QED BY <2>6, <2>7 DEF OwnInv
<1>7. ASSUME NEW k \in Calls, Finalize(k) PROVE OwnInv'
  <2>1. UNCHANGED <<ptr, todo, execs, failed>>
    BY <1>7 DEF Finalize
  <2>2. ASSUME NEW o \in Objects, o[1] \in {"name", "args", "result"}
        PROVE  count'[o] = count[o]
    <3>. DEFINE c == Drop(count, <<"func", interp>>)
    <3>1. /\ o \notin {<<"module", interp>>, <<"dict", interp>>, <<"func", interp>>}
          /\ count \in [Objects -> Nat]
      BY <2>2, KindsDiffer DEF TypeOK
    <3>2. ASSUME NEW x, o # x
          PROVE  Drop(count, x) \in [Objects -> Nat] /\ Drop(count, x)[o] = count[o]
      BY <3>1, <3>2, DropSteps
    <3>3. c \in [Objects -> Nat] /\ c[o] = count[o]
      BY <3>1, <3>2
    <3>. HIDE DEF c
    <3>4. DropModule(c, interp)[o] = c[o]
      BY <3>1, <3>3, DropModuleSteps
    <3>5. count' = count \/ count' = DropModule(c, interp)
      BY <1>7 DEF Finalize, c
    <3>. QED BY <3>3, <3>4, <3>5
  <2>3. \A j \in Calls : OwnOf(j)'
    BY <2>1, <2>2, OwnFrame
  <2>. QED BY <2>3 DEF OwnInv
<1>8. ASSUME NEW k \in Calls, NEW f \in Fields, Test(k, f),
             \/ ptr[k][f] \in {DUMMY, NONE} /\ count' = count
             \/ Freed(ptr[k][f]) /\ count' = count
             \/ Allocated(ptr[k][f]) /\ count' = Decref(count, ptr[k][f])
      PROVE  OwnInv'
  <2>1. /\ UNCHANGED <<ptr, execs, failed>> /\ pc[k] = "decref"
        /\ \A j \in Calls : j # k => todo'[j] = todo[j]
        /\ f = Head(todo[k]) /\ todo'[k] = Tail(todo[k]) /\ todo[k] \in Suffixes \ {<<>>}
    BY <1>8 DEF Test, TypeOK, TodoInv, TodoOf
  <2>0. ptr[k][f] \in Objects =>
           /\ ptr[k][f][1] = f
           /\ f \in {"name", "args", "result"} => ptr[k][f][2] = k
           /\ f = "name" => ptr[k][f] = <<"name", k>>
           /\ f = "args" => execs[k] # 0 /\ ptr[k][f] = <<"args", k, execs[k]>>
           /\ f = "result" => /\ execs[k] # 0 /\ <<k, execs[k]>> \notin failed
                              /\ ptr[k][f] = <<"result", k, execs[k]>>
    <3>1. pc[k] # "new"
      BY <2>1
    <3>. QED BY <3>1, PtrKinds
  <2>2. /\ \A g \in Fields : g # f => (Holds(k, g)' <=> Holds(k, g))
        /\ Holds(k, f) /\ ~Holds(k, f)'
    BY <2>1, SuffixSteps DEF Holds
  <2>3. ASSUME NEW o \in Objects, o[1] \in {"name", "args", "result"}, o # ptr[k][f]
        PROVE  count'[o] = count[o]
    <3>1. CASE count' = count
      BY <3>1
    <3>2. CASE Allocated(ptr[k][f]) /\ count' = Decref(count, ptr[k][f])
      <4>1. count \in [Objects -> Nat] /\ ptr[k][f] \in Objects
        BY <3>2 DEF TypeOK, Allocated
      <4>2. \A x \in Objects : x # ptr[k][f] /\ x[1] \notin {"module", "dict", "func"} =>
               Decref(count, ptr[k][f])[x] = count[x]
        BY <4>1, DecrefSteps
      <4>. QED BY <2>3, <3>2, <4>2
    <3>. QED BY <1>8, <3>1, <3>2
  <2>4. ASSUME NEW j \in Calls, j # k PROVE OwnOf(j)'
    <3>1. ASSUME NEW o \in Objects, o[1] \in {"name", "args", "result"}, o[2] = j
          PROVE  o # ptr[k][f]
      BY <2>0, <2>4, <3>1
    <3>2. \A o \in Objects : o[1] \in {"name", "args", "result"} /\ o[2] = j =>
             count'[o] = count[o]
      BY <2>3, <3>1
    <3>. QED BY <2>1, <2>4, <3>2, OwnFrame
  <2>5. ASSUME f \in {"name", "args", "result"}, ptr[k][f] \in Objects
        PROVE  count'[ptr[k][f]] = 0
    <3>. DEFINE o == ptr[k][f]
    <3>1. o[1] = f
      BY <2>0, <2>5
    <3>2. count[o] \in Nat /\ count[o] <= 1
      <4>1. OwnOf(k) /\ execs[k] \in 0 .. MaxExec /\ count[o] \in Nat
        BY <2>5 DEF OwnInv, TypeOK
      <4>2. CASE f = "name"
        <5>1. o = <<"name", k>>
          BY <2>0, <2>5, <4>2
        <5>. QED BY <4>1, <5>1 DEF OwnOf
      <4>3. CASE f = "args"
        <5>1. o = <<"args", k, execs[k]>> /\ execs[k] \in 1 .. MaxExec
          BY <2>0, <2>5, <4>1, <4>3
        <5>2. count[<<"args", k, execs[k]>>] \in {0, 1}
          BY <4>1, <5>1 DEF OwnOf
        <5>. QED BY <4>1, <5>1, <5>2
      <4>4. CASE f = "result"
        <5>1. o = <<"result", k, execs[k]>> /\ execs[k] \in 1 .. MaxExec
          BY <2>0, <2>5, <4>1, <4>4
        <5>2. count[<<"result", k, execs[k]>>] \in {0, 1}
          BY <4>1, <5>1 DEF OwnOf
        <5>. QED BY <4>1, <5>1, <5>2
      <4>. QED BY <2>5, <4>2, <4>3, <4>4
    <3>3. CASE Allocated(o) /\ count' = Decref(count, o)
      <4>1. Decref(count, o) = Drop(count, o)
        BY <2>5, <3>1 DEF Decref
      <4>2. Drop(count, o)[o] = IF count[o] = 0 THEN 0 ELSE count[o] - 1
        <5>1. count \in [Objects -> Nat]
          BY DEF TypeOK
        <5>. QED BY <2>5, <5>1, DropSteps
      <4>. QED BY <3>2, <3>3, <4>1, <4>2
    <3>4. CASE Freed(o) /\ count' = count
      BY <3>4 DEF Freed
    <3>5. o \notin {DUMMY, NONE}
      BY <2>5, NotObjects
    <3>. QED BY <1>8, <3>3, <3>4, <3>5
  <2>6. OwnOf(k)'
    <3>1. OwnOf(k) /\ PtrOf(k) /\ execs[k] \in 0 .. MaxExec
      BY DEF OwnInv, PtrInv, TypeOK
    <3>2. count'[<<"name", k>>] =
             IF ptr[k]["name"] = <<"name", k>> /\ Holds(k, "name")' THEN 1 ELSE 0
      <4>1. <<"name", k>> \in Objects /\ <<"name", k>>[1] = "name"
        BY ObjectsAre, KindsDiffer
      <4>2. CASE <<"name", k>> = ptr[k][f]
        <5>1. f = "name"
          BY <2>0, <4>1, <4>2, KindsDiffer
        <5>. QED BY <2>2, <2>5, <4>1, <4>2, <5>1
      <4>3. CASE <<"name", k>> # ptr[k][f]
        <5>1. count'[<<"name", k>>] = count[<<"name", k>>]
          BY <2>3, <4>1, <4>3
        <5>. QED BY <2>2, <3>1, <4>3, <5>1, FieldsAre DEF OwnOf
      <4>. QED BY <4>2, <4>3
    <3>3. ASSUME NEW i \in 1 .. MaxExec
          PROVE  count'[<<"args", k, i>>] =
                    IF i < execs[k] \/ (i = execs[k] /\ Holds(k, "args")') THEN 1 ELSE 0
      <4>1. <<"args", k, i>> \in Objects /\ <<"args", k, i>>[1] = "args"
        BY ObjectsAre, KindsDiffer
      <4>2. CASE <<"args", k, i>> = ptr[k][f]
        <5>1. f = "args" /\ <<"args", k, i>> = <<"args", k, execs[k]>>
          BY <2>0, <4>1, <4>2, KindsDiffer
        <5>2. i = execs[k]
          BY <5>1
        <5>. QED BY <2>2, <2>5, <4>1, <4>2, <5>1, <5>2
      <4>3. CASE <<"args", k, i>> # ptr[k][f]
        <5>1. count'[<<"args", k, i>>] = count[<<"args", k, i>>]
          BY <2>3, <4>1, <4>3
        <5>2. f = "args" => i # execs[k]
          BY <3>1, <4>3 DEF PtrOf
        <5>. QED BY <2>2, <3>1, <5>1, <5>2, FieldsAre DEF OwnOf
      <4>. QED BY <4>2, <4>3
    <3>4. ASSUME NEW i \in 1 .. MaxExec
          PROVE  count'[<<"result", k, i>>] =
                    IF /\ i < execs[k] \/ (i = execs[k] /\ Holds(k, "result")')
                       /\ <<k, i>> \notin failed
                    THEN 1 ELSE 0
      <4>1. <<"result", k, i>> \in Objects /\ <<"result", k, i>>[1] = "result"
        BY ObjectsAre, KindsDiffer
      <4>2. CASE <<"result", k, i>> = ptr[k][f]
        <5>1. f = "result" /\ <<"result", k, i>> = <<"result", k, execs[k]>>
          BY <2>0, <4>1, <4>2, KindsDiffer
        <5>2. i = execs[k]
          BY <5>1
        <5>. QED BY <2>2, <2>5, <4>1, <4>2, <5>1, <5>2
      <4>3. CASE <<"result", k, i>> # ptr[k][f]
        <5>1. count'[<<"result", k, i>>] = count[<<"result", k, i>>]
          BY <2>3, <4>1, <4>3
        <5>2. f = "result" /\ <<k, i>> \notin failed => i # execs[k]
          BY <3>1, <4>3 DEF PtrOf
        <5>. QED BY <2>2, <3>1, <5>1, <5>2, FieldsAre DEF OwnOf
      <4>. QED BY <4>2, <4>3
    <3>. QED BY <2>1, <3>2, <3>3, <3>4 DEF OwnOf
  <2>. QED BY <2>4, <2>6 DEF OwnInv
<1>9. ASSUME NEW k \in Calls, NEW f \in Fields, NotCounted(k, f) \/ Release(k, f) \/ TestFreed(k, f)
      PROVE  /\ Test(k, f)
             /\ \/ ptr[k][f] \in {DUMMY, NONE} /\ count' = count
                \/ Freed(ptr[k][f]) /\ count' = count
                \/ Allocated(ptr[k][f]) /\ count' = Decref(count, ptr[k][f])
    BY <1>9 DEF NotCounted, Release, TestFreed
<1>10. CASE Die \/ UNCHANGED vars
  <2>1. UNCHANGED <<interp, epochs, count, mine, history>>
    BY <1>10 DEF Die, vars
  <2>2. UNCHANGED <<count, ptr, todo, execs, failed>>
    BY <2>1 DEF mine, history
  <2>. QED BY <1>1, <2>2
<1>. QED BY <1>2, <1>3, <1>4, <1>5, <1>6, <1>7, <1>8, <1>9, <1>10, Deaths DEF Next, Call

LEMMA ResultsAreReadable ==
    ASSUME TypeOK, TodoInv, OwnInv
    PROVE  ResultsReadable
<1>. SUFFICES ASSUME NEW k \in Calls, pc[k] \notin {"decref", "gone"}, NEW i \in 1 .. execs[k],
                     <<k, i>> \notin failed
              PROVE  <<"result", k, i>> \in Objects /\ count[<<"result", k, i>>] > 0
    BY DEF ResultsReadable, Allocated
<1>1. i \in 1 .. MaxExec /\ (i < execs[k] \/ i = execs[k])
    BY DEF TypeOK
<1>2. Holds(k, "result")
    BY SuffixRanges, FieldsAre DEF TodoInv, TodoOf, Holds
<1>3. count[<<"result", k, i>>] = 1
    BY <1>1, <1>2 DEF OwnInv, OwnOf
<1>4. <<"result", k, i>> \in Objects
    BY <1>1, ObjectsAre
<1>. QED BY <1>3, <1>4
-------------------------------------------------------------------------------
\* What a call that has met no other one can rely on: the interpreter is its own, and
\* holds the module and the dictionary that it imported first.
Alone(k) == pc[k] \notin {"new", "gone"} /\ k \notin overlapped
AloneOf(k) ==
    /\ \A j \in Calls \ {k} :
          pc[j] \in {"new", "gone"} /\ ptr[j]["module"] # <<"module", epochs>>
    /\ pc[k] \in Before => interp = epochs /\ interp # 0
    /\ pc[k] = "initial" => ptr[k]["module"] = DUMMY
    /\ pc[k] \in {"exec", "use", "finalize"} /\ <<k, 0>> \notin failed =>
          /\ ptr[k]["module"] = <<"module", epochs>> /\ ptr[k]["dict"] = <<"dict", epochs>>
          /\ count[<<"dict", epochs>>] > 0
AloneInv == \A k \in Calls : Alone(k) => AloneOf(k)

\* Until it meets another one or Python raises, a call's m_result is that of its exec.
Clean(k) == k \notin overlapped /\ \A i \in 0 .. MaxExec : <<k, i>> \notin failed
AnswerOf(k) ==
    Clean(k) =>
        /\ answer[k] # "garbage"
        /\ pc[k] = "use" => execs[k] # 0 /\ m_result[k] = <<"result", k, execs[k]>>
AnswerInv == \A k \in Calls : AnswerOf(k)

\* Where a call that is under way moves, whether it was alone decides for all.
LEMMA AloneFrame ==
    ASSUME TypeOK, AloneInv, NEW k \in Calls, pc[k] \notin {"new", "gone"},
           \A j \in Calls \ {k} : pc'[j] = pc[j] /\ ptr'[j] = ptr[j],
           overlapped' = overlapped, epochs' = epochs,
           Alone(k) /\ AloneOf(k) /\ Alone(k)' =>
              /\ pc'[k] \in Before => interp' = epochs /\ interp' # 0
              /\ pc'[k] = "initial" => ptr'[k]["module"] = DUMMY
              /\ pc'[k] \in {"exec", "use", "finalize"} /\ <<k, 0>> \notin failed' =>
                    /\ ptr'[k]["module"] = <<"module", epochs>>
                    /\ ptr'[k]["dict"] = <<"dict", epochs>>
                    /\ count'[<<"dict", epochs>>] > 0
    PROVE  AloneInv'
<1>1. ASSUME NEW j \in Calls \ {k} PROVE ~Alone(j)'
    BY DEF AloneInv, AloneOf, Alone
<1>2. Alone(k)' => AloneOf(k)'
    BY DEF AloneInv, AloneOf, Alone
<1>. QED BY <1>1, <1>2 DEF AloneInv

LEMMA AloneStep ==
    ASSUME TypeOK, EpochInv, PtrInv, InterpreterEnded, AloneInv, [Next]_vars, TypeOK'
    PROVE  AloneInv'
<1>1. ASSUME NEW k \in Calls, Construct(k) PROVE AloneInv'
  <2>1. /\ pc[k] = "new" /\ pc'[k] = "initial" /\ \A j \in Calls \ {k} : pc'[j] = pc[j]
        /\ \A j \in Calls \ {k} : ptr'[j] = ptr[j]
    BY <1>1 DEF Construct, Goto, TypeOK
  <2>2. CASE Present = {}
    <3>1. \A j \in Calls : pc[j] \in {"new", "gone"}
      BY <2>2 DEF Present
    <3>2. interp = 0 /\ epochs \in Nat
      BY <3>1 DEF InterpreterEnded, EpochInv
    <3>3. interp' = epochs + 1 /\ epochs' = epochs + 1
      BY <1>1, <3>2 DEF Construct
    <3>4. \A j \in Calls \ {k} : ~Alone(j)'
      BY <2>1, <3>1 DEF Alone
    <3>5. \A j \in Calls \ {k} : ptr'[j]["module"] # <<"module", epochs'>>
      <4>1. \A e \in 1 .. epochs : e # epochs + 1
        BY <3>2
      <4>. SUFFICES ASSUME NEW j \in Calls \ {k}, ptr[j]["module"] = <<"module", epochs + 1>>
                    PROVE  FALSE
        BY <2>1, <3>3
      <4>2. <<"module", epochs + 1>> \in Objects
        <5>1. interp' \in {0} \cup Epochs
          BY DEF TypeOK
        <5>2. epochs + 1 \in Epochs
          BY <3>2, <3>3, <5>1
        <5>. QED BY <5>2, ObjectsAre
      <4>3. ptr[j]["module"] \in {<<"module", e>> : e \in 1 .. epochs}
        <5>1. ptr[j]["module"] \in {NULL, DUMMY} \cup {<<"module", e>> : e \in 1 .. epochs}
          BY DEF PtrInv, PtrOf
        <5>. QED BY <4>2, <5>1, NotObjects
      <4>. QED BY <4>1, <4>3
    <3>6. ptr'[k]["module"] = DUMMY
      BY <1>1, FieldsAre DEF Construct, Zeroed, TypeOK
    <3>7. AloneOf(k)'
      BY <2>1, <3>1, <3>2, <3>3, <3>5, <3>6 DEF AloneOf
    <3>. QED BY <3>4, <3>7 DEF AloneInv
  <2>3. CASE Present # {}
    <3>1. overlapped' = overlapped \cup Present \cup {k}
      BY <1>1, <2>3 DEF Construct
    <3>2. \A j \in Calls : ~Alone(j)'
      BY <2>1, <3>1 DEF Alone, Present
    <3>. QED BY <3>2 DEF AloneInv
  <2>. QED BY <2>2, <2>3
<1>2. ASSUME NEW k \in Calls, NotInitialized(k) PROVE AloneInv'
  <2>1. /\ pc[k] = "initial" /\ pc'[k] = "exec" /\ interp = 0
        /\ \A j \in Calls \ {k} : pc'[j] = pc[j]
        /\ UNCHANGED <<interp, epochs, ptr, overlapped>>
    BY <1>2 DEF NotInitialized, Goto, TypeOK, history
  <2>2. ~(Alone(k) /\ AloneOf(k))
    BY <2>1 DEF AloneOf, Before
  <2>. QED BY <2>1, <2>2, AloneFrame
<1>3. ASSUME NEW k \in Calls, Import(k) PROVE AloneInv'
  <2>1. /\ pc[k] = "initial" /\ pc'[k] = "exec" /\ interp \in Epochs
        /\ \A j \in Calls \ {k} : pc'[j] = pc[j] /\ ptr'[j] = ptr[j]
        /\ UNCHANGED <<interp, epochs, overlapped>>
    BY <1>3 DEF Import, Goto, TypeOK
  <2>2. ptr'[k]["module"] = <<"module", interp>> /\ ptr'[k]["dict"] = <<"dict", interp>>
    <3>1. ptr' = [ptr EXCEPT ![k]["name"] = <<"name", k>>, ![k]["module"] = <<"module", interp>>,
                             ![k]["dict"] = <<"dict", interp>>]
      BY <1>3 DEF Import
    <3>2. ptr'[k] = [ptr[k] EXCEPT !["name"] = <<"name", k>>, !["module"] = <<"module", interp>>,
                                   !["dict"] = <<"dict", interp>>]
      BY <3>1 DEF TypeOK
    <3>3. ptr[k] \in [Fields -> Pointers]
      BY DEF TypeOK
    <3>. QED BY <3>2, <3>3, FieldsAre
  <2>3. ASSUME AloneOf(k)
        PROVE  interp = epochs /\ interp # 0 /\ count'[<<"dict", epochs>>] > 0
    <3>1. interp = epochs /\ interp # 0 /\ ptr[k]["module"] = DUMMY
      BY <2>1, <2>3 DEF AloneOf, Before
    <3>2. ~Imported(interp)
      BY <2>3, <3>1, <2>1, ObjectsAre, NotObjects DEF AloneOf, Imported
    <3>3. <<"dict", interp>> \in Objects
      BY <2>1, ObjectsAre
    <3>4. count'[<<"dict", interp>>] = 1
      BY <1>3, <3>2, <3>3 DEF Import
    <3>. QED BY <3>1, <3>4
  <2>. QED BY <2>1, <2>2, <2>3, AloneFrame
<1>4. ASSUME NEW k \in Calls, ImportRaises(k) PROVE AloneInv'
  <2>1. /\ pc[k] = "initial" /\ pc'[k] = "exec" /\ <<k, 0>> \in failed'
        /\ \A j \in Calls \ {k} : pc'[j] = pc[j] /\ ptr'[j] = ptr[j]
        /\ UNCHANGED <<interp, epochs, overlapped>>
    BY <1>4 DEF ImportRaises, Goto, TypeOK
  <2>. QED BY <2>1, AloneFrame DEF AloneOf, Before
<1>5. ASSUME NEW k \in Calls, ExecFindsNothing(k) PROVE AloneInv'
  <2>1. /\ pc[k] = "exec" /\ pc'[k] = "use"
        /\ \A j \in Calls \ {k} : pc'[j] = pc[j] /\ ptr'[j] = ptr[j]
        /\ UNCHANGED <<interp, epochs, overlapped, failed, count>>
        /\ ptr'[k]["module"] = ptr[k]["module"] /\ ptr'[k]["dict"] = ptr[k]["dict"]
    BY <1>5, FieldsAre DEF ExecFindsNothing, Goto, TypeOK, history
  <2>. QED BY <2>1, AloneFrame DEF AloneOf, Before
<1>6. ASSUME NEW k \in Calls, Exec(k) \/ ExecRaises(k) PROVE AloneInv'
  <2>. DEFINE n == execs[k] + 1
  <2>1. /\ pc[k] = "exec" /\ pc'[k] = "use" /\ failed \subseteq failed'
        /\ \A j \in Calls \ {k} : pc'[j] = pc[j] /\ ptr'[j] = ptr[j]
        /\ UNCHANGED <<interp, epochs, overlapped>>
    BY <1>6 DEF Exec, Called, ExecRaises, Goto, TypeOK
  <2>2. ptr'[k]["module"] = ptr[k]["module"] /\ ptr'[k]["dict"] = ptr[k]["dict"]
    BY <1>6, FieldsAre DEF Exec, Called, ExecRaises, TypeOK
  <2>3. \A e \in Epochs : count'[<<"dict", e>>] = count[<<"dict", e>>]
    <3>. SUFFICES ASSUME NEW e \in Epochs PROVE count'[<<"dict", e>>] = count[<<"dict", e>>]
      OBVIOUS
    <3>. DEFINE o == <<"dict", e>>
    <3>1. o \in Objects /\ o[1] = "dict" /\ <<"args", k, n>>[1] = "args"
          /\ <<"result", k, n>>[1] = "result"
      BY ObjectsAre
    <3>2. o # <<"args", k, n>> /\ o # <<"result", k, n>>
      BY <3>1
    <3>. HIDE DEF o
    <3>3. count'[o] = count[o]
      BY <1>6, <3>1, <3>2 DEF Exec, Called, ExecRaises, TypeOK
    <3>. QED BY <3>3 DEF o
  <2>4. interp = epochs /\ interp # 0 => epochs \in Epochs
    BY DEF TypeOK
  <2>. QED BY <2>1, <2>2, <2>3, <2>4, AloneFrame DEF AloneOf, Before
<1>7. ASSUME NEW k \in Calls, ReadAnswer(k) PROVE AloneInv'
  <2>1. /\ pc[k] = "use" /\ pc'[k] \in {"exec", "finalize"}
        /\ \A j \in Calls \ {k} : pc'[j] = pc[j]
        /\ UNCHANGED <<interp, epochs, ptr, overlapped, failed, count>>
    BY <1>7 DEF ReadAnswer, Goto, TypeOK, history
  <2>. QED BY <2>1, AloneFrame DEF AloneOf, Before
<1>8. ASSUME NEW k \in Calls, Finalize(k) PROVE AloneInv'
  <2>1. /\ pc[k] = "finalize" /\ pc'[k] = "decref" /\ \A j \in Calls \ {k} : pc'[j] = pc[j]
        /\ UNCHANGED <<epochs, ptr, overlapped>>
    BY <1>8 DEF Finalize, Goto, TypeOK
  <2>. QED BY <2>1, AloneFrame DEF AloneOf, Before
<1>9. ASSUME NEW k \in Calls, NEW f \in Fields, Test(k, f) PROVE AloneInv'
  <2>1. /\ pc[k] = "decref" /\ pc'[k] \in {"decref", "gone"}
        /\ \A j \in Calls \ {k} : pc'[j] = pc[j]
        /\ UNCHANGED <<epochs, ptr, overlapped>>
    BY <1>9 DEF Test, Goto, TypeOK
  <2>. QED BY <2>1, AloneFrame DEF AloneOf, Before
<1>10. ASSUME NEW k \in Calls, NEW f \in Fields, NotCounted(k, f) \/ Release(k, f) \/ TestFreed(k, f)
       PROVE  Test(k, f)
    BY <1>10 DEF NotCounted, Release, TestFreed
<1>11. CASE Die \/ UNCHANGED vars
  <2>1. UNCHANGED <<interp, epochs, count, mine, history>>
    BY <1>11 DEF Die, vars
  <2>2. UNCHANGED <<interp, epochs, count, pc, ptr, overlapped, failed>>
    BY <2>1 DEF mine, history
  <2>. QED BY <2>2 DEF AloneInv, Alone, AloneOf
<1>. QED BY <1>1, <1>2, <1>3, <1>4, <1>5, <1>6, <1>7, <1>8, <1>9, <1>10, <1>11, Deaths DEF Next, Call

\* A step that moves k to no use of an answer, or leaves all calls where they are.
LEMMA AnswerFrame ==
    ASSUME AnswerInv, NEW k \in Calls, pc'[k] # "use" \/ ~Clean(k)',
           answer' = answer, overlapped \subseteq overlapped', failed \subseteq failed',
           \A j \in Calls \ {k} : /\ pc'[j] = pc[j] /\ execs'[j] = execs[j]
                                  /\ m_result'[j] = m_result[j]
    PROVE  AnswerInv'
<1>1. \A j \in Calls : Clean(j)' => Clean(j)
    BY DEF Clean
<1>2. ASSUME NEW j \in Calls \ {k} PROVE AnswerOf(j)'
    BY <1>1 DEF AnswerInv, AnswerOf
<1>3. AnswerOf(k)'
    BY <1>1 DEF AnswerInv, AnswerOf
<1>. QED BY <1>2, <1>3 DEF AnswerInv

LEMMA AnswerStep ==
    ASSUME TypeOK, PtrInv, ResultsReadable, AloneInv, AnswerInv, [Next]_vars
    PROVE  AnswerInv'
<1>1. ASSUME NEW k \in Calls, Construct(k) \/ NotInitialized(k) \/ Import(k) \/ ImportRaises(k)
                                \/ Finalize(k)
      PROVE  AnswerInv'
  <2>1. PICK l \in {"initial", "exec", "decref"} : Goto(k, l)
    BY <1>1 DEF Construct, NotInitialized, Import, ImportRaises, Finalize
  <2>2. UNCHANGED <<answer, execs, m_result>>
    BY <1>1 DEF Construct, NotInitialized, Import, ImportRaises, Finalize
  <2>3. overlapped \subseteq overlapped' /\ failed \subseteq failed'
    BY <1>1 DEF Construct, NotInitialized, Import, ImportRaises, Finalize, history
  <2>4. pc'[k] # "use" /\ \A j \in Calls \ {k} : pc'[j] = pc[j]
    BY <2>1 DEF Goto, TypeOK
  <2>. QED BY <2>2, <2>3, <2>4, AnswerFrame
<1>2. ASSUME NEW k \in Calls, ExecFindsNothing(k) PROVE AnswerInv'
  <2>1. /\ pc[k] = "exec" /\ UNCHANGED <<answer, execs, m_result, overlapped, failed>>
        /\ \A j \in Calls \ {k} : pc'[j] = pc[j]
    BY <1>2 DEF ExecFindsNothing, Goto, TypeOK, history
  <2>2. ~Clean(k)
    <3>. SUFFICES ASSUME Clean(k) PROVE FALSE
      OBVIOUS
    <3>1. k \notin overlapped /\ <<k, 0>> \notin failed
      BY DEF Clean
    <3>2. /\ ptr[k]["dict"] = <<"dict", epochs>> /\ count[<<"dict", epochs>>] > 0
          /\ interp = epochs /\ interp # 0
      BY <2>1, <3>1 DEF AloneInv, Alone, AloneOf, Before
    <3>3. <<"dict", epochs>> \in Objects
      BY <3>2, ObjectsAre DEF TypeOK
    <3>4. Found(k)
      BY <3>2, <3>3 DEF Found, Dict, Allocated
    <3>. QED BY <1>2, <3>4 DEF ExecFindsNothing
  <2>. QED BY <2>1, <2>2, AnswerFrame DEF Clean
<1>3. ASSUME NEW k \in Calls, Exec(k) PROVE AnswerInv'
  <2>1. /\ pc[k] = "exec" /\ UNCHANGED <<answer, overlapped, failed>>
        /\ \A j \in Calls \ {k} : /\ pc'[j] = pc[j] /\ execs'[j] = execs[j]
                                  /\ m_result'[j] = m_result[j]
        /\ execs'[k] = execs[k] + 1 /\ execs[k] \in Nat
        /\ m_result'[k] = <<"result", k, execs[k] + 1>>
    BY <1>3 DEF Exec, Called, Goto, TypeOK
  <2>2. \A j \in Calls : AnswerOf(j)'
    BY <2>1 DEF AnswerInv, AnswerOf, Clean
  <2>. QED BY <2>2 DEF AnswerInv
<1>4. ASSUME NEW k \in Calls, ExecRaises(k) PROVE AnswerInv'
  <2>1. /\ execs[k] + 1 \in 0 .. MaxExec /\ UNCHANGED <<answer, overlapped, m_result>>
        /\ failed' = failed \cup {<<k, execs[k] + 1>>}
        /\ \A j \in Calls \ {k} : pc'[j] = pc[j] /\ execs'[j] = execs[j]
    BY <1>4 DEF ExecRaises, Goto, TypeOK
  <2>2. ~Clean(k)'
    BY <2>1 DEF Clean
  <2>. QED BY <2>1, <2>2, AnswerFrame
<1>5. ASSUME NEW k \in Calls, ReadAnswer(k) PROVE AnswerInv'
  <2>1. /\ pc[k] = "use" /\ pc'[k] # "use" /\ UNCHANGED <<execs, m_result, overlapped, failed>>
        /\ \A j \in Calls \ {k} : pc'[j] = pc[j] /\ answer'[j] = answer[j]
    BY <1>5 DEF ReadAnswer, Goto, TypeOK, history
  <2>2. ASSUME Clean(k) PROVE answer'[k] = "own"
    <3>1. execs[k] # 0 /\ m_result[k] = <<"result", k, execs[k]>>
      BY <2>1, <2>2 DEF AnswerInv, AnswerOf
    <3>2. execs[k] \in 1 .. execs[k] /\ execs[k] \in 0 .. MaxExec
      BY <3>1 DEF TypeOK
    <3>3. <<k, execs[k]>> \notin failed
      BY <2>2, <3>2 DEF Clean
    <3>4. Allocated(m_result[k])
      BY <2>1, <3>1, <3>2, <3>3 DEF ResultsReadable
    <3>5. ptr[k]["result"] = m_result[k]
      BY <3>1, <3>3 DEF PtrInv, PtrOf
    <3>. QED BY <1>5, <3>4, <3>5 DEF ReadAnswer, TypeOK
  <2>3. \A j \in Calls : Clean(j)' <=> Clean(j)
    BY <2>1 DEF Clean
  <2>4. AnswerOf(k)'
    BY <2>1, <2>2, <2>3 DEF AnswerOf
  <2>5. \A j \in Calls \ {k} : AnswerOf(j)'
    BY <2>1, <2>3 DEF AnswerInv, AnswerOf
  <2>. QED BY <2>4, <2>5 DEF AnswerInv
<1>6. ASSUME NEW k \in Calls, NEW f \in Fields, Test(k, f), failed' = failed PROVE AnswerInv'
  <2>1. /\ pc'[k] # "use" /\ \A j \in Calls \ {k} : pc'[j] = pc[j]
        /\ UNCHANGED <<answer, execs, m_result, overlapped>>
    BY <1>6 DEF Test, Goto, TypeOK
  <2>. QED BY <1>6, <2>1, AnswerFrame
<1>7. ASSUME NEW k \in Calls, NEW f \in Fields, NotCounted(k, f) \/ Release(k, f) \/ TestFreed(k, f)
      PROVE  Test(k, f) /\ failed' = failed
    BY <1>7 DEF NotCounted, Release, TestFreed, Test
<1>8. CASE Die \/ UNCHANGED vars
  <2>1. UNCHANGED <<interp, epochs, count, mine, history>>
    BY <1>8 DEF Die, vars
  <2>2. UNCHANGED <<pc, answer, execs, m_result, overlapped, failed>>
    BY <2>1 DEF mine, history
  <2>. QED BY <2>2 DEF AnswerInv, AnswerOf, Clean
<1>. QED BY <1>1, <1>2, <1>3, <1>4, <1>5, <1>6, <1>7, <1>8, Deaths DEF Next, Call

LEMMA EndedStep ==
    ASSUME TypeOK, InterpreterEnded, [Next]_vars
    PROVE  InterpreterEnded'
<1>. USE DEF InterpreterEnded
<1>1. ASSUME NEW k \in Calls, NEW l, Goto(k, l), interp' = interp,
             l \in Before \/ pc[k] \notin Before
      PROVE  InterpreterEnded'
    BY <1>1 DEF Goto, Before, TypeOK
<1>2. ASSUME NEW k \in Calls, Construct(k) \/ Finalize(k) PROVE InterpreterEnded'
    BY <1>2 DEF Construct, Finalize, Goto, TypeOK
<1>3. ASSUME NEW k \in Calls, NotInitialized(k) \/ Import(k) \/ ImportRaises(k)
                                \/ ExecFindsNothing(k) \/ Exec(k) \/ ExecRaises(k)
      PROVE  InterpreterEnded'
  <2>1. interp' = interp /\ (Goto(k, "exec") \/ Goto(k, "use"))
    BY <1>3 DEF NotInitialized, Import, ImportRaises, ExecFindsNothing, Exec, Called, ExecRaises
  <2>. QED BY <1>1, <2>1 DEF Before
<1>4. ASSUME NEW k \in Calls, ReadAnswer(k) PROVE InterpreterEnded'
  <2>1. PICK l \in {"exec", "finalize"} : Goto(k, l)
    BY <1>4 DEF ReadAnswer
  <2>. QED BY <1>1, <1>4, <2>1 DEF ReadAnswer, Before
<1>5. ASSUME NEW k \in Calls, NEW f \in Fields, Test(k, f) PROVE InterpreterEnded'
  <2>1. pc[k] \notin Before
    BY <1>5 DEF Test, Before
  <2>. QED BY <1>1, <1>5, <2>1 DEF Test
<1>6. ASSUME NEW k \in Calls, NEW f \in Fields, NotCounted(k, f) \/ Release(k, f) \/ TestFreed(k, f)
      PROVE  Test(k, f)
    BY <1>6 DEF NotCounted, Release, TestFreed
<1>7. CASE Die \/ UNCHANGED vars
    BY <1>7 DEF Die, vars, mine
<1>. QED BY <1>2, <1>3, <1>4, <1>5, <1>6, <1>7, Deaths DEF Next, Call
-------------------------------------------------------------------------------
\* As long as the calls follow one another, what an interpreter holds has as many counts
\* as references: a module one for the call that imported it and one for sys.modules,
\* which Py_Finalize empties.
Owner(k, e) == ptr[k]["module"] = <<"module", e>> /\ Holds(k, "module")
Lives(e) == interp = e /\ Imported(e)
SharedOf(e) ==
    /\ count[<<"module", e>>] = (IF \E k \in Calls : Owner(k, e) THEN 1 ELSE 0)
                                  + (IF Lives(e) THEN 1 ELSE 0)
    /\ count[<<"dict", e>>] = IF count[<<"module", e>>] > 0 THEN 1 ELSE 0
    /\ count[<<"func", e>>] = IF Lives(e) THEN 1 ELSE 0
Shared == \A e \in Epochs : SharedOf(e)
SharedInv == overlapped = {} => Shared /\ ~broken

LEMMA OwnsAre ==
    ASSUME PtrInv, NEW k \in Calls, NEW o \in Objects
    PROVE  Owns(k, o) <=> /\ o[1] \in {"name", "module", "args", "result"}
                          /\ ptr[k][o[1]] = o /\ Holds(k, o[1])
<1>1. CASE pc[k] = "new"
  <2>1. \A f \in Fields : ptr[k][f] # o
    BY <1>1, NotObjects DEF PtrInv, PtrOf
  <2>. QED BY <2>1, FieldsAre DEF Owns
<1>2. CASE pc[k] # "new"
  <2>1. ASSUME NEW f \in Fields, ptr[k][f] = o PROVE o[1] = f
    BY <1>2, <2>1, PtrKinds
  <2>. QED BY <2>1, FieldsAre DEF Owns, Holds
<1>. QED BY <1>1, <1>2

\* A call that has not begun or has gone owns no module.
LEMMA OwnerPresent ==
    ASSUME PtrInv, TodoInv, NEW k \in Calls, NEW e \in Epochs, Owner(k, e)
    PROVE  pc[k] \notin {"new", "gone"}
<1>1. pc[k] # "new"
    BY ObjectsAre, NotObjects, FieldsAre DEF Owner, PtrInv, PtrOf
<1>2. pc[k] # "gone"
    BY SuffixRanges DEF Owner, Holds, TodoInv, TodoOf
<1>. QED BY <1>1, <1>2

LEMMA ExactWhen ==
    TypeOK /\ PtrInv /\ TodoInv /\ OwnInv /\ AloneInv /\ overlapped = {} /\ Shared => Exact
<1>. SUFFICES ASSUME TypeOK, PtrInv, TodoInv, OwnInv, AloneInv, overlapped = {}, Shared,
                     NEW o \in Objects
              PROVE  count[o] = Holders(o)
    BY DEF Exact
<1>1. ASSUME NEW e \in Epochs, o = <<"module", e>> PROVE count[o] = Holders(o)
  <2>. DEFINE K == {k \in Calls : Owns(k, o)}
  <2>1. \A k \in Calls : k \in K <=> Owner(k, e)
    BY <1>1, OwnsAre, KindsDiffer DEF Owner
  <2>2. \A j, k \in K : j = k
    <3>1. \A k \in K : Alone(k)
      BY <2>1, OwnerPresent DEF Alone
    <3>. QED BY <3>1 DEF AloneInv, AloneOf, Alone
  <2>3. Cardinality(K) = IF \E k \in Calls : Owner(k, e) THEN 1 ELSE 0
    <3>1. CASE \E k \in Calls : Owner(k, e)
      <4>1. PICK k \in Calls : Owner(k, e)
        BY <3>1
      <4>2. K = {k}
        BY <2>1, <2>2, <4>1
      <4>. QED BY <3>1, <4>2, FS_Singleton
    <3>2. CASE ~\E k \in Calls : Owner(k, e)
      <4>1. K = {}
        BY <2>1, <3>2
      <4>. QED BY <3>2, <4>1, FS_EmptySet
    <3>. QED BY <3>1, <3>2
  <2>4. Holders(o) = Cardinality(K) + (IF Lives(e) THEN 1 ELSE 0)
    BY <1>1 DEF Holders, Lives
  <2>. QED BY <1>1, <2>3, <2>4 DEF Shared, SharedOf
<1>2. ASSUME NEW e \in Epochs, o = <<"dict", e>> PROVE count[o] = Holders(o)
    BY <1>2 DEF Holders, Shared, SharedOf
<1>3. ASSUME NEW e \in Epochs, o = <<"func", e>> PROVE count[o] = Holders(o)
    BY <1>3 DEF Holders, Shared, SharedOf, Lives
<1>4. ASSUME NEW k \in Calls, o = <<"name", k>> PROVE count[o] = Holders(o)
  <2>1. Owns(k, o) <=> ptr[k]["name"] = <<"name", k>> /\ Holds(k, "name")
    BY <1>4, OwnsAre, KindsDiffer
  <2>2. Holders(o) = IF Owns(k, o) THEN 1 ELSE 0
    BY <1>4 DEF Holders
  <2>. QED BY <1>4, <2>1, <2>2 DEF OwnInv, OwnOf
<1>5. ASSUME NEW k \in Calls, NEW i \in 1 .. MaxExec, o = <<"args", k, i>>
      PROVE  count[o] = Holders(o)
  <2>1. Owns(k, o) <=> ptr[k]["args"] = <<"args", k, i>> /\ Holds(k, "args")
    BY <1>5, OwnsAre, KindsDiffer
  <2>2. ptr[k]["args"] = <<"args", k, i>> <=> i = execs[k]
    <3>1. PtrOf(k) /\ i # 0
      BY DEF PtrInv
    <3>2. CASE execs[k] = 0
      <4>1. ptr[k]["args"] \in {NULL, DUMMY}
        BY <3>1, <3>2 DEF PtrOf
      <4>. QED BY <1>5, <3>1, <3>2, <4>1, NotObjects
    <3>3. CASE execs[k] # 0
      <4>1. ptr[k]["args"] = <<"args", k, execs[k]>>
        BY <3>1, <3>3 DEF PtrOf
      <4>. QED BY <3>3, <4>1
    <3>. QED BY <3>2, <3>3
  <2>3. Holders(o) = IF Owns(k, o) \/ i < execs[k] THEN 1 ELSE 0
    BY <1>5 DEF Holders
  <2>. QED BY <1>5, <2>1, <2>2, <2>3 DEF OwnInv, OwnOf
<1>6. ASSUME NEW k \in Calls, NEW i \in 1 .. MaxExec, o = <<"result", k, i>>
      PROVE  count[o] = Holders(o)
  <2>1. Owns(k, o) <=> ptr[k]["result"] = <<"result", k, i>> /\ Holds(k, "result")
    BY <1>6, OwnsAre, KindsDiffer
  <2>2. ptr[k]["result"] = <<"result", k, i>> <=> i = execs[k] /\ <<k, i>> \notin failed
    <3>1. PtrOf(k) /\ i # 0
      BY DEF PtrInv
    <3>2. CASE execs[k] = 0
      <4>1. ptr[k]["result"] \in {NULL, DUMMY}
        BY <3>1, <3>2 DEF PtrOf
      <4>. QED BY <1>6, <3>1, <3>2, <4>1, NotObjects
    <3>3. CASE execs[k] # 0 /\ <<k, execs[k]>> \in failed
      <4>1. ptr[k]["result"] = NULL
        BY <3>1, <3>3 DEF PtrOf
      <4>. QED BY <1>6, <3>3, <4>1, NotObjects
    <3>4. CASE execs[k] # 0 /\ <<k, execs[k]>> \notin failed
      <4>1. ptr[k]["result"] = <<"result", k, execs[k]>>
        BY <3>1, <3>4 DEF PtrOf
      <4>. QED BY <3>4, <4>1
    <3>. QED BY <3>2, <3>3, <3>4
  <2>3. Holders(o) = IF Owns(k, o) \/ (i < execs[k] /\ <<k, i>> \notin failed) THEN 1 ELSE 0
    BY <1>6 DEF Holders
  <2>. QED BY <1>6, <2>1, <2>2, <2>3 DEF OwnInv, OwnOf
<1>. QED BY <1>1, <1>2, <1>3, <1>4, <1>5, <1>6, ObjectsAre

\* A step that leaves an interpreter's counts and who refers to it as they were.
LEMMA SharedFrame ==
    ASSUME NEW e \in Epochs, SharedOf(e),
           count'[<<"module", e>>] = count[<<"module", e>>],
           count'[<<"dict", e>>] = count[<<"dict", e>>],
           count'[<<"func", e>>] = count[<<"func", e>>],
           \A j \in Calls : Owner(j, e)' <=> Owner(j, e),
           Lives(e)' <=> Lives(e)
    PROVE  SharedOf(e)'
    BY DEF SharedOf

LEMMA SharedStep ==
    ASSUME TypeOK, EpochInv, PtrInv, TodoInv, OwnInv, AloneInv, InterpreterEnded, SharedInv,
           [Next]_vars,
           TypeOK', PtrInv', TodoInv', OwnInv', AloneInv'
    PROVE  SharedInv'
<1>. SUFFICES ASSUME overlapped' = {} PROVE (Shared /\ ~broken)'
    BY DEF SharedInv
<1>0. ASSUME NEW k \in Calls, Call(k) PROVE overlapped \subseteq overlapped'
    BY <1>0 DEF Call, Construct, NotInitialized, Import, ImportRaises, ExecDies, ExecFindsNothing,
                Exec, Called, ExecRaises, ReadAnswer, ReadDies, Finalize, NotCounted, Release,
                TestFreed, TestDies, Test, Die, history
<1>1. overlapped = {} /\ Shared /\ ~broken
  <2>1. CASE Die \/ UNCHANGED vars
    BY <2>1 DEF Die, vars, history, SharedInv
  <2>2. CASE \E k \in Calls : Call(k)
    BY <1>0, <2>2 DEF SharedInv
  <2>. QED BY <2>1, <2>2, Deaths DEF Next
<1>2. /\ count \in [Objects -> Nat]
      /\ \A e \in Epochs : /\ <<"module", e>> \in Objects /\ <<"dict", e>> \in Objects
                           /\ <<"func", e>> \in Objects /\ e # 0
    BY ObjectsAre, EpochsAre DEF TypeOK
<1>3. (TypeOK /\ PtrInv /\ TodoInv /\ OwnInv /\ AloneInv /\ overlapped = {} /\ Shared => Exact)'
    BY ExactWhen, PTL
<1>4. Shared' => Exact'
    BY <1>3
\* A step in which no count of an interpreter and no one's module changes.
<1>5. ASSUME interp' = interp,
             \A o \in Objects : o[1] \in {"module", "dict", "func"} => count'[o] = count[o],
             \A j \in Calls, e \in Epochs :
                /\ ptr'[j]["module"] = <<"module", e>> <=> ptr[j]["module"] = <<"module", e>>
                /\ Owner(j, e)' <=> Owner(j, e)
      PROVE  Shared'
  <2>. SUFFICES ASSUME NEW e \in Epochs PROVE SharedOf(e)'
    BY DEF Shared
  <2>1. Lives(e)' <=> Lives(e)
    BY <1>5 DEF Lives, Imported
  <2>. QED BY <1>1, <1>2, <1>5, <2>1, KindsDiffer, SharedFrame DEF Shared
<1>6. ASSUME NEW k \in Calls, Construct(k) PROVE (Shared /\ ~broken)'
  <2>1. /\ Present = {} /\ UNCHANGED <<count, todo, broken>> /\ pc'[k] = "initial"
        /\ ptr'[k]["module"] = DUMMY /\ ptr[k]["module"] = NULL
        /\ \A j \in Calls \ {k} : ptr'[j] = ptr[j]
    <3>1. ptr'[k]["module"] = DUMMY
      BY <1>6, FieldsAre DEF Construct, Zeroed, TypeOK
    <3>2. ptr[k]["module"] = NULL
      BY <1>6, FieldsAre DEF Construct, PtrInv, PtrOf
    <3>. QED BY <1>6, <3>1, <3>2 DEF Construct, Goto, TypeOK
  <2>2. interp = 0
    BY <2>1 DEF Present, InterpreterEnded
  <2>3. AloneOf(k)'
    BY <2>1 DEF AloneInv, Alone
  <2>4. ASSUME NEW e \in Epochs PROVE SharedOf(e)'
    <3>1. \A j \in Calls : ptr'[j]["module"] = <<"module", e>> <=> ptr[j]["module"] = <<"module", e>>
      BY <1>2, <2>1, NotObjects
    <3>2. ~Lives(e)
      BY <1>2, <2>2 DEF Lives
    <3>3. ~Lives(e)'
      <4>. SUFFICES ASSUME interp' = e, Imported(e)' PROVE FALSE
        BY DEF Lives
      <4>1. interp' = epochs'
        BY <2>1, <2>3 DEF AloneOf, Before
      <4>2. \A j \in Calls : ptr'[j]["module"] # <<"module", e>>
        BY <1>2, <2>1, <2>3, <4>1, NotObjects DEF AloneOf
      <4>. QED BY <4>2 DEF Imported
    <3>4. \A j \in Calls : Owner(j, e)' <=> Owner(j, e)
      BY <2>1, <3>1 DEF Owner, Holds
    <3>. QED BY <1>1, <2>1, <3>2, <3>3, <3>4, SharedFrame DEF Shared
  <2>. QED BY <1>1, <2>1, <2>4 DEF Shared
\* Where the call that steps is: alone, in its own interpreter or past it.
<1>7. ASSUME NEW k \in Calls, pc[k] \notin {"new", "gone"}
      PROVE  /\ \A j \in Calls \ {k} :
                   pc[j] \in {"new", "gone"} /\ ptr[j]["module"] # <<"module", epochs>>
             /\ pc[k] \in Before => interp = epochs /\ interp # 0 /\ interp \in Epochs
             /\ pc[k] = "initial" => ptr[k]["module"] = DUMMY
             /\ pc[k] = "decref" => interp = 0
             /\ \A j \in Calls \ {k}, e \in Epochs : ~Owner(j, e)
  <2>1. AloneOf(k)
    BY <1>1, <1>7 DEF AloneInv, Alone
  <2>2. pc[k] = "decref" => interp = 0
    BY <2>1 DEF AloneOf, InterpreterEnded
  <2>3. \A j \in Calls \ {k}, e \in Epochs : ~Owner(j, e)
    BY <2>1, OwnerPresent DEF AloneOf
  <2>4. pc[k] \in Before => interp \in Epochs
    BY <2>1 DEF AloneOf, TypeOK
  <2>. QED BY <2>1, <2>2, <2>3, <2>4 DEF AloneOf
<1>8. ASSUME NEW k \in Calls, NotInitialized(k) \/ ReadAnswer(k) PROVE (Shared /\ ~broken)'
  <2>1. UNCHANGED <<interp, count, ptr, todo, broken>>
    BY <1>8 DEF NotInitialized, ReadAnswer, history
  <2>. QED BY <1>1, <1>5, <2>1 DEF Owner, Holds
<1>9. ASSUME NEW k \in Calls, Import(k) PROVE (Shared /\ ~broken)'
  <2>0. PICK i \in Epochs : i = interp
    BY <1>7, <1>9 DEF Import, Before
  <2>1. /\ pc[k] = "initial" /\ ptr[k]["module"] = DUMMY
        /\ \A j \in Calls \ {k} : ptr[j]["module"] # <<"module", i>>
    BY <1>7, <1>9, <2>0 DEF Import, Before
  <2>2. /\ UNCHANGED <<interp, todo>> /\ ptr'[k]["module"] = <<"module", i>>
        /\ \A j \in Calls \ {k} : ptr'[j] = ptr[j]
    BY <1>9, <2>0, FieldsAre DEF Import, TypeOK
  <2>3. \A j \in Calls : ptr[j]["module"] # <<"module", i>>
    BY <1>2, <2>1, NotObjects
  <2>4. ~Imported(i)
    BY <2>3 DEF Imported
  <2>5. /\ count'[<<"module", i>>] = count[<<"module", i>>] + 2
        /\ count'[<<"dict", i>>] = 1 /\ count'[<<"func", i>>] = 1
        /\ \A e \in Epochs \ {i} : /\ count'[<<"module", e>>] = count[<<"module", e>>]
                                   /\ count'[<<"dict", e>>] = count[<<"dict", e>>]
                                   /\ count'[<<"func", e>>] = count[<<"func", e>>]
    <3>1. count' = [o \in Objects |->
                      CASE o = <<"name", k>>   -> 1
                        [] o = <<"module", i>> -> count[o] + 2
                        [] o \in {<<"dict", i>>, <<"func", i>>} -> 1
                        [] OTHER               -> count[o]]
      BY <1>9, <2>0, <2>4 DEF Import
    <3>2. \A e \in Epochs :
             /\ <<"name", k>> \notin {<<"module", e>>, <<"dict", e>>, <<"func", e>>}
             /\ <<"module", i>> \notin {<<"dict", e>>, <<"func", e>>}
             /\ <<"dict", i>> \notin {<<"module", e>>, <<"func", e>>}
             /\ <<"func", i>> \notin {<<"module", e>>, <<"dict", e>>}
      BY KindsDiffer
    <3>3. /\ count'[<<"module", i>>] = count[<<"module", i>>] + 2
          /\ count'[<<"dict", i>>] = 1 /\ count'[<<"func", i>>] = 1
      BY <1>2, <2>1, <3>1, <3>2
    <3>4. ASSUME NEW e \in Epochs, e # i
          PROVE  /\ count'[<<"module", e>>] = count[<<"module", e>>]
                 /\ count'[<<"dict", e>>] = count[<<"dict", e>>]
                 /\ count'[<<"func", e>>] = count[<<"func", e>>]
      BY <1>2, <3>1, <3>2, <3>4
    <3>. QED BY <3>3, <3>4
  <2>6. ASSUME NEW e \in Epochs \ {i} PROVE SharedOf(e)'
    <3>1. ~Lives(e) /\ ~Lives(e)'
      BY <2>0, <2>2 DEF Lives
    <3>2. \A j \in Calls : Owner(j, e)' <=> Owner(j, e)
      <4>1. \A j \in Calls : ptr'[j]["module"] = <<"module", e>> <=> ptr[j]["module"] = <<"module", e>>
        <5>1. <<"module", e>> # <<"module", i>> /\ <<"module", e>> # DUMMY
          BY <1>2, NotObjects
        <5>. QED BY <2>1, <2>2, <5>1
      <4>. QED BY <2>2, <4>1 DEF Owner, Holds
    <3>3. SharedOf(e)
      BY <1>1 DEF Shared
    <3>. QED BY <2>5, <3>1, <3>2, <3>3, SharedFrame
  <2>7. SharedOf(i)'
    <3>1. count[<<"module", i>>] = 0
      <4>1. SharedOf(i)
        BY <1>1 DEF Shared
      <4>2. ~Lives(i) /\ ~\E j \in Calls : Owner(j, i)
        BY <2>3, <2>4 DEF Lives, Owner
      <4>. QED BY <4>1, <4>2 DEF SharedOf
    <3>2. Owner(k, i)' /\ Lives(i)'
      <4>1. Holds(k, "module")'
        BY <2>1, <2>2, SuffixRanges, FieldsAre DEF TodoInv, TodoOf, Holds
      <4>. QED BY <2>0, <2>2, <4>1 DEF Owner, Lives, Imported
    <3>. QED BY <2>2, <2>5, <3>1, <3>2 DEF SharedOf
  <2>8. Shared'
    BY <2>6, <2>7 DEF Shared
  <2>9. Exact'
    BY <1>4, <2>8
  <2>. QED BY <1>1, <1>9, <2>8, <2>9 DEF Import, Note
<1>10. ASSUME NEW k \in Calls, ImportRaises(k) PROVE (Shared /\ ~broken)'
  <2>1. /\ UNCHANGED <<interp, todo, broken>> /\ ptr'[k]["module"] = NULL
        /\ \A j \in Calls \ {k} : ptr'[j] = ptr[j]
    BY <1>10, FieldsAre DEF ImportRaises, TypeOK
  <2>2. ptr[k]["module"] = DUMMY
    BY <1>7, <1>10 DEF ImportRaises
  <2>3. \A o \in Objects : o[1] \in {"module", "dict", "func"} => count'[o] = count[o]
    BY <1>2, <1>10, KindsDiffer DEF ImportRaises
  <2>4. \A j \in Calls, e \in Epochs :
           ptr'[j]["module"] = <<"module", e>> <=> ptr[j]["module"] = <<"module", e>>
    BY <1>2, <2>1, <2>2, NotObjects
  <2>. QED BY <1>1, <1>5, <2>1, <2>3, <2>4 DEF Owner, Holds
<1>11. ASSUME NEW k \in Calls, ExecFindsNothing(k) PROVE (Shared /\ ~broken)'
  <2>1. UNCHANGED <<interp, count, todo, broken>>
    BY <1>11 DEF ExecFindsNothing, history
  <2>2. \A j \in Calls : ptr'[j]["module"] = ptr[j]["module"]
    BY <1>11, FieldsAre DEF ExecFindsNothing, TypeOK
  <2>. QED BY <1>1, <1>5, <2>1, <2>2 DEF Owner, Holds
<1>12. ASSUME NEW k \in Calls, Exec(k) \/ ExecRaises(k) PROVE (Shared /\ ~broken)'
  <2>. DEFINE n == execs[k] + 1
  <2>1. UNCHANGED <<interp, todo>>
    BY <1>12 DEF Exec, Called, ExecRaises
  <2>2. \A j \in Calls : ptr'[j]["module"] = ptr[j]["module"]
    <3>1. ASSUME NEW z, ptr' = [ptr EXCEPT ![k]["func"] = <<"func", interp>>,
                                           ![k]["args"] = <<"args", k, n>>, ![k]["result"] = z]
          PROVE  \A j \in Calls : ptr'[j]["module"] = ptr[j]["module"]
      <4>1. ptr \in [Calls -> [Fields -> Pointers]] /\ "module" \in Fields
        BY FieldsAre DEF TypeOK
      <4>2. /\ \A j \in Calls \ {k} : ptr'[j] = ptr[j]
            /\ ptr'[k] = [ptr[k] EXCEPT !["func"] = <<"func", interp>>,
                                        !["args"] = <<"args", k, n>>, !["result"] = z]
        BY <3>1, <4>1
      <4>. QED BY <4>1, <4>2
    <3>. QED BY <1>12, <3>1 DEF Exec, Called, ExecRaises
  <2>3. \/ count' = [count EXCEPT ![<<"args", k, n>>] = 1, ![<<"result", k, n>>] = 1]
        \/ count' = [count EXCEPT ![<<"args", k, n>>] = 1]
    BY <1>12 DEF Exec, Called, ExecRaises
  <2>. HIDE DEF n
  <2>4. \A o \in Objects : o[1] \in {"module", "dict", "func"} => count'[o] = count[o]
    BY <1>2, <2>3, KindsDiffer
  <2>5. Shared'
    BY <1>5, <2>1, <2>2, <2>4 DEF Owner, Holds
  <2>6. Exact'
    BY <1>4, <2>5
  <2>7. broken' => broken \/ ~Exact'
    BY <1>12 DEF Exec, Called, ExecRaises, Note
  <2>. QED BY <1>1, <2>5, <2>6, <2>7
<1>13. ASSUME NEW k \in Calls, Finalize(k) PROVE (Shared /\ ~broken)'
  <2>0. PICK i \in Epochs : i = interp
    BY <1>7, <1>13 DEF Finalize, Before
  <2>. DEFINE c == Drop(count, <<"func", i>>)
  <2>1. /\ pc[k] = "finalize" /\ i # 0
        /\ \A j \in Calls \ {k} : ptr[j]["module"] # <<"module", i>>
    BY <1>7, <1>13, <2>0 DEF Finalize, Before
  <2>2. UNCHANGED <<ptr, todo>> /\ interp' = 0
    BY <1>13 DEF Finalize
  <2>3. \A e \in Epochs : /\ ~Lives(e)' /\ \A j \in Calls : Owner(j, e)' <=> Owner(j, e)
    BY <1>2, <2>2 DEF Lives, Owner, Holds
  <2>4. ASSUME ~Imported(i) PROVE Shared'
    <3>1. count' = count
      BY <1>13, <2>0, <2>4 DEF Finalize
    <3>2. \A e \in Epochs : ~Lives(e)
      BY <2>0, <2>4 DEF Lives
    <3>3. ASSUME NEW e \in Epochs PROVE SharedOf(e)'
      <4>1. SharedOf(e)
        BY <1>1 DEF Shared
      <4>. QED BY <2>3, <3>1, <3>2, <4>1, SharedFrame
    <3>. QED BY <3>3 DEF Shared
  <2>5. ASSUME Imported(i) PROVE Shared'
    <3>1. count' = DropModule(c, i)
      BY <1>13, <2>0, <2>1, <2>5 DEF Finalize
    <3>2. Owner(k, i) /\ Lives(i)
      <4>1. ptr[k]["module"] = <<"module", i>>
        BY <2>1, <2>5 DEF Imported
      <4>2. Holds(k, "module")
        BY <2>1, SuffixRanges, FieldsAre DEF TodoInv, TodoOf, Holds
      <4>. QED BY <2>0, <2>5, <4>1, <4>2 DEF Owner, Lives
    <3>3. /\ count[<<"module", i>>] = 2 /\ count[<<"dict", i>>] = 1 /\ count[<<"func", i>>] = 1
      BY <1>1, <3>2 DEF Shared, SharedOf
    <3>4. /\ c \in [Objects -> Nat] /\ c[<<"func", i>>] = 0
          /\ \A o \in Objects : o # <<"func", i>> => c[o] = count[o]
      <4>1. count \in [Objects -> Nat] /\ <<"func", i>> \in Objects
        BY <1>2
      <4>2. c \in [Objects -> Nat] /\ \A o \in Objects : o # <<"func", i>> => c[o] = count[o]
        BY <4>1, DropSteps
      <4>3. c[<<"func", i>>] = IF count[<<"func", i>>] = 0 THEN 0 ELSE count[<<"func", i>>] - 1
        BY <4>1, DropSteps
      <4>. QED BY <3>3, <4>2, <4>3
    <3>. HIDE DEF c
    <3>5. c[<<"module", i>>] = 2 /\ c[<<"dict", i>>] = 1
      BY <1>2, <2>1, <3>3, <3>4, KindsDiffer
    <3>6. count' = Drop(c, <<"module", i>>)
      BY <3>1, <3>5 DEF DropModule, Dies
    <3>7. /\ count'[<<"module", i>>] = 1
          /\ \A o \in Objects : o # <<"module", i>> => count'[o] = c[o]
      <4>1. <<"module", i>> \in Objects
        BY <1>2
      <4>2. \A o \in Objects : o # <<"module", i>> => count'[o] = c[o]
        <5>1. \A o \in Objects : o # <<"module", i>> => Drop(c, <<"module", i>>)[o] = c[o]
          <6>1. c \in [Objects -> Nat]
            BY <3>4
          <6>. QED BY <6>1, DropSteps
        <5>. QED BY <3>6, <5>1
      <4>3. count'[<<"module", i>>] = IF c[<<"module", i>>] = 0 THEN 0 ELSE c[<<"module", i>>] - 1
        BY <3>4, <3>6, <4>1, DropSteps
      <4>. QED BY <3>5, <4>2, <4>3
    <3>8. SharedOf(i)'
      <4>1. count'[<<"dict", i>>] = 1 /\ count'[<<"func", i>>] = 0
        BY <1>2, <2>1, <3>4, <3>5, <3>7, KindsDiffer
      <4>2. (\E j \in Calls : Owner(j, i))' /\ ~Lives(i)'
        BY <2>3, <3>2
      <4>. QED BY <3>7, <4>1, <4>2 DEF SharedOf
    <3>9. ASSUME NEW e \in Epochs, e # i PROVE SharedOf(e)'
      <4>1. ~Lives(e) /\ SharedOf(e)
        BY <1>1, <2>0, <3>9 DEF Lives, Shared
      <4>2. \A o \in Objects : o \notin {<<"module", i>>, <<"func", i>>} => count'[o] = count[o]
        BY <3>4, <3>7
      <4>3. {<<"module", e>>, <<"dict", e>>, <<"func", e>>} \cap {<<"module", i>>, <<"func", i>>} = {}
        BY <3>9, KindsDiffer
      <4>4. /\ count'[<<"module", e>>] = count[<<"module", e>>]
            /\ count'[<<"dict", e>>] = count[<<"dict", e>>]
            /\ count'[<<"func", e>>] = count[<<"func", e>>]
        BY <1>2, <4>2, <4>3
      <4>. QED BY <2>3, <4>1, <4>4, SharedFrame
    <3>10. \A e \in Epochs : SharedOf(e)'
      BY <3>8, <3>9
    <3>. QED BY <3>10 DEF Shared
  <2>6. Shared' /\ Exact'
    BY <1>4, <2>4, <2>5
  <2>. QED BY <1>1, <1>13, <2>6 DEF Finalize, Note
<1>14. ASSUME NEW k \in Calls, NEW f \in Fields, NotCounted(k, f) \/ Release(k, f) \/ TestFreed(k, f)
       PROVE  (Shared /\ ~broken)'
  <2>1. /\ Test(k, f) /\ UNCHANGED <<interp, ptr>> /\ pc[k] = "decref" /\ interp = 0
        /\ \A j \in Calls : j # k => todo'[j] = todo[j]
        /\ f = Head(todo[k]) /\ todo'[k] = Tail(todo[k]) /\ todo[k] \in Suffixes \ {<<>>}
    <3>1. Test(k, f)
      BY <1>14 DEF NotCounted, Release, TestFreed
    <3>. QED BY <1>7, <3>1 DEF Test, TypeOK, TodoInv, TodoOf
  <2>2. /\ \A g \in Fields : g # f => (Holds(k, g)' <=> Holds(k, g))
        /\ Holds(k, f) /\ ~Holds(k, f)'
        /\ f = "dict" => ~Holds(k, "module")
    <3>1. /\ \A g \in Fields : g # f => (Holds(k, g)' <=> Holds(k, g))
          /\ Holds(k, f) /\ ~Holds(k, f)'
      BY <2>1, SuffixSteps DEF Holds
    <3>2. f = "dict" => ~Holds(k, "module")
      BY <2>1, SuffixSteps DEF Holds
    <3>. QED BY <3>1, <3>2
  <2>3. ptr[k][f] \in Objects =>
           /\ ptr[k][f][1] = f
           /\ f \in {"module", "dict", "func"} => \E e \in Epochs : ptr[k][f] = <<f, e>>
    <3>1. pc[k] # "new" /\ 1 .. epochs \subseteq Epochs
      BY <2>1, EpochsAre DEF TypeOK, Epochs
    <3>. SUFFICES ASSUME ptr[k][f] \in Objects
                  PROVE  /\ ptr[k][f][1] = f
                         /\ f \in {"module", "dict", "func"} =>
                               \E e \in Epochs : ptr[k][f] = <<f, e>>
      OBVIOUS
    <3>2. /\ ptr[k][f][1] = f
          /\ f \in {"module", "dict", "func"} => \E e \in 1 .. epochs : ptr[k][f] = <<f, e>>
      <4>1. ptr[k][f][1] = f
        BY <3>1, PtrKinds
      <4>2. ASSUME f \in {"module", "dict", "func"}
            PROVE  \E e \in 1 .. epochs : ptr[k][f] = <<f, e>>
        <5>1. PtrOf(k) /\ ptr[k][f] \notin {NULL, DUMMY, NONE}
          BY NotObjects DEF PtrInv
        <5>2. CASE f = "module"
          BY <5>1, <5>2 DEF PtrOf
        <5>3. CASE f = "dict"
          BY <3>1, <5>1, <5>3 DEF PtrOf
        <5>4. CASE f = "func"
          BY <5>1, <5>4 DEF PtrOf
        <5>. QED BY <4>2, <5>2, <5>3, <5>4
      <4>. QED BY <4>1, <4>2
    <3>. QED BY <3>1, <3>2
  <2>4. \A e \in Epochs : /\ ~Lives(e) /\ ~Lives(e)'
                          /\ \A j \in Calls \ {k} : ~Owner(j, e) /\ ~Owner(j, e)'
                          /\ f # "module" => (Owner(k, e)' <=> Owner(k, e))
                          /\ f = "module" => ~Owner(k, e)'
    <3>1. \A e \in Epochs : ~Lives(e) /\ ~Lives(e)'
      BY <1>2, <2>1 DEF Lives
    <3>2. \A e \in Epochs, j \in Calls \ {k} : ~Owner(j, e) /\ ~Owner(j, e)'
      BY <1>7, <2>1 DEF Owner, Holds
    <3>3. \A e \in Epochs : /\ f # "module" => (Owner(k, e)' <=> Owner(k, e))
                            /\ f = "module" => ~Owner(k, e)'
      <4>1. /\ f # "module" => (Holds(k, "module")' <=> Holds(k, "module"))
            /\ f = "module" => ~Holds(k, "module")'
        BY <2>2, FieldsAre
      <4>. QED BY <2>1, <4>1 DEF Owner
    <3>. QED BY <3>1, <3>2, <3>3
  \* What it releases or finds freed is not a member of an interpreter, unless it is the
  \* module that the call owns: the only one still referred to.
  <2>5. ASSUME NEW e \in Epochs, ptr[k][f] = <<f, e>>, f \in {"module", "dict", "func"}
        PROVE  /\ f = "module" => /\ count[<<"module", e>>] = 1 /\ count[<<"dict", e>>] = 1
                                  /\ count[<<"func", e>>] = 0
               /\ f # "module" => count[ptr[k][f]] = 0
    <3>1. SharedOf(e) /\ ~Lives(e)
      BY <1>1, <2>4 DEF Shared
    <3>2. CASE f = "module"
      <4>1. Owner(k, e)
        BY <2>2, <2>5, <3>2 DEF Owner
      <4>. QED BY <3>1, <3>2, <4>1 DEF SharedOf
    <3>3. CASE f = "dict"
      <4>1. ~Owner(k, e)
        BY <2>2, <3>3 DEF Owner
      <4>2. ~\E j \in Calls : Owner(j, e)
        BY <2>4, <4>1
      <4>. QED BY <2>5, <3>1, <3>3, <4>2 DEF SharedOf
    <3>4. CASE f = "func"
      BY <2>5, <3>1, <3>4 DEF SharedOf
    <3>. QED BY <2>5, <3>2, <3>3, <3>4
  <2>6. ASSUME \A e \in Epochs : f = "module" => ptr[k][f] # <<f, e>>
        PROVE  Shared'
    <3>1. \A o \in Objects : o[1] \in {"module", "dict", "func"} => count'[o] = count[o]
      <4>1. CASE count' = count
        BY <4>1
      <4>2. CASE Release(k, f)
        <5>1. ptr[k][f] \in Objects /\ count[ptr[k][f]] > 0 /\ count' = Decref(count, ptr[k][f])
          BY <4>2 DEF Release, Allocated
        <5>2. f \notin {"module", "dict", "func"}
          <6>. SUFFICES ASSUME f \in {"module", "dict", "func"} PROVE FALSE
            OBVIOUS
          <6>1. PICK e \in Epochs : ptr[k][f] = <<f, e>>
            BY <2>3, <5>1
          <6>2. f # "module"
            BY <2>6, <6>1
          <6>3. count[ptr[k][f]] = 0
            BY <2>5, <6>1, <6>2
          <6>. QED BY <5>1, <6>3
        <5>3. count' = Drop(count, ptr[k][f])
          BY <2>3, <5>1, <5>2 DEF Decref
        <5>4. \A o \in Objects : o # ptr[k][f] => count'[o] = count[o]
          BY <1>2, <5>3, DropSteps
        <5>. QED BY <2>3, <5>1, <5>2, <5>4
      <4>. QED BY <1>14, <4>1, <4>2 DEF NotCounted, TestFreed
    <3>2. \A j \in Calls, e \in Epochs : Owner(j, e)' <=> Owner(j, e)
      <4>1. f = "module" => \A e \in Epochs : ~Owner(k, e)
        BY <2>6 DEF Owner
      <4>. QED BY <2>4, <4>1
    <3>3. \A j \in Calls : ptr'[j]["module"] = ptr[j]["module"]
      BY <2>1
    <3>. QED BY <1>5, <2>1, <3>1, <3>2, <3>3
  <2>7. ASSUME \E e \in Epochs : f = "module" /\ ptr[k][f] = <<f, e>>
        PROVE  Shared'
    <3>1. PICK e \in Epochs : f = "module" /\ ptr[k][f] = <<f, e>>
      BY <2>7
    <3>2. /\ count[<<"module", e>>] = 1 /\ count[<<"dict", e>>] = 1 /\ count[<<"func", e>>] = 0
      BY <2>5, <3>1
    <3>3. count' = Decref(count, <<"module", e>>)
      <4>1. ~Freed(ptr[k][f]) /\ ptr[k][f] \notin {DUMMY, NONE}
        BY <1>2, <3>1, <3>2, NotObjects DEF Freed
      <4>. QED BY <1>14, <3>1, <4>1 DEF NotCounted, Release, TestFreed
    <3>. DEFINE c == Drop(count, <<"module", e>>)
                d == Drop(c, <<"dict", e>>)
    <3>4. /\ c \in [Objects -> Nat] /\ c[<<"module", e>>] = 0
          /\ \A o \in Objects : o # <<"module", e>> => c[o] = count[o]
      <4>1. count \in [Objects -> Nat] /\ <<"module", e>> \in Objects
        BY <1>2
      <4>2. c \in [Objects -> Nat] /\ \A o \in Objects : o # <<"module", e>> => c[o] = count[o]
        BY <4>1, DropSteps
      <4>3. c[<<"module", e>>] =
               IF count[<<"module", e>>] = 0 THEN 0 ELSE count[<<"module", e>>] - 1
        BY <4>1, DropSteps
      <4>. QED BY <3>2, <4>2, <4>3
    <3>5. count' = DropDict(c, e)
      BY <3>2, <3>3, KindsDiffer DEF Decref, DropModule, Dies
    <3>. HIDE DEF c
    <3>6. c[<<"dict", e>>] = 1 /\ c[<<"func", e>>] = 0
      BY <1>2, <3>2, <3>4, KindsDiffer
    <3>7. count' = Drop(d, <<"func", e>>)
      BY <3>5, <3>6 DEF DropDict, Dies
    <3>8. /\ d \in [Objects -> Nat] /\ d[<<"dict", e>>] = 0
          /\ \A o \in Objects : o # <<"dict", e>> => d[o] = c[o]
      <4>1. c \in [Objects -> Nat] /\ <<"dict", e>> \in Objects
        BY <1>2, <3>4
      <4>2. d \in [Objects -> Nat] /\ \A o \in Objects : o # <<"dict", e>> => d[o] = c[o]
        BY <4>1, DropSteps
      <4>3. d[<<"dict", e>>] = IF c[<<"dict", e>>] = 0 THEN 0 ELSE c[<<"dict", e>>] - 1
        BY <4>1, DropSteps
      <4>. QED BY <3>6, <4>2, <4>3
    <3>. HIDE DEF d
    <3>9. /\ d[<<"func", e>>] = 0 /\ d[<<"module", e>>] = 0
      BY <1>2, <3>4, <3>6, <3>8, KindsDiffer
    <3>10. /\ count'[<<"func", e>>] = 0
           /\ \A o \in Objects : o # <<"func", e>> => count'[o] = d[o]
      <4>1. <<"func", e>> \in Objects
        BY <1>2
      <4>2. \A o \in Objects : o # <<"func", e>> => count'[o] = d[o]
        <5>1. \A o \in Objects : o # <<"func", e>> => Drop(d, <<"func", e>>)[o] = d[o]
          <6>1. d \in [Objects -> Nat]
            BY <3>8
          <6>. QED BY <6>1, DropSteps
        <5>. QED BY <3>7, <5>1
      <4>3. count'[<<"func", e>>] = IF d[<<"func", e>>] = 0 THEN 0 ELSE d[<<"func", e>>] - 1
        BY <3>7, <3>8, <4>1, DropSteps
      <4>. QED BY <3>9, <4>2, <4>3
    <3>11. SharedOf(e)'
      <4>1. count'[<<"module", e>>] = 0 /\ count'[<<"dict", e>>] = 0
        BY <1>2, <3>8, <3>9, <3>10, KindsDiffer
      <4>2. ~\E j \in Calls : Owner(j, e)'
        BY <2>4, <3>1
      <4>. QED BY <2>4, <3>10, <4>1, <4>2 DEF SharedOf
    <3>12. ASSUME NEW x \in Epochs, x # e PROVE SharedOf(x)'
      <4>1. \A o \in Objects : o \notin {<<"module", e>>, <<"dict", e>>, <<"func", e>>} =>
               count'[o] = count[o]
        BY <3>4, <3>8, <3>10
      <4>2. {<<"module", x>>, <<"dict", x>>, <<"func", x>>}
              \cap {<<"module", e>>, <<"dict", e>>, <<"func", e>>} = {}
        BY <3>12, KindsDiffer
      <4>3. ~Owner(k, x)
        BY <3>1, <3>12 DEF Owner
      <4>4. \A j \in Calls : Owner(j, x)' <=> Owner(j, x)
        BY <2>4, <3>1, <4>3
      <4>5. /\ count'[<<"module", x>>] = count[<<"module", x>>]
            /\ count'[<<"dict", x>>] = count[<<"dict", x>>]
            /\ count'[<<"func", x>>] = count[<<"func", x>>]
        BY <1>2, <4>1, <4>2
      <4>6. SharedOf(x) /\ (Lives(x)' <=> Lives(x))
        BY <1>1, <2>4 DEF Shared
      <4>. QED BY <4>4, <4>5, <4>6, SharedFrame
    <3>13. \A x \in Epochs : SharedOf(x)'
      BY <3>11, <3>12
    <3>. QED BY <3>13 DEF Shared
  <2>8. Shared' /\ Exact'
    BY <1>4, <2>6, <2>7
  <2>9. ASSUME TestFreed(k, f) PROVE broken' = broken
    BY <1>1, <2>9 DEF TestFreed
  <2>10. broken' => broken \/ ~Exact'
    BY <1>14, <2>9 DEF NotCounted, Release, Note
  <2>. QED BY <1>1, <2>8, <2>10
<1>15. CASE Die \/ UNCHANGED vars
  <2>1. UNCHANGED <<interp, epochs, count, mine, history>>
    BY <1>15 DEF Die, vars
  <2>2. UNCHANGED <<interp, count, ptr, todo, broken>>
    BY <2>1 DEF mine, history
  <2>. QED BY <1>1, <1>5, <2>2 DEF Owner, Holds
<1>. QED BY <1>6, <1>8, <1>9, <1>10, <1>11, <1>12, <1>13, <1>14, <1>15, Deaths DEF Next, Call
-------------------------------------------------------------------------------
IInv ==
    /\ TypeOK /\ EpochInv /\ PtrInv /\ TodoInv
    /\ OwnInv /\ SharedInv /\ AloneInv /\ AnswerInv /\ InterpreterEnded

LEMMA InitInv == Init => IInv
<1>. SUFFICES ASSUME Init PROVE IInv
    OBVIOUS
<1>1. \A k \in Calls : /\ pc[k] = "new" /\ todo[k] = Order /\ execs[k] = 0
                       /\ answer[k] = "none" /\ \A f \in Fields : ptr[k][f] = NULL
    BY DEF Init
<1>2. TypeOK
  <2>1. ptr \in [Calls -> [Fields -> Pointers]]
    BY DEF Init, Pointers
  <2>2. todo \in [Calls -> Seq(Fields)]
    BY <1>1, SuffixRanges DEF Init
  <2>3. execs \in [Calls -> 0 .. MaxExec]
    <3>1. 0 \in 0 .. MaxExec
      OBVIOUS
    <3>. QED BY <3>1 DEF Init
  <2>. QED BY <2>1, <2>2, <2>3 DEF Init, TypeOK
<1>3. EpochInv
  <2>1. {k \in Calls : pc[k] # "new"} = {}
    BY <1>1
  <2>2. Cardinality({k \in Calls : pc[k] # "new"}) = 0
    BY <2>1, FS_EmptySet
  <2>. QED BY <2>2 DEF Init, EpochInv
<1>4. PtrInv
    BY <1>1, FieldsAre DEF Init, PtrInv, PtrOf
<1>5. TodoInv
    BY <1>1 DEF TodoInv, TodoOf
<1>6. OwnInv
  <2>1. \A k \in Calls : <<"name", k>> # NULL
    BY ObjectsAre, NotObjects
  <2>2. \A k \in Calls : ptr[k]["name"] # <<"name", k>>
    BY <1>1, <2>1, FieldsAre
  <2>3. \A k \in Calls :
           /\ count[<<"name", k>>] = 0
           /\ \A i \in 1 .. MaxExec : count[<<"args", k, i>>] = 0 /\ count[<<"result", k, i>>] = 0
    BY ObjectsAre DEF Init
  <2>4. \A k \in Calls, i \in 1 .. MaxExec : ~(i < execs[k]) /\ i # execs[k]
    BY <1>1
  <2>. QED BY <2>2, <2>3, <2>4 DEF OwnInv, OwnOf
<1>7. AloneInv
    BY <1>1 DEF AloneInv, Alone
<1>8. AnswerInv
    BY <1>1 DEF AnswerInv, AnswerOf
<1>9. InterpreterEnded
    BY DEF Init, InterpreterEnded
<1>10. SharedInv
  <2>. SUFFICES ASSUME NEW e \in Epochs PROVE SharedOf(e)
    BY DEF SharedInv, Shared, Init
  <2>1. e # 0 /\ {<<"module", e>>, <<"dict", e>>, <<"func", e>>} \subseteq Objects
    BY EpochsAre, ObjectsAre
  <2>2. \A o \in Objects : count[o] = 0
    BY DEF Init
  <2>3. ~Lives(e)
    BY <2>1 DEF Init, Lives
  <2>4. \A k \in Calls : ~Owner(k, e)
    BY <1>1, <1>4, <1>5, OwnerPresent
  <2>. QED BY <2>1, <2>2, <2>3, <2>4 DEF SharedOf
<1>. QED BY <1>2, <1>3, <1>4, <1>5, <1>6, <1>7, <1>8, <1>9, <1>10 DEF IInv

LEMMA Inductive == IInv /\ [Next]_vars => IInv'
<1>. SUFFICES ASSUME IInv, [Next]_vars PROVE IInv'
    OBVIOUS
<1>. USE DEF IInv
<1>1. (TypeOK /\ EpochInv)'
    BY TypeStep
<1>2. PtrInv'
    BY PtrStep
<1>3. TodoInv'
    BY TodoStep
<1>4. OwnInv'
    BY OwnStep
<1>5. AloneInv'
    BY <1>1, AloneStep
<1>6. AnswerInv'
    BY ResultsAreReadable, AnswerStep
<1>7. InterpreterEnded'
    BY EndedStep
<1>8. SharedInv'
    BY <1>1, <1>2, <1>3, <1>4, <1>5, SharedStep
<1>. QED BY <1>1, <1>2, <1>3, <1>4, <1>5, <1>6, <1>7, <1>8

LEMMA Invariance == Spec => []IInv
    BY InitInv, Inductive, PTL DEF Spec

\* Every variable keeps its type, however many objects are made and however their
\* statements interleave.
THEOREM TypeCorrect == Spec => []TypeOK
<1>1. IInv => TypeOK
    BY DEF IInv
<1>. QED BY <1>1, Invariance, PTL

\* As long as the calls follow one another, every object has as many counts as there are
\* references to it: what __py_decref releases though it was only borrowed, Py_Finalize
\* has freed before.
THEOREM CountsCorrect == Spec => []CountsExact
<1>1. IInv => CountsExact
    BY ExactWhen DEF IInv, SharedInv, CountsExact
<1>. QED BY <1>1, Invariance, PTL

\* The results that exec leaks stay allocated until the destructor of the object that
\* got them, whatever other objects do to the interpreter meanwhile.
THEOREM ResultsCorrect == Spec => []ResultsReadable
<1>1. IInv => ResultsReadable
    BY ResultsAreReadable DEF IInv
<1>. QED BY <1>1, Invariance, PTL

\* A call that met no other one, while nothing raised in Python, hands on the string
\* its own function returned.
THEOREM AnswerCorrect == Spec => []AnswerOwn
<1>1. IInv => AnswerOwn
    BY DEF IInv, AnswerInv, AnswerOf, Clean, AnswerOwn
<1>. QED BY <1>1, Invariance, PTL

\* An interpreter that is initialised has a call that will still finalize it.
THEOREM EndedCorrect == Spec => []InterpreterEnded
<1>1. IInv => InterpreterEnded
    BY DEF IInv
<1>. QED BY <1>1, Invariance, PTL
===============================================================================
