-------------------------- MODULE AllowListProofs --------------------------
(* What the three programs keep of register.txt, for any addresses and any    *)
(* number of registers and modifies.                                          *)
EXTENDS AllowList, FiniteSetTheorems, SequenceTheorems, WellFoundedInduction, TLAPS

USE AllowAssumption

\* A text is read as keys only.
LEMMA ParsedKeys == ASSUME NEW text \in Seq(Keys) PROVE Parsed(text) \subseteq Keys
    BY DEF Parsed, Keys

\* A text of addresses is read as these: no line is taken for a port.
LEMMA ParsedAddresses ==
    ASSUME NEW text \in Seq(Addresses)
    PROVE  Parsed(text) = {text[i] : i \in DOMAIN text}
<1>. DEFINE D == 0 .. Len(text)
            Due(f) == [i \in D |-> i > 0 /\ text[i] = EMPTY /\ ~f[i - 1]]
            none == [i \in D |-> FALSE]
            portDue == CHOOSE f : f = Due(f)
<1>1. \A i \in DOMAIN text : i \in 1 .. Len(text) /\ text[i] # EMPTY
    OBVIOUS
<1>2. none = Due(none)
  <2>1. \A i \in D : i > 0 => i \in DOMAIN text
    OBVIOUS
  <2>. QED BY <1>1, <2>1
<1>3. portDue = Due(portDue)
    BY <1>2
<1>. HIDE DEF portDue
<1>4. \A i \in DOMAIN text : portDue[i - 1] = FALSE
  <2>1. \A i \in D : i > 0 => text[i] # EMPTY
    BY <1>1
  <2>2. \A i \in D : portDue[i] = FALSE
    BY <1>3, <2>1
  <2>. QED BY <1>1, <2>2
<1>5. Parsed(text) = {IF text[i] = EMPTY \/ portDue[i - 1] THEN NOISE ELSE text[i] : i \in DOMAIN text}
    BY DEF Parsed, portDue
<1>. QED BY <1>1, <1>4, <1>5

LEMMA FirstIsLeast ==
    ASSUME NEW S \in SUBSET Nat, S # {}
    PROVE  First(S) \in S /\ \A b \in S : First(S) <= b
<1>. DEFINE R == {ss \in Nat \X Nat : ss[1] < ss[2]}
<1>1. IsWellFoundedOn(R, Nat)
    BY NatLessThanWellFounded DEF OpToRel
<1>. HIDE DEF R
<1>2. PICK a \in S : \A b \in S : <<b, a>> \notin R
    BY <1>1, WFMin
<1>3. ASSUME NEW b \in S PROVE a <= b
  <2>1. a \in Nat /\ b \in Nat
    OBVIOUS
  <2>2. b < a => <<b, a>> \in R
    BY <2>1 DEF R
  <2>. QED BY <1>2, <2>1, <2>2
<1>. QED BY <1>3 DEF First

LEMMA KeysAreFinite == IsFiniteSet(Keys) /\ Cardinality(Keys) \in Nat /\ Keys \subseteq Nat
<1>1. IsFiniteSet({EMPTY}) /\ IsFiniteSet({NOISE})
    BY FS_Singleton
<1>2. IsFiniteSet({EMPTY} \cup {NOISE})
    BY <1>1, FS_Union
<1>3. IsFiniteSet(Addresses \cup ({EMPTY} \cup {NOISE}))
    BY <1>2, FS_Union
<1>4. Keys = Addresses \cup ({EMPTY} \cup {NOISE})
    BY DEF Keys
<1>. QED BY <1>3, <1>4, FS_CardinalityType DEF Keys

\* The part of a map that is left has no more keys, and one less without its first.
LEMMA CardinalityOfRest ==
    ASSUME NEW S \in SUBSET Keys
    PROVE  /\ Cardinality(S) \in Nat /\ Cardinality(S) <= Cardinality(Keys)
           /\ \A T \in SUBSET S : Cardinality(T) \in Nat /\ Cardinality(T) <= Cardinality(S)
           /\ \A a \in S : Cardinality(S \ {a}) = Cardinality(S) - 1
<1>1. IsFiniteSet(S) /\ Cardinality(S) <= Cardinality(Keys)
    BY KeysAreFinite, FS_Subset
<1>2. ASSUME NEW T \in SUBSET S
      PROVE  Cardinality(T) \in Nat /\ Cardinality(T) <= Cardinality(S)
  <2>1. IsFiniteSet(T) /\ Cardinality(T) <= Cardinality(S)
    BY <1>1, FS_Subset
  <2>. QED BY <2>1, FS_CardinalityType
<1>3. ASSUME NEW a \in S PROVE Cardinality(S \ {a}) = Cardinality(S) - 1
    BY <1>1, FS_RemoveElement
<1>. QED BY <1>1, <1>2, <1>3, FS_CardinalityType

\* What the first key of a map is, and what is left behind it.
LEMMA FirstOfMap ==
    ASSUME NEW S \in SUBSET Keys, S # {}
    PROVE  First(S) \in S /\ \A b \in S \ {First(S)} : First(S) < b
<1>1. S \in SUBSET Nat
    BY KeysAreFinite
<1>2. First(S) \in S /\ \A b \in S : First(S) <= b
    BY <1>1, FirstIsLeast
<1>3. ASSUME NEW b \in S \ {First(S)} PROVE First(S) < b
  <2>1. b \in Nat /\ First(S) \in Nat /\ First(S) <= b /\ b # First(S)
    BY <1>1, <1>2
  <2>. QED BY <2>1
<1>. QED BY <1>2, <1>3

LEMMA LinesOfAppend ==
    ASSUME NEW S, NEW s \in Seq(S), NEW x \in S
    PROVE  /\ Append(s, x) \in Seq(S) /\ Len(Append(s, x)) = Len(s) + 1
           /\ Range(Append(s, x)) = Range(s) \cup {x}
           /\ \A i \in 1 .. Len(s) : Append(s, x)[i] = s[i]
           /\ Append(s, x)[Len(s) + 1] = x
<1>1. \A i \in 1 .. Len(s) : Append(s, x)[i] = s[i]
    OBVIOUS
<1>2. Append(s, x)[Len(s) + 1] = x /\ Len(Append(s, x)) = Len(s) + 1
    OBVIOUS
<1>3. DOMAIN Append(s, x) = 1 .. Len(s) + 1 /\ DOMAIN s = 1 .. Len(s)
    OBVIOUS
<1>4. Range(Append(s, x)) = Range(s) \cup {x}
  <2>1. Range(Append(s, x)) \subseteq Range(s) \cup {x}
    BY <1>1, <1>2, <1>3 DEF Range
  <2>2. Range(s) \cup {x} \subseteq Range(Append(s, x))
    <3>1. \A i \in 1 .. Len(s) : i \in 1 .. Len(s) + 1
      OBVIOUS
    <3>2. Len(s) + 1 \in 1 .. Len(s) + 1
      OBVIOUS
    <3>. QED BY <1>1, <1>2, <1>3, <3>1, <3>2 DEF Range
  <2>. QED BY <2>1, <2>2
<1>. QED BY <1>1, <1>2, <1>4

\* A block adds the lines of the file behind those read, to nothing all of them.
LEMMA LinesOfBlock ==
    ASSUME NEW S, file \in Seq(S), NEW text \in Seq(S), Len(file) > Len(text)
    PROVE  /\ WithBlock(text) \in Seq(S)
           /\ Range(text) \subseteq Range(WithBlock(text))
           /\ Range(WithBlock(text)) \subseteq Range(text) \cup Range(file)
           /\ text = SubSeq(file, 1, Len(text)) => WithBlock(text) = file
           /\ text = << >> => WithBlock(text) = file
<1>. DEFINE n == Len(text)
            rest == SubSeq(file, n + 1, Len(file))
<1>1. /\ rest \in Seq(S) /\ Len(rest) = Len(file) - n /\ n \in Nat
      /\ \A i \in 1 .. Len(file) - n : rest[i] = file[n + i]
    OBVIOUS
<1>. HIDE DEF rest
<1>2. /\ WithBlock(text) = text \o rest /\ WithBlock(text) \in Seq(S)
      /\ Len(WithBlock(text)) = Len(file)
      /\ \A i \in 1 .. n : WithBlock(text)[i] = text[i]
      /\ \A i \in n + 1 .. Len(file) : WithBlock(text)[i] = file[i]
    BY <1>1 DEF WithBlock, rest
<1>3. DOMAIN WithBlock(text) = 1 .. Len(file) /\ DOMAIN text = 1 .. n
      /\ DOMAIN file = 1 .. Len(file)
    BY <1>2
<1>4. Range(text) \subseteq Range(WithBlock(text))
  <2>1. \A i \in 1 .. n : i \in 1 .. Len(file)
    BY <1>1
  <2>. QED BY <1>2, <1>3, <2>1 DEF Range
<1>5. Range(WithBlock(text)) \subseteq Range(text) \cup Range(file)
  <2>1. \A i \in 1 .. Len(file) : i \in 1 .. n \/ i \in n + 1 .. Len(file)
    BY <1>1
  <2>. QED BY <1>2, <1>3, <2>1 DEF Range
<1>6. ASSUME \A i \in 1 .. n : text[i] = file[i] PROVE WithBlock(text) = file
  <2>1. \A i \in 1 .. Len(file) : WithBlock(text)[i] = file[i]
    <3>1. \A i \in 1 .. Len(file) : i \in 1 .. n \/ i \in n + 1 .. Len(file)
      BY <1>1
    <3>. QED BY <1>2, <1>6, <3>1
  <2>. QED BY <1>2, <2>1, SeqEqual
<1>7. text = SubSeq(file, 1, n) => \A i \in 1 .. n : text[i] = file[i]
    BY <1>1
<1>. QED BY <1>2, <1>4, <1>5, <1>6, <1>7
-------------------------------------------------------------------------------
\* modify has read a head of the file, begins to write at offset 0, and writes no
\* address it was told to erase; the lines written and left are keys, each once.
ModInv ==
    /\ mod.at = "idle" => mod = Idle
    /\ mod.at = "read" => /\ mod.text = SubSeq(file, 1, Len(mod.text))
                          /\ Len(mod.text) <= Len(file)
    /\ mod.at # "write" => mod.lines = 0
    /\ mod.at = "write" => mod.todo \cap mod.named = {}
    /\ mod.lines + Cardinality(mod.todo) <= Cardinality(Keys)

\* As long as no accident happened, every line is an address; what modify still has
\* to write is what is missing in the file, and goes behind its last line.
FileKept ==
    /\ file \in Seq(Addresses) /\ mod.text \in Seq(Addresses)
    /\ server.text \in Seq(Addresses) /\ mod.todo \subseteq Addresses
    /\ mod.at = "cin" => mod.todo = expected
    /\ Range(file) \cup (IF mod.at = "write" THEN mod.todo ELSE {}) = expected
    /\ Unwritten => Len(file) = mod.lines
FileInv == ~disturbed => FileKept

\* The first block a server reads is the whole file as it was then, and every later
\* one holds addresses that were expected meanwhile.
ServerInv ==
    /\ server.at = "start" => server.text = <<>>
    /\ server.at # "start" => expected \subseteq reading.ever
    /\ server.at = "read" /\ ~disturbed =>
          /\ Range(server.text) \subseteq reading.ever
          /\ ~reading.torn => reading.always \subseteq Range(server.text)

IInv ==
    TypeOK /\ ModInv /\ ModifyPrefixKept /\ FileInv /\ ServerInv /\ StartSeesRegistered

LEMMA InitInv == Init => IInv
<1>. SUFFICES ASSUME Init PROVE IInv
    OBVIOUS
<1>. USE DEF Init, Idle
<1>1. Cardinality({}) = 0 /\ Cardinality(Keys) \in Nat
    BY KeysAreFinite, FS_EmptySet
<1>2. TypeOK
  <2>1. mod \in Modifying
    BY <1>1 DEF Modifying
  <2>2. reg \in [Registers -> Registering] /\ server \in Starting /\ reading \in Noted
    BY DEF Registering, Starting, Noted
  <2>3. file \in Seq(Keys) /\ modifies \in 0 .. MaxModifies
    OBVIOUS
  <2>. QED BY <2>1, <2>2, <2>3 DEF TypeOK
<1>3. ModInv /\ ModifyPrefixKept
    BY <1>1 DEF ModInv, ModifyPrefixKept
<1>4. Range(file) = {}
    BY DEF Range
<1>5. FileInv
    BY <1>4 DEF FileInv, FileKept, Unwritten
<1>6. ServerInv /\ StartSeesRegistered
    BY DEF ServerInv, StartSeesRegistered
<1>. QED BY <1>2, <1>3, <1>5, <1>6 DEF IInv
-------------------------------------------------------------------------------
LEMMA TypeStep ==
    ASSUME TypeOK, ModInv, [Next]_vars
    PROVE  TypeOK'
<1>. USE DEF TypeOK, history
<1>1. ASSUME NEW r \in Registers, Type(r) PROVE TypeOK'
  <2>1. reg' \in [Registers -> Registering]
    BY <1>1 DEF Type, Registering
  <2>. QED BY <1>1, <2>1 DEF Type
<1>2. ASSUME NEW r \in Registers, AppendLine(r) PROVE TypeOK'
  <2>. USE DEF AppendLine, Appended
  <2>1. reg[r].todo \in SUBSET Addresses /\ reg[r].todo \in SUBSET Keys /\ reg[r].todo # {}
    BY <1>2 DEF Registering, Keys
  <2>2. First(reg[r].todo) \in Addresses /\ First(reg[r].todo) \in Keys
    BY <2>1, FirstOfMap
  <2>3. file' \in Seq(Keys)
    BY <1>2, <2>2, LinesOfAppend
  <2>4. reg' \in [Registers -> Registering]
    BY <1>2 DEF Registering
  <2>5. reading' \in Noted
    BY <1>2, <2>2 DEF Expect, Noted
  <2>6. expected' \subseteq Addresses /\ disturbed' \in BOOLEAN
    BY <1>2, <2>2 DEF Expect
  <2>. QED BY <1>2, <2>3, <2>4, <2>5, <2>6
<1>3. ASSUME NEW r \in Registers, EndRegister(r) PROVE TypeOK'
  <2>1. reg' \in [Registers -> Registering]
    BY <1>3 DEF EndRegister, Registering
  <2>. QED BY <1>3, <2>1 DEF EndRegister
<1>4. CASE StartModify
  <2>1. mod' \in Modifying
    BY <1>4 DEF StartModify, Modifying
  <2>. QED BY <1>4, <2>1 DEF StartModify
<1>5. CASE ReadBlock
  <2>1. mod.text \in Seq(Keys)
    BY DEF Modifying
  <2>2. WithBlock(mod.text) \in Seq(Keys)
    BY <1>5, <2>1, LinesOfBlock DEF ReadBlock, AtEof
  <2>3. mod' \in Modifying
    BY <1>5, <2>2 DEF ReadBlock, Modifying
  <2>. QED BY <1>5, <2>3 DEF ReadBlock
<1>6. CASE ReadEof
  <2>1. mod.text \in Seq(Keys)
    BY DEF Modifying
  <2>2. Parsed(mod.text) \subseteq Keys /\ EMPTY \in Keys
    BY <2>1, ParsedKeys DEF Keys
  <2>3. mod' \in Modifying
    BY <1>6, <2>2 DEF ReadEof, Modifying
  <2>. QED BY <1>6, <2>3 DEF ReadEof
<1>7. CASE Truncate
  <2>1. mod' \in Modifying
    BY <1>7 DEF Truncate, Rewrite, Modifying
  <2>2. expected' \subseteq Addresses /\ reading' \in Noted
    <3>1. PICK S \in SUBSET Addresses : Expect(expected \ S)
      BY <1>7 DEF Truncate, Rewrite
    <3>2. expected' \subseteq Addresses
      BY <3>1 DEF Expect
    <3>3. reading' \in Noted
      BY <3>1 DEF Expect, Noted
    <3>. QED BY <3>2, <3>3
  <2>. QED BY <1>7, <2>1, <2>2 DEF Truncate, Rewrite
<1>8. CASE WriteLine
  <2>. USE DEF WriteLine, Written
  <2>1. mod.todo # {} /\ mod.todo \in SUBSET Keys /\ mod.lines \in Nat
    BY <1>8 DEF Unwritten, Modifying
  <2>2. First(mod.todo) \in mod.todo /\ First(mod.todo) \in Keys
    BY <2>1, FirstOfMap
  <2>3. mod.lines + 1 \in 0 .. Cardinality(Keys)
    <3>1. /\ Cardinality(mod.todo) \in Nat /\ Cardinality(mod.todo \ {First(mod.todo)}) \in Nat
          /\ Cardinality(mod.todo \ {First(mod.todo)}) = Cardinality(mod.todo) - 1
      BY <2>1, <2>2, CardinalityOfRest
    <3>. QED BY <2>1, <3>1, KeysAreFinite DEF ModInv
  <2>4. mod' \in Modifying
    BY <1>8, <2>3 DEF Modifying
  <2>5. file' \in Seq(Keys)
    <3>1. Append(file, First(mod.todo)) \in Seq(Keys)
      BY <2>2, LinesOfAppend
    <3>2. \A k \in 1 .. Len(file) : [file EXCEPT ![k] = First(mod.todo)] \in Seq(Keys)
      BY <2>2
    <3>. QED BY <1>8, <2>1, <3>1, <3>2
  <2>. QED BY <1>8, <2>4, <2>5
<1>9. CASE EndModify \/ KillModify
  <2>1. 0 \in 0 .. Cardinality(Keys) /\ << >> \in Seq(Keys)
    BY KeysAreFinite
  <2>2. Idle \in Modifying
    BY <2>1 DEF Idle, Modifying
  <2>3. mod' \in Modifying
    BY <1>9, <2>2 DEF EndModify, KillModify
  <2>. QED BY <1>9, <2>3 DEF EndModify, KillModify, Unwritten
<1>10. CASE ServerBlock
  <2>1. server.text \in Seq(Keys)
    BY DEF Starting
  <2>2. WithBlock(server.text) \in Seq(Keys)
    BY <1>10, <2>1, LinesOfBlock DEF ServerBlock, AtEof
  <2>3. server' \in Starting
    BY <1>10, <2>2 DEF ServerBlock, Starting
  <2>4. reading' \in Noted
    BY <1>10 DEF ServerBlock, Beginning, Unwritten, Noted
  <2>. QED BY <1>10, <2>3, <2>4 DEF ServerBlock
<1>11. CASE ServerEof
  <2>1. server.text \in Seq(Keys)
    BY DEF Starting
  <2>2. Parsed(server.text) \cup {EMPTY} \subseteq Keys
    BY <2>1, ParsedKeys DEF Keys
  <2>3. server' \in Starting
    BY <1>11 DEF ServerEof, Loaded, Starting
  <2>4. reading' \in Noted
    BY <1>11 DEF ServerEof, Loaded, Beginning, Unwritten, Noted
  <2>. QED BY <1>11, <2>2, <2>3, <2>4 DEF ServerEof, Loaded
<1>12. CASE UNCHANGED vars
    BY <1>12 DEF vars
<1>. QED BY <1>1, <1>2, <1>3, <1>4, <1>5, <1>6, <1>7, <1>8, <1>9, <1>10, <1>11, <1>12
         DEF Next, Register, Modify

\* Steps that leave the file and modify alone.
Elsewhere ==
    \/ \E r \in Registers : Type(r) \/ EndRegister(r)
    \/ ServerBlock \/ ServerEof \/ UNCHANGED vars

LEMMA ModStep ==
    ASSUME TypeOK, ModInv, ModifyPrefixKept, [Next]_vars
    PROVE  ModInv' /\ ModifyPrefixKept'
<1>0. /\ mod \in Modifying /\ file \in Seq(Keys) /\ mod.text \in Seq(Keys)
      /\ mod.todo \in SUBSET Keys /\ mod.lines \in Nat /\ Len(file) \in Nat
    BY DEF TypeOK, Modifying
<1>1. CASE Elsewhere
  <2>1. UNCHANGED <<file, mod>>
    BY <1>1 DEF Elsewhere, Type, EndRegister, ServerBlock, ServerEof, Loaded, vars
  <2>. QED BY <2>1 DEF ModInv, ModifyPrefixKept
<1>2. ASSUME NEW r \in Registers, AppendLine(r) PROVE ModInv' /\ ModifyPrefixKept'
  <2>. DEFINE x == First(reg[r].todo)
  <2>1. reg[r].todo \in SUBSET Keys /\ reg[r].todo # {}
    BY <1>2 DEF AppendLine, Appended, TypeOK, Registering, Keys
  <2>2. x \in Keys /\ file' = Append(file, x) /\ mod' = mod
    BY <1>2, <2>1, FirstOfMap DEF AppendLine, Appended
  <2>. HIDE DEF x
  <2>3. /\ file' \in Seq(Keys) /\ Len(file') = Len(file) + 1
        /\ \A i \in 1 .. Len(file) : file'[i] = file[i]
    BY <1>0, <2>2, LinesOfAppend
  <2>4. mod.at = "read" => mod.text = SubSeq(file', 1, Len(mod.text)) /\ Len(mod.text) <= Len(file')
    <3>. SUFFICES ASSUME mod.at = "read"
                  PROVE  mod.text = SubSeq(file', 1, Len(mod.text)) /\ Len(mod.text) <= Len(file')
      OBVIOUS
    <3>. DEFINE n == Len(mod.text)
    <3>1. mod.text = SubSeq(file, 1, n) /\ n <= Len(file) /\ n \in Nat
      BY <1>0 DEF ModInv
    <3>2. SubSeq(file', 1, n) \in Seq(Keys) /\ Len(SubSeq(file', 1, n)) = n
      BY <2>3, <3>1, <1>0
    <3>3. \A i \in 1 .. n : SubSeq(file', 1, n)[i] = mod.text[i]
      <4>. SUFFICES ASSUME NEW i \in 1 .. n PROVE SubSeq(file', 1, n)[i] = mod.text[i]
        OBVIOUS
      <4>1. SubSeq(file', 1, n)[i] = file'[i] /\ SubSeq(file, 1, n)[i] = file[i]
        BY <1>0, <2>3, <3>1
      <4>2. i \in 1 .. Len(file)
        BY <1>0, <3>1
      <4>. QED BY <2>3, <3>1, <4>1, <4>2
    <3>. QED BY <1>0, <2>3, <3>1, <3>2, <3>3, SeqEqual
  <2>5. ModInv'
    BY <2>2, <2>4 DEF ModInv
  <2>6. ModifyPrefixKept'
    <3>. SUFFICES ASSUME mod.at = "write" PROVE ModifyPrefixKept'
      BY <2>2 DEF ModifyPrefixKept
    <3>1. \A i \in 1 .. mod.lines : i \in 1 .. Len(file)
      BY <1>0 DEF ModifyPrefixKept
    <3>. QED BY <1>0, <2>2, <2>3, <3>1 DEF ModifyPrefixKept
  <2>. QED BY <2>5, <2>6
<1>3. CASE StartModify
  <2>1. mod' = [Idle EXCEPT !.at = "read"] /\ file' = file
    BY <1>3 DEF StartModify, ModInv
  <2>2. SubSeq(file, 1, 0) = << >> /\ Len(<< >>) = 0
    BY <1>0
  <2>. QED BY <1>0, <1>3, <2>1, <2>2 DEF StartModify, Idle, ModInv, ModifyPrefixKept
<1>4. CASE ReadBlock
  <2>1. mod' = [mod EXCEPT !.text = file] /\ mod.at = "read" /\ file' = file
    <3>1. mod.text = SubSeq(file, 1, Len(mod.text)) /\ Len(file) > Len(mod.text)
      BY <1>0, <1>4 DEF ReadBlock, ModInv, AtEof
    <3>2. WithBlock(mod.text) = file
      BY <1>0, <3>1, LinesOfBlock
    <3>. QED BY <1>4, <3>2 DEF ReadBlock
  <2>2. SubSeq(file, 1, Len(file)) = file
    BY <1>0
  <2>3. /\ mod'.at = "read" /\ mod'.text = file /\ mod'.todo = mod.todo
        /\ mod'.lines = mod.lines
    BY <1>0, <2>1 DEF Modifying
  <2>. QED BY <1>0, <2>1, <2>2, <2>3 DEF ModInv, ModifyPrefixKept
<1>5. CASE ReadEof
  <2>1. /\ mod'.at = "cin" /\ mod.at = "read" /\ mod'.lines = mod.lines
        /\ mod'.todo = IF mod.text = << >> THEN {EMPTY} ELSE Parsed(mod.text)
    BY <1>0, <1>5 DEF ReadEof, Modifying
  <2>2. mod'.todo \in SUBSET Keys
    BY <1>0, <2>1, ParsedKeys DEF Keys
  <2>3. mod'.lines = 0
    BY <2>1 DEF ModInv
  <2>4. mod'.lines + Cardinality(mod'.todo) <= Cardinality(Keys)
    BY <2>2, <2>3, CardinalityOfRest
  <2>. QED BY <2>1, <2>3, <2>4 DEF ModInv, ModifyPrefixKept
<1>6. CASE Truncate
  <2>1. PICK S \in SUBSET Addresses :
           mod' = [mod EXCEPT !.at = "write", !.todo = @ \ S, !.named = S]
    BY <1>6 DEF Truncate, Rewrite
  <2>2. /\ mod'.at = "write" /\ mod'.todo = mod.todo \ S /\ mod'.named = S
        /\ mod'.lines = 0
    BY <1>0, <1>6, <2>1 DEF Truncate, Rewrite, Modifying, ModInv
  <2>3. mod'.lines + Cardinality(mod'.todo) <= Cardinality(Keys)
    <3>1. mod.todo \ S \in SUBSET Keys
      BY <1>0
    <3>. QED BY <2>2, <3>1, CardinalityOfRest
  <2>. QED BY <2>2, <2>3, EmptySeq, <1>6 DEF ModInv, ModifyPrefixKept, Truncate, Rewrite
<1>7. CASE WriteLine
  <2>. DEFINE x == First(mod.todo)
              k == mod.lines + 1
  <2>1. mod.todo # {} /\ mod.at = "write"
    BY <1>7 DEF WriteLine, Written, Unwritten
  <2>2. x \in mod.todo /\ x \in Keys /\ \A b \in mod.todo \ {x} : x < b
    BY <1>0, <2>1, FirstOfMap
  <2>3. /\ mod'.at = "write" /\ mod'.todo = mod.todo \ {x} /\ mod'.lines = k
        /\ mod'.named = mod.named
    BY <1>0, <1>7, <2>1 DEF WriteLine, Written, Modifying
  <2>4. file' = IF k <= Len(file) THEN [file EXCEPT ![k] = x] ELSE Append(file, x)
    BY <1>7 DEF WriteLine, Written
  <2>. HIDE DEF x
  <2>5. mod.lines <= Len(file)
    BY <2>1 DEF ModifyPrefixKept
  <2>6. /\ k <= Len(file') /\ file'[k] = x
        /\ \A i \in 1 .. mod.lines : file'[i] = file[i]
    <3>1. CASE k <= Len(file)
      BY <1>0, <2>4, <3>1
    <3>2. CASE ~(k <= Len(file))
      <4>1. mod.lines = Len(file) /\ file' = Append(file, x)
        BY <1>0, <2>4, <2>5, <3>2
      <4>. QED BY <1>0, <2>2, <4>1, LinesOfAppend
    <3>. QED BY <3>1, <3>2
  <2>7. \A i \in 1 .. k : i \in 1 .. mod.lines \/ i = k
    BY <1>0
  <2>8. /\ Cardinality(mod.todo) \in Nat /\ Cardinality(mod.todo \ {x}) \in Nat
        /\ Cardinality(mod.todo \ {x}) = Cardinality(mod.todo) - 1
    BY <1>0, <2>2, CardinalityOfRest
  <2>9. ModInv'
    <3>1. mod'.lines + Cardinality(mod'.todo) <= Cardinality(Keys)
      BY <1>0, <2>3, <2>8, KeysAreFinite DEF ModInv
    <3>. QED BY <2>1, <2>3, <3>1 DEF ModInv
  <2>10. \A i, j \in 1 .. k : i < j => file'[i] < file'[j]
    <3>. SUFFICES ASSUME NEW i \in 1 .. k, NEW j \in 1 .. k, i < j PROVE file'[i] < file'[j]
      OBVIOUS
    <3>1. i \in 1 .. mod.lines
      BY <1>0
    <3>2. CASE j \in 1 .. mod.lines
      BY <2>1, <2>6, <3>1, <3>2 DEF ModifyPrefixKept
    <3>3. CASE j = k
      BY <2>1, <2>2, <2>6, <3>1, <3>3 DEF ModifyPrefixKept
    <3>. QED BY <2>7, <3>2, <3>3
  <2>11. \A i \in 1 .. k : file'[i] \notin mod.named /\ \A a \in mod.todo \ {x} : file'[i] < a
    <3>. SUFFICES ASSUME NEW i \in 1 .. k
                  PROVE  file'[i] \notin mod.named /\ \A a \in mod.todo \ {x} : file'[i] < a
      OBVIOUS
    <3>1. CASE i \in 1 .. mod.lines
      BY <2>1, <2>6, <3>1 DEF ModifyPrefixKept
    <3>2. CASE i = k
      BY <2>1, <2>2, <2>6, <3>2 DEF ModInv
    <3>. QED BY <2>7, <3>1, <3>2
  <2>12. ModifyPrefixKept'
    BY <2>3, <2>6, <2>10, <2>11 DEF ModifyPrefixKept
  <2>. QED BY <2>9, <2>12
<1>8. CASE EndModify \/ KillModify
  <2>1. mod' = Idle
    BY <1>8 DEF EndModify, KillModify
  <2>. QED BY <2>1, KeysAreFinite, FS_EmptySet DEF Idle, ModInv, ModifyPrefixKept
<1>. QED BY <1>1, <1>2, <1>3, <1>4, <1>5, <1>6, <1>7, <1>8
         DEF Next, Register, Modify, Elsewhere
-------------------------------------------------------------------------------
LEMMA RangeOfNothing == Range(<< >>) = {}
    BY DEF Range

LEMMA DisturbedGrows == TypeOK /\ [Next]_vars /\ disturbed => disturbed'
    BY DEF Next, Register, Modify, Type, AppendLine, Appended, EndRegister, StartModify,
           ReadBlock, ReadEof, Truncate, Rewrite, WriteLine, Written, EndModify, KillModify,
           ServerBlock, ServerEof, Loaded, vars, history

LEMMA FileStep ==
    ASSUME TypeOK, ModInv, FileInv, [Next]_vars
    PROVE  FileInv'
<1>. SUFFICES ASSUME ~disturbed' PROVE FileKept'
    BY DEF FileInv
<1>0. /\ FileKept /\ mod \in Modifying /\ server \in Starting
      /\ file \in Seq(Addresses) /\ mod.text \in Seq(Addresses) /\ Len(file) \in Nat
      /\ server.text \in Seq(Addresses) /\ mod.todo \in SUBSET Addresses
      /\ mod.todo \in SUBSET Keys
    BY DisturbedGrows DEF TypeOK, FileInv, FileKept, Keys
<1>1. ASSUME NEW r \in Registers, Type(r) \/ EndRegister(r) PROVE FileKept'
    BY <1>0, <1>1 DEF Type, EndRegister, FileKept, Unwritten, history
<1>2. ASSUME NEW r \in Registers, AppendLine(r) PROVE FileKept'
  <2>. DEFINE x == First(reg[r].todo)
  <2>1. /\ reg[r].todo \in SUBSET Keys /\ reg[r].todo # {}
        /\ reg[r].todo \in SUBSET Addresses
    BY <1>2 DEF AppendLine, Appended, TypeOK, Registering, Keys
  <2>2. /\ x \in Addresses /\ file' = Append(file, x) /\ UNCHANGED <<mod, server>>
        /\ expected' = expected \cup {x} /\ mod.at # "cin" /\ ~Unwritten
    BY <1>2, <2>1, FirstOfMap DEF AppendLine, Appended, Expect
  <2>. HIDE DEF x
  <2>3. file' \in Seq(Addresses) /\ Range(file') = Range(file) \cup {x}
    BY <1>0, <2>2, LinesOfAppend
  <2>4. ~Unwritten'
    BY <2>2 DEF Unwritten
  <2>5. Range(file') \cup (IF mod'.at = "write" THEN mod'.todo ELSE {}) = expected'
    BY <1>0, <2>2, <2>3 DEF FileKept
  <2>. QED BY <1>0, <2>2, <2>3, <2>4, <2>5 DEF FileKept
<1>3. CASE StartModify
  <2>1. /\ UNCHANGED <<file, server, expected>> /\ mod'.at = "read" /\ mod.at = "idle"
        /\ mod'.text = mod.text /\ mod'.todo = mod.todo
    BY <1>0, <1>3 DEF StartModify, Modifying, history
  <2>. QED BY <1>0, <2>1 DEF FileKept, Unwritten
<1>4. CASE ReadBlock
  <2>1. /\ UNCHANGED <<file, server, expected>> /\ mod'.at = "read" /\ mod.at = "read"
        /\ mod'.text = WithBlock(mod.text) /\ mod'.todo = mod.todo
        /\ Len(file) > Len(mod.text)
    BY <1>0, <1>4 DEF ReadBlock, Modifying, AtEof, history
  <2>2. mod'.text \in Seq(Addresses)
    BY <1>0, <2>1, LinesOfBlock
  <2>. QED BY <1>0, <2>1, <2>2 DEF FileKept, Unwritten
<1>5. CASE ReadEof
  <2>1. /\ UNCHANGED <<file, server, expected>> /\ mod'.at = "cin" /\ mod.at = "read"
        /\ mod'.text = mod.text /\ mod.text # << >> /\ mod'.todo = Parsed(mod.text)
        /\ Len(file) <= Len(mod.text)
    BY <1>0, <1>5 DEF ReadEof, Modifying, AtEof
  <2>2. mod.text = file
    <3>1. mod.text = SubSeq(file, 1, Len(mod.text)) /\ Len(mod.text) <= Len(file)
      BY <2>1 DEF ModInv
    <3>2. Len(mod.text) = Len(file)
      BY <1>0, <2>1, <3>1
    <3>. QED BY <1>0, <3>1, <3>2
  <2>3. mod'.todo = Range(file)
    BY <1>0, <2>1, <2>2, ParsedAddresses DEF Range
  <2>4. Range(file) = expected
    BY <1>0, <2>1 DEF FileKept
  <2>5. mod'.todo \subseteq Addresses
    BY <1>0, <2>3 DEF Range
  <2>. QED BY <1>0, <2>1, <2>3, <2>4, <2>5 DEF FileKept, Unwritten
<1>6. CASE Truncate
  <2>1. PICK S \in SUBSET Addresses :
           /\ mod' = [mod EXCEPT !.at = "write", !.todo = @ \ S, !.named = S]
           /\ Expect(expected \ S)
    BY <1>6 DEF Truncate, Rewrite
  <2>2. /\ file' = << >> /\ server' = server /\ mod.at = "cin"
        /\ mod'.at = "write" /\ mod'.todo = mod.todo \ S /\ mod'.lines = 0
        /\ mod'.text = mod.text /\ expected' = expected \ S
    BY <1>0, <1>6, <2>1 DEF Truncate, Rewrite, Modifying, ModInv, Expect
  <2>3. mod.todo = expected
    BY <1>0, <2>2 DEF FileKept
  <2>4. << >> \in Seq(Addresses) /\ Len(<< >>) = 0
    OBVIOUS
  <2>. QED BY <1>0, <2>2, <2>3, <2>4, RangeOfNothing DEF FileKept, Unwritten
<1>7. CASE WriteLine
  <2>. DEFINE x == First(mod.todo)
  <2>1. mod.todo # {} /\ mod.at = "write" /\ Len(file) = mod.lines
    BY <1>0, <1>7 DEF WriteLine, Written, Unwritten, FileKept
  <2>2. x \in mod.todo /\ x \in Addresses
    BY <1>0, <2>1, FirstOfMap
  <2>3. /\ file' = Append(file, x) /\ UNCHANGED <<server, expected>>
        /\ mod'.at = "write" /\ mod'.todo = mod.todo \ {x} /\ mod'.lines = mod.lines + 1
        /\ mod'.text = mod.text
    BY <1>0, <1>7, <2>1 DEF WriteLine, Written, Modifying, history
  <2>. HIDE DEF x
  <2>4. /\ file' \in Seq(Addresses) /\ Range(file') = Range(file) \cup {x}
        /\ Len(file') = Len(file) + 1
    BY <1>0, <2>2, <2>3, LinesOfAppend
  <2>5. Range(file') \cup mod'.todo = expected
    BY <1>0, <2>1, <2>2, <2>3, <2>4 DEF FileKept
  <2>. QED BY <1>0, <2>1, <2>3, <2>4, <2>5 DEF FileKept
<1>8. CASE EndModify \/ KillModify
  <2>1. /\ mod' = Idle /\ UNCHANGED <<file, server, expected>>
        /\ mod.at = "write" => mod.todo = {}
    BY <1>8 DEF EndModify, KillModify, Unwritten, history
  <2>2. Range(file) = expected
    BY <1>0, <2>1 DEF FileKept
  <2>3. << >> \in Seq(Addresses)
    OBVIOUS
  <2>. QED BY <1>0, <2>1, <2>2, <2>3 DEF FileKept, Unwritten, Idle
<1>9. CASE ServerBlock
  <2>1. /\ UNCHANGED <<file, mod, expected>> /\ server'.text = WithBlock(server.text)
        /\ Len(file) > Len(server.text)
    BY <1>0, <1>9 DEF ServerBlock, AtEof
  <2>2. server'.text \in Seq(Addresses)
    BY <1>0, <2>1, LinesOfBlock
  <2>. QED BY <1>0, <2>1, <2>2 DEF FileKept, Unwritten
<1>10. CASE ServerEof
  <2>1. UNCHANGED <<file, mod, expected>> /\ server'.text = server.text
    BY <1>0, <1>10 DEF ServerEof, Loaded, Starting
  <2>. QED BY <1>0, <2>1 DEF FileKept, Unwritten
<1>11. CASE UNCHANGED vars
    BY <1>0, <1>11 DEF vars, history, FileKept, Unwritten
<1>. QED BY <1>1, <1>2, <1>3, <1>4, <1>5, <1>6, <1>7, <1>8, <1>9, <1>10, <1>11
         DEF Next, Register, Modify
-------------------------------------------------------------------------------
\* Where the other programs do anything to a server, they change what is expected.
LEMMA ServerElsewhere ==
    ASSUME TypeOK, ServerInv, StartSeesRegistered,
           UNCHANGED <<server, g_allow_map>>, disturbed => disturbed',
           NEW S \in SUBSET Addresses, Expect(S)
    PROVE  ServerInv' /\ StartSeesRegistered'
<1>1. /\ expected' = S /\ reading'.torn = reading.torn
      /\ reading'.always = reading.always \cap S /\ reading'.ever = reading.ever \cup S
    BY DEF Expect, TypeOK, Noted
<1>2. ServerInv'
    BY <1>1 DEF ServerInv
<1>3. StartSeesRegistered'
    BY <1>1 DEF StartSeesRegistered
<1>. QED BY <1>2, <1>3

LEMMA ServerStep ==
    ASSUME TypeOK, FileInv, ServerInv, StartSeesRegistered, [Next]_vars
    PROVE  ServerInv' /\ StartSeesRegistered'
<1>0. server \in Starting /\ reading \in Noted /\ (disturbed => disturbed')
    BY DisturbedGrows DEF TypeOK
<1>1. CASE \/ \E r \in Registers : Type(r) \/ EndRegister(r)
           \/ StartModify \/ ReadBlock \/ ReadEof \/ WriteLine \/ EndModify \/ KillModify
           \/ UNCHANGED vars
  <2>1. UNCHANGED <<server, g_allow_map>> /\ UNCHANGED <<expected, reading>>
    BY <1>1 DEF Type, EndRegister, StartModify, ReadBlock, ReadEof, WriteLine, Written,
                EndModify, KillModify, vars, history
  <2>. QED BY <1>0, <2>1 DEF ServerInv, StartSeesRegistered
<1>2. ASSUME NEW r \in Registers, AppendLine(r) PROVE ServerInv' /\ StartSeesRegistered'
  <2>1. reg[r].todo \in SUBSET Keys /\ reg[r].todo # {} /\ reg[r].todo \in SUBSET Addresses
    BY <1>2 DEF AppendLine, Appended, TypeOK, Registering, Keys
  <2>2. expected \cup {First(reg[r].todo)} \in SUBSET Addresses
    <3>1. First(reg[r].todo) \in Addresses
      BY <2>1, FirstOfMap
    <3>. QED BY <3>1 DEF TypeOK
  <2>. QED BY <1>0, <1>2, <2>2, ServerElsewhere DEF AppendLine, Appended
<1>3. CASE Truncate
  <2>1. PICK S \in SUBSET Addresses : Expect(expected \ S)
    BY <1>3 DEF Truncate, Rewrite
  <2>2. expected \ S \in SUBSET Addresses
    BY DEF TypeOK
  <2>. QED BY <1>0, <1>3, <2>1, <2>2, ServerElsewhere DEF Truncate, Rewrite
<1>4. ASSUME ~disturbed
      PROVE  /\ file \in Seq(Addresses) /\ server.text \in Seq(Addresses)
             /\ Range(file) \subseteq expected /\ Len(file) \in Nat
             /\ ~Unwritten => Range(file) = expected
             /\ Parsed(server.text) = Range(server.text)
             /\ server.at = "start" => server.text = << >>
  <2>1. /\ FileKept /\ file \in Seq(Addresses) /\ server.text \in Seq(Addresses)
    BY <1>4 DEF FileInv, FileKept
  <2>2. Range(file) \subseteq expected /\ (~Unwritten => Range(file) = expected)
    BY <2>1 DEF FileKept, Unwritten
  <2>3. Parsed(server.text) = Range(server.text)
    BY <2>1, ParsedAddresses DEF Range
  <2>. QED BY <2>1, <2>2, <2>3 DEF ServerInv
<1>5. CASE ServerBlock
  <2>1. /\ server'.at = "read" /\ server'.text = WithBlock(server.text)
        /\ UNCHANGED <<expected, disturbed, g_allow_map>> /\ Len(file) > Len(server.text)
        /\ server.at \in {"start", "read"} /\ Beginning
    BY <1>5 DEF ServerBlock, AtEof
  <2>2. StartSeesRegistered'
    BY <2>1 DEF StartSeesRegistered
  <2>3. CASE server.at = "start"
    <3>1. reading'.torn = Unwritten /\ reading'.always = expected /\ reading'.ever = expected
      BY <2>1, <2>3 DEF Beginning
    <3>2. ASSUME ~disturbed
          PROVE  /\ Range(server'.text) \subseteq expected
                 /\ ~Unwritten => Range(server'.text) = expected
      <4>1. server'.text = file
        BY <1>4, <2>1, <2>3, <3>2, LinesOfBlock
      <4>. QED BY <1>4, <3>2, <4>1
    <3>. QED BY <2>1, <2>2, <3>1, <3>2 DEF ServerInv
  <2>4. CASE server.at = "read"
    <3>1. reading' = reading
      BY <2>1, <2>4 DEF Beginning
    <3>2. ASSUME ~disturbed
          PROVE  /\ Range(server.text) \subseteq Range(server'.text)
                 /\ Range(server'.text) \subseteq Range(server.text) \cup expected
      <4>1. /\ Range(server.text) \subseteq Range(WithBlock(server.text))
            /\ Range(WithBlock(server.text)) \subseteq Range(server.text) \cup Range(file)
        BY <1>4, <2>1, <3>2, LinesOfBlock
      <4>. QED BY <1>4, <2>1, <3>2, <4>1
    <3>. QED BY <2>1, <2>2, <2>4, <3>1, <3>2 DEF ServerInv
  <2>. QED BY <2>1, <2>3, <2>4
<1>6. CASE ServerEof
  <2>1. /\ server'.at = "up" /\ server'.text = server.text
        /\ UNCHANGED <<expected, disturbed>> /\ Len(file) <= Len(server.text)
        /\ g_allow_map' = Parsed(server.text) \cup {EMPTY}
        /\ server.at \in {"start", "read"} /\ Beginning
    BY <1>0, <1>6 DEF ServerEof, Loaded, AtEof, Starting
  <2>2. CASE server.at = "start"
    <3>1. reading'.torn = Unwritten /\ reading'.always = expected /\ reading'.ever = expected
      BY <2>1, <2>2 DEF Beginning
    <3>2. ASSUME ~disturbed, ~Unwritten
          PROVE  expected = {} /\ Parsed(server.text) = {}
      <4>1. server.text = << >> /\ Len(file) = 0
        BY <1>4, <2>1, <2>2, <3>2
      <4>2. file = << >>
        BY <1>4, <3>2, <4>1, EmptySeq
      <4>. QED BY <1>4, <3>2, <4>1, <4>2, RangeOfNothing
    <3>3. ServerInv'
      BY <2>1, <3>1 DEF ServerInv
    <3>4. StartSeesRegistered'
      BY <2>1, <3>1, <3>2 DEF StartSeesRegistered
    <3>. QED BY <3>3, <3>4
  <2>3. CASE server.at = "read"
    <3>1. reading' = reading
      BY <2>1, <2>3 DEF Beginning
    <3>2. ServerInv'
      BY <2>1, <2>3, <3>1 DEF ServerInv
    <3>3. StartSeesRegistered'
      BY <1>4, <2>1, <2>3, <3>1 DEF ServerInv, StartSeesRegistered
    <3>. QED BY <3>2, <3>3
  <2>. QED BY <2>1, <2>2, <2>3
<1>. QED BY <1>1, <1>2, <1>3, <1>5, <1>6 DEF Next, Register, Modify
-------------------------------------------------------------------------------
LEMMA Inductive == IInv /\ [Next]_vars => IInv'
<1>. SUFFICES ASSUME IInv, [Next]_vars PROVE IInv'
    OBVIOUS
<1>1. /\ TypeOK /\ ModInv /\ ModifyPrefixKept /\ FileInv /\ ServerInv
      /\ StartSeesRegistered
    BY DEF IInv
<1>2. TypeOK'
    BY <1>1, TypeStep
<1>3. ModInv' /\ ModifyPrefixKept'
    BY <1>1, ModStep
<1>4. FileInv'
    BY <1>1, FileStep
<1>5. ServerInv' /\ StartSeesRegistered'
    BY <1>1, ServerStep
<1>. QED BY <1>2, <1>3, <1>4, <1>5 DEF IInv

\* Every variable keeps its type, for any addresses and registers: modify writes no
\* more lines than there are keys.
THEOREM TypeCorrect == Spec => []TypeOK
<1>1. IInv => TypeOK
    BY DEF IInv
<1>. QED BY InitInv, Inductive, <1>1, PTL DEF Spec

\* However registers append while modify writes, what modify has written stays the
\* head of the file, in order and without the addresses it erased.
THEOREM PrefixCorrect == Spec => []ModifyPrefixKept
<1>1. IInv => ModifyPrefixKept
    BY DEF IInv
<1>. QED BY InitInv, Inductive, <1>1, PTL DEF Spec

\* Without the accidents noted in disturbed, the file is read as the addresses that
\* were registered and not erased, except while modify writes it.
THEOREM FileCorrect == Spec => []FileExact
<1>1. IInv => FileExact
  <2>. SUFFICES ASSUME IInv, ~disturbed, ~Unwritten
                PROVE  Parsed(file) \cap Addresses = expected
    BY DEF FileExact
  <2>1. FileKept /\ file \in Seq(Addresses) /\ expected \subseteq Addresses
    BY DEF IInv, TypeOK, FileInv, FileKept
  <2>2. Range(file) = expected
    BY <2>1 DEF FileKept, Unwritten
  <2>3. Parsed(file) = Range(file)
    BY <2>1, ParsedAddresses DEF Range
  <2>. QED BY <2>1, <2>2, <2>3
<1>. QED BY InitInv, Inductive, <1>1, PTL DEF Spec

\* A server that did not begin while modify wrote allows all that was registered all
\* the while it read, and nothing that never was, however the file changed under it.
THEOREM StartCorrect == Spec => []StartSeesRegistered
<1>1. IInv => StartSeesRegistered
    BY DEF IInv
<1>. QED BY InitInv, Inductive, <1>1, PTL DEF Spec
===============================================================================
