------------------------------ MODULE AllowList ------------------------------
(***************************************************************************)
(* register.txt and the three programs that open it without a lock:        *)
(* register.cpp appends the addresses its user types, modify.cpp reads the *)
(* file, erases addresses and writes the rest back, and test.cpp reads it  *)
(* into g_allow_map when the server starts.                                *)
(*                                                                         *)
(* A line is the address in it; every endl flushes one line.  All lines    *)
(* have one length, so a line written at an offset covers a line.  modify  *)
(* is run by one administrator.                                            *)
(***************************************************************************)
EXTENDS Naturals, FiniteSets, Sequences, SequencesExt

CONSTANTS
    Addresses,   \* numbers, in the order of the map's keys
    Registers,   \* the runs of register.cpp
    MaxModifies, \* bound: the runs of modify.cpp
    EMPTY,       \* the key "" with the port that was never read
    NOISE        \* a key that is no address: what a line out of step parses to

ASSUME AllowAssumption ==
    /\ Addresses \subseteq Nat /\ IsFiniteSet(Addresses) /\ MaxModifies \in Nat
    /\ {EMPTY, NOISE} \subseteq Nat \ Addresses /\ EMPTY # NOISE
    /\ \A a \in Addresses : EMPTY < a

Keys == Addresses \cup {EMPTY, NOISE}

VARIABLES
    file,        \* register.txt
    reg,         \* per run of register: where it is and what it has to write
    mod,         \* modify: where it is, the text read, my_map left to write,
                 \* the addresses named to it, and the lines written
    modifies,    \* the runs of modify begun
    server,      \* the start of the server: where it is, and the text read
    g_allow_map,
    expected,    \* history: what one program at a time would have made of the file
    disturbed,   \* history: a line was appended that modify had not read, a modify
                 \* was killed while it wrote, or it read a file of no line
    reading      \* history: of the server's start, whether modify was writing when
                 \* it began, and what was always and ever expected since

history == <<expected, disturbed, reading>>
vars == <<file, reg, mod, modifies, server, g_allow_map, history>>

Idle == [at |-> "idle", text |-> <<>>, todo |-> {}, named |-> {}, lines |-> 0]

Init ==
    /\ file = <<>>
    /\ reg = [r \in Registers |-> [at |-> "cin", todo |-> {}]]
    /\ mod = Idle /\ modifies = 0
    /\ server = [at |-> "start", text |-> <<>>]
    /\ g_allow_map = {}
    /\ expected = {} /\ disturbed = FALSE
    /\ reading = [torn |-> FALSE, always |-> {}, ever |-> {}]

\* The keys that file >> ip >> port makes of a text: behind an EMPTY line, which
\* is a port only, the head of the next one is taken for the port.
Parsed(text) ==
    LET portDue[i \in 0 .. Len(text)] == i > 0 /\ text[i] = EMPTY /\ ~portDue[i - 1]
    IN  {IF text[i] = EMPTY \/ portDue[i - 1] THEN NOISE ELSE text[i] : i \in DOMAIN text}

\* The next block of the file; there is none when it is not longer than what was
\* read before.
AtEof(text) == Len(file) <= Len(text)
WithBlock(text) == text \o SubSeq(file, Len(text) + 1, Len(file))

\* The map is written from its begin().
First(S) == CHOOSE a \in S : \A b \in S : a <= b

Expect(S) ==
    /\ expected' = S
    /\ reading' = [reading EXCEPT !.always = @ \cap S, !.ever = @ \cup S]
-------------------------------------------------------------------------------
(* register.cpp *)

Type(r) ==
    /\ reg[r].at = "cin"
    /\ \E S \in SUBSET Addresses : reg' = [reg EXCEPT ![r] = [at |-> "write", todo |-> S]]
    /\ UNCHANGED <<file, mod, modifies, server, g_allow_map, history>>

\* modify has emptied the file and not written all of it back.
Unwritten == mod.at = "write" /\ mod.todo # {}

\* One line of the loop, with O_APPEND.  The mutant AppendAtStart opens the file
\* without it and writes its first line at offset 0.
Appended(r, f) ==
    LET a == First(reg[r].todo)
    IN  /\ reg[r].at = "write" /\ reg[r].todo # {}
        /\ file' = f
        /\ reg' = [reg EXCEPT ![r].todo = @ \ {a}]
        /\ Expect(expected \cup {a})
        /\ disturbed' = (disturbed \/ mod.at = "cin" \/ Unwritten)
        /\ UNCHANGED <<mod, modifies, server, g_allow_map>>

AppendAtStart(r) == Appended(r, <<First(reg[r].todo)>> \o SubSeq(file, 2, Len(file)))
AppendLine(r) == Appended(r, Append(file, First(reg[r].todo)))

\* The program ends, or is killed, with the lines it has written.
EndRegister(r) ==
    /\ reg[r].at = "write"
    /\ reg' = [reg EXCEPT ![r] = [at |-> "done", todo |-> {}]]
    /\ UNCHANGED <<file, mod, modifies, server, g_allow_map, history>>
-------------------------------------------------------------------------------
(* modify.cpp *)

StartModify ==
    /\ mod.at = "idle" /\ modifies < MaxModifies
    /\ mod' = [mod EXCEPT !.at = "read"]
    /\ modifies' = modifies + 1
    /\ UNCHANGED <<file, reg, server, g_allow_map, history>>

ReadBlock ==
    /\ mod.at = "read" /\ ~AtEof(mod.text)
    /\ mod' = [mod EXCEPT !.text = WithBlock(@)]
    /\ UNCHANGED <<file, reg, modifies, server, g_allow_map, history>>

\* while(!eof) turns once more at the end and inserts ip and port as they are: the
\* last line again, or nothing at all that was read.
ReadEof ==
    /\ mod.at = "read" /\ AtEof(mod.text)
    /\ mod' = [mod EXCEPT !.at = "cin",
                          !.todo = IF mod.text = <<>> THEN {EMPTY} ELSE Parsed(mod.text)]
    /\ disturbed' = (disturbed \/ mod.text = <<>>)
    /\ UNCHANGED <<file, reg, modifies, server, g_allow_map, expected, reading>>

\* The user names addresses, and the file is opened for the rest.
Rewrite(f) ==
    /\ mod.at = "cin"
    /\ \E S \in SUBSET Addresses :
          /\ mod' = [mod EXCEPT !.at = "write", !.todo = @ \ S, !.named = S]
          /\ Expect(expected \ S)
    /\ file' = f
    /\ UNCHANGED <<reg, modifies, server, g_allow_map, disturbed>>

\* The mutant of Truncate: the file keeps its lines when it is opened.
OpenOnly == Rewrite(file)

\* ios::out alone empties the file.
Truncate == Rewrite(<<>>)

\* A line at modify's own offset, over what a register has written there.
Written(rest) ==
    LET k == mod.lines + 1
    IN  /\ Unwritten
        /\ file' = IF k <= Len(file) THEN [file EXCEPT ![k] = First(mod.todo)]
                   ELSE Append(file, First(mod.todo))
        /\ mod' = [mod EXCEPT !.todo = rest, !.lines = k]
        /\ UNCHANGED <<reg, modifies, server, g_allow_map, history>>

\* The mutant of WriteLine: the iterator stays where it is.
WriteSameLine == Written(mod.todo)

WriteLine == Written(mod.todo \ {First(mod.todo)})

EndModify ==
    /\ mod.at = "write" /\ mod.todo = {}
    /\ mod' = Idle
    /\ UNCHANGED <<file, reg, modifies, server, g_allow_map, history>>

KillModify ==
    /\ mod.at # "idle"
    /\ mod' = Idle
    /\ disturbed' = (disturbed \/ Unwritten)
    /\ UNCHANGED <<file, reg, modifies, server, g_allow_map, expected, reading>>
-------------------------------------------------------------------------------
(* The start of the server *)

Beginning ==
    reading' = IF server.at = "start"
               THEN [torn |-> Unwritten, always |-> expected, ever |-> expected]
               ELSE reading

ServerBlock ==
    /\ server.at \in {"start", "read"} /\ ~AtEof(server.text)
    /\ server' = [at |-> "read", text |-> WithBlock(server.text)]
    /\ Beginning
    /\ UNCHANGED <<file, reg, mod, modifies, g_allow_map, expected, disturbed>>

\* Here ip and port are new in every turn, so the last one inserts EMPTY.
Loaded(keys) ==
    /\ server.at \in {"start", "read"} /\ AtEof(server.text)
    /\ server' = [server EXCEPT !.at = "up"]
    /\ Beginning
    /\ g_allow_map' = keys \cup {EMPTY}
    /\ UNCHANGED <<file, reg, mod, modifies, expected, disturbed>>

\* The mutant of ServerEof: the loop ends before the last line is inserted.
LastLineLeft ==
    Loaded(IF server.text = <<>> THEN {} ELSE Parsed(Front(server.text)))

ServerEof == Loaded(Parsed(server.text))
-------------------------------------------------------------------------------
Register(r) == Type(r) \/ AppendLine(r) \/ EndRegister(r)
Modify ==
    \/ StartModify \/ ReadBlock \/ ReadEof \/ Truncate
    \/ WriteLine \/ EndModify \/ KillModify

Next ==
    \/ \E r \in Registers : Register(r)
    \/ Modify
    \/ ServerBlock \/ ServerEof

Spec == Init /\ [][Next]_vars
-------------------------------------------------------------------------------
Registering == [at : {"cin", "write", "done"}, todo : SUBSET Addresses]
Modifying ==
    [at : {"idle", "read", "cin", "write"}, text : Seq(Keys), todo : SUBSET Keys,
     named : SUBSET Addresses, lines : 0 .. Cardinality(Keys)]
Starting == [at : {"start", "read", "up"}, text : Seq(Keys)]
Noted == [torn : BOOLEAN, always : SUBSET Addresses, ever : SUBSET Addresses]

\* Every variable has its type.
TypeOK ==
    /\ file \in Seq(Keys)
    /\ reg \in [Registers -> Registering]
    /\ mod \in Modifying /\ modifies \in 0 .. MaxModifies
    /\ server \in Starting /\ g_allow_map \subseteq Keys
    /\ expected \subseteq Addresses /\ disturbed \in BOOLEAN /\ reading \in Noted

\* While modify writes, the head of the file is what it has written, in order and
\* without the addresses named to it, whatever registers append meanwhile.
ModifyPrefixKept ==
    mod.at = "write" =>
        /\ mod.lines <= Len(file)
        /\ \A i, j \in 1 .. mod.lines : i < j => file[i] < file[j]
        /\ \A i \in 1 .. mod.lines :
              file[i] \notin mod.named /\ \A a \in mod.todo : file[i] < a

\* Except while modify writes, the file holds the addresses that were registered
\* and not erased since, unless one of the accidents noted in disturbed happened.
FileExact ==
    ~disturbed /\ ~Unwritten => Parsed(file) \cap Addresses = expected

\* A server that did not begin to read while modify wrote allows every address that
\* was registered all the while it read, and none that never was.
StartSeesRegistered ==
    server.at = "up" /\ ~disturbed /\ ~reading.torn
        => /\ reading.always \subseteq g_allow_map
           /\ g_allow_map \cap Addresses \subseteq reading.ever
===============================================================================
