# ANTP relay: specifications, model checking and proofs

The repository is a small NAT relay (ANTP, "application net transport
protocol"). A client connects to the server, sends a SYN whose header is
encrypted, and is told `OK FOR CONNECT` once the server has opened a socket to
the destination; from then on every message on one of the two sockets is copied
to the other, until a FIN. The server (`src/src/test.cpp`) is one thread in an
epoll loop, a pool of 20 threads that run the handlers, and three log threads.

This directory models the parts of it whose correctness depends on the order of
steps of several threads and processes. All paths below are relative to the
repository; the code is in `src/`.

## Inventory

| Component | State | Operations | Interacts with |
|---|---|---|---|
| Thread pool, `thread_module.h`, `mutex_module.h` | `m_idle_list`, `m_busy_list`; per thread `m_event`, `m_state` | `CThreadPool::run`, `set_event`, `__move_to_busy`, `__move_to_idle`, `__invoke_move_to_idle`, the loop of `CWorkThread::run` | called by the event loop; hands `st_event` objects to its threads, which call `CFactory` |
| Event loop, `epoll_module.h` | the epoll set, `m_events`, `ready_sock`, `iter` | `wait_epoll`, `add_epoll`, `delete_epoll`, `__dispatch_event` | accepts clients, reads `g_sock_map`, drains `g_leave_queue` |
| Handlers, `event_module.h`, `inner_socket.h`, `inner_message.h` | `g_sock_map`, `g_leave_queue`, `g_allow_map`, `g_mutex`; per handler `m_event` | `CAckEvent`, `CTransEvent` with `splice_sock`, `CFinEventServer`; by accident `CSynEvent`, `CTxtEvent`, `CFinEventClient` | run on pool threads, share the globals with the loop |
| Clients, `inner_client.cpp`, `test1.cpp` | a socket, a loop counter | SYN, reply, TXT and echo, FIN, close | TCP |
| Echo peer, `out_server.cpp` | accepted connections | one connection after the other, `argv[1]` messages of each | TCP |
| Log, `logfile_module.h`, `f_log` in `test.cpp` | `m_log_buff`, `m_log_time`, the file | `push_log`, `write_log` | pushed to by the loop and the handlers |
| Embedded Python, `encrypt_module.h`, `encrypt_python_version01.h` | the interpreter, six references | construct, `initial`, `exec`, destroy | called by `CAckEvent` on several threads at once |
| Allow list, `register.cpp`, `modify.cpp`, `test.cpp:70-78` | `register.txt`, `g_allow_map` | append; read and rewrite; read at start | three processes and one file, no lock; `CAckEvent` looks addresses up |
| Descriptors, `inner_socket.h`, the kernel's table of open files | the number of each socket and pipe | accept, `socket`, `pipe`, `close` | `g_sock_map` is keyed by the numbers |
| Serialization and ciphers, an empty test, a prototype | none that lasts | conversions | |

What is hard in it: the unlocked accesses of a worker to its own `m_event`
while the dispatching thread overwrites it; a `std::map` searched without the
mutex under which it is changed; edge-triggered notification with one `recv`
per event; two jobs for one socket; the death of a client between any two
steps; log threads that use different mutexes for one queue, and one time buffer for
all logs; handlers of a client that the server runs for a message nobody wrote; reference counts
kept by hand around an interpreter that is started and finalised per call;
descriptor numbers that are leaked, run out, and may be given out again while
the map still has them.
`PROJECT.json` lists each hazard at its line with the properties that cover it.

What makes each part correct:

- pool: no thread uses or deletes freed memory, no job runs twice, every job
  runs as long as none was overwritten, threads are not lost from the lists;
- relay: the map pairs sockets both ways, OK is said to a mapped pair of a
  registered source, a message is relayed once, in order and to its own
  session, answers arrive, a session that ends takes its pair and its sockets
  with it and nobody else's;
- log: what was pushed is written once, in order, with its own time;
- interpreter: no object is released more often than it is held, what a call
  returns is its own and stays readable, no interpreter is left behind;
- descriptors: a number in the map is that of a socket of the session it relays
  for, and no file is closed by another's owner;
- allow list: no registered line is lost.

## Modules

| Module | Lines it stands for | Content |
|---|---|---|
| `JobService` | the promise of a pool | at most once execution, abstract |
| `ThreadPool` | `thread_module.h:32-266`, `epoll_module.h:141-153` | the dispatching thread and the workers, statement by statement |
| `ThreadPoolProofs`, `ThreadPoolOrderProofs`, `ThreadPoolServiceProofs` | | theorems about `ThreadPool` |
| `NatServer` | `epoll_module.h:58-153`, `event_module.h:52-448`, `inner_socket.h:40-159`, the client and peer programs | the whole relay |
| `NatServerProofs` | | theorems about `NatServer` |
| `LogFile` | `logfile_module.h:38-87`, `test.cpp:22-26` | pushers and the writer |
| `LogFileProofs` | | theorems about `LogFile` |
| `AllowList` | `register.cpp`, `modify.cpp`, `test.cpp:70-78` | the tools and the server's start over `register.txt` |
| `AllowListProofs` | | theorems about `AllowList` |
| `PyInterp` | `encrypt_python_version01.h`, `encrypt_module.h` | the interpreter and its objects' reference counts |
| `PyInterpProofs` | | theorems about `PyInterp` |
| `Descriptors` | `inner_socket.h:46-159`, the handlers of `event_module.h` | the table of open files under `g_sock_map` |
| `DescriptorsProofs` | | theorems about `Descriptors` |
| `MCThreadPool`, `MCNatServer`, `MCLogFile`, `MCAllowList`, `MCPyInterp`, `MCDescriptors` | | model values and symmetries for TLC |

### ThreadPool

`main` is the program counter of the thread that calls `CThreadPool::run`, `pc`
that of each worker in `CWorkThread::run`. A critical section of `m_job_mutex`
is one step; every other statement that reads or writes `m_event` or `m_state`
is a step of its own, since the code takes no lock there. `heap` holds the
`st_event` objects with `live`/`freed`, which is what makes a use after free
visible; the address an object had is not reused, so a stale pointer is never
accidentally right. `recv(MSG_PEEK)` overwrites the head of `*m_event`, `m_sock`
included: `from` records whose bytes they are, and `m_sock` becomes `Foreign`
until `RestoreSock`. In the build (`-g`, no optimisation) the buffer's address
is loaded before the descriptor of the same `recv`; an overwrite of `m_event`
between the two sends the bytes into an object nobody reads again, which
`PeekData` covers.

`m_idle_list` and `m_busy_list` are changed by the dispatching thread only, so
their mutexes do not appear. `__invoke_move_to_idle` is part of `run()` and
modelled as its last step, with the loop commented out as in the code.

### NatServer

A session is a client `c` with two sockets, `<<c, "in">>` (accepted) and
`<<c, "out">>` (to the peer); `fd` gives each the number it has in the server,
in order of creation. `main` is where `wait_epoll` is for the event it
processes, `batch` what `epoll_wait` returned, `edges` what it will return
(EPOLLET: each arrival is reported once, a second `EPOLL_CTL_ADD` changes
nothing). A worker takes a job when its `recv(MSG_PEEK)` would return, and runs
the handler of the type it sees; `pc` names the statements of the handlers
between which another thread can interfere. `g_mutex` covers what it covers in
the code: the two insertions and the part of `CFinEventServer` after `recv`.

What the code leaves undefined is a choice:

- `Lookup`: a search of `g_sock_map` while another thread holds `g_mutex` finds
  the entry or misses it;
- `Second`: in the main loop, `(*iter).second` read after the entry was erased is
  any number;
- `TransRead`, `TransReadStale`: a worker's search, its test and `*iter` are
  unlocked statements too. A pair that was erased in between is read from a freed
  node: it is still there, or it is anything;
- `Garbage`: the uninitialised `st_event` that `splice_sock` sends at end of
  file has one of the six types of `CFactory::generate` or none, the three of a
  client's handlers under the fault `junk`; `FinNumbers` is any descriptor number;
- `Die`: an exception, a NULL string, SIGPIPE or a `pop_front` on the empty
  list ends the process; then nothing happens any more.

`CFactory` does not know that it runs in the server. An uninitialised `st_event`
that the peer echoes, or that a mixed-up job takes, may have the type of a
handler meant for the client: `CSynEvent` encrypts the header and sends it back,
`CTxtEvent` sends it back as a message (`SynEncrypt`, `SendBack`), and
`CFinEventClient` sends a FIN and closes the server's socket (`FincSend`,
`FincClose`), whose number stays in `g_sock_map`.

The model names a socket by its session, which it may as long as the program's
numbers do the same. That ends with the `close` of `CFinEventClient`, and it ends
with the read of a freed node that was used again: the model then goes `astray`
and stops, and every property is about the time before (`Followed`). What becomes
of the numbers after such a `close` is the subject of `Descriptors`.

`CFinEventServer` reads `(*iter).second` even when it found nothing. In the build
`end()` has the count of entries behind its links and the upper half of that
count where a node has its second, so it is 0, no socket's number, and nothing is
erased (`PastEnd`).

TCP keeps the order and the bytes of one connection; a message arrives whole (a
1.4 kB structure sent at once over the loopback). A socket whose remote end is
gone answers a `send` with a reset, the next `send` kills the process. `env` is
one of the constant `Environments` and says what goes wrong in an execution:
clients that end without FIN as the children in `test1.cpp:130-138` do,
uninitialised bits in the SYN's type (`test1.cpp:94`), `accept` failing on its
uninitialised length, a refused destination, an interpreter broken by two
threads, a pool that mixes up two events, an `st_event` nobody wrote with the type of
a client's handler, a client that dies at any point.

Between the loop and the handlers stands what `ThreadPool` shows of the pool: a
job is executed at most once. As long as no event was overwritten it has the
header of its own socket (`Take`); an event overwritten between the peek and
the copy makes a handler run for one socket with the type of another's message,
and the other job is gone (`TakeMixed`, the fault `mixed`). A job that is lost
without that is one that is never taken, which every safety property allows
for. A refused destination looks like an end of file to the relay, which may
then hand a client an uninitialised structure in place of an echo: `EchoesInOrder`
excepts that session, and no other.

### LogFile

One `CLogFile`. A pusher fills the result buffers of `localtime` and `asctime`,
which the process has one of each (`Asctime`, `clock`), copies them to
`m_log_time` (`GetLogTime`), stores the line in the queue (`Store`), moves the
queue's finish (`Advance`) and signals. Storing and moving are the critical
section of `m_log_push_mutex`. The writer tests the size and waits under
`m_log_write_mutex`, which nobody else takes and which therefore does not
appear; its steps interleave with all of these. `pthread_cond_wait` releases and
sleeps in one step and may wake spuriously. The main thread pushes to
`g_system_log` and `g_thread_log`, the workers to `g_event_log`: `Elsewhere` is a
thread that takes the time for another log than this one.

A line is the call it comes from and a stamp, the call whose time it shows. When
two calls overlap, each of the buffers may be left with one's own time or
`GARBLED`, and a line composed during an assignment may show either. (An
assignment that corrupts the heap is not modelled.) `pushed` and `overlapped` are
history variables: the order of insertion, and the calls that met another.

The queue is a deque, in nodes of `NodeSize` pointers. `m_log_buff` are its slots,
`start` and `finish` how many were popped and pushed. `push` writes a slot and
then the finish, a single pointer as long as the node does not change; the writer
reads start and finish in `size`, the slot in `front`, and moves the start in
`pop`. So far no step of one undoes a step of the other, though their mutexes
differ. The push that fills the last slot of a node changes four pointers and may
move the map of nodes: a writer that looks at the queue meanwhile (`Crossing`)
may see a size or a slot of no state, and the model ends there (`Tear`). The
properties about lines say so. `StoreUnlocked`, a mutant, shows what the mutex
between pushers is for.

### AllowList

`register.txt` as a sequence of lines, a line as the address in it; only the key
counts, since the server looks at nothing else. `register` appends one line per
`endl`, at the end of the file whatever its length (`ios::app`); `modify` writes
at its own offset, over what was appended there (`WriteLine`). A reader takes
the file in blocks: its text grows by what the file has beyond it, and it is at
the end when the file is no longer than its text. `Parsed` is the loop
`file >> ip >> port`: a line without an address, which `modify` writes for an
empty file, is a port only, and the line behind it is read out of step. Such
keys are all `NOISE`. Lines are taken to have one length, so that a write over
another line replaces it; `modify` is run by one administrator, once at a time.

`expected` is what the programs would have made of the file one at a time, the
erasures taking effect when it is truncated; `disturbed` notes the three ways
the code loses registrations: a line appended after `modify` has read and before
it has written, `modify` killed while it writes, `modify` run on an empty file.
`reading` notes what was expected always and ever while the server read.

### PyInterp

A call `k` is one `CPython` object, from its constructor to the end of its
destructor; `pc` names its statements. `ptr` are its six members, `todo` those
that `__py_decref` has still to test. An object of CPython is `module`, `dict`,
`func` of an interpreter (the n-th effective `Py_Initialize` starts the
interpreter n), or `name`, `args`, `result` of a call; `count` is its
`ob_refcnt`, 0 when it is freed. Releasing the last reference of a module
releases its dictionary and with that the function; `Py_Finalize` replaces the
module's values by `None` and drops `sys.modules`. `Holders` counts the
references that exist, independently of `count`: owned members, `sys.modules`,
the containers. The tuples and results a second `exec` overwrites are leaked and
stay counted.

`Py_Initialize` while there is an interpreter does nothing, so a second call
uses the first one's, and the first `Py_Finalize` takes it from under both.
Afterwards a call finds `None`, a dictionary that is freed (`ExecFindsNothing`,
`ExecDies`), or zeros. What the code leaves undefined is a choice: reading a
freed count finds the 0 that was there, or, where other calls allocate, anything
(`TestFreed`, `broken`); a member that is `NULL` ends the process; two threads
inside Python at once may end it at any statement (`Race`). `overlapped` notes
the calls that met another, `failed` what raised in Python. `AnswerOwn` excepts the
call's own meetings and exceptions and nothing else: what other calls broke
before does not spoil its answer, since `Py_Initialize` starts anew.

`CountsExact` is the property one would not expect of this destructor, which
releases the borrowed dictionary and function: it holds because `Py_Finalize`
comes first and has freed both when their counts are tested.

### Descriptors

`table` is what each number is open for, `num` the number the program keeps for
each socket, `g_sock_map` the map between numbers. `accept`, `socket` and `pipe`
get the lowest free number; at the limit `accept` leaves the connection in the
backlog (the level-triggered listen socket then makes `epoll_wait` return at
once, for ever), `socket` returns -1, which `CAckEvent` inserts as a key, and
`pipe` leaves its two numbers unwritten, which `splice_sock` closes all the same
(`PipeRefused`, at most `MaxRefused` times). Of the server's own handlers only
`splice_sock` closes anything: a FIN erases the pair, the drain would call
`shutdown`. But `CFactory` also runs `CFinEventClient` for an uninitialised
`st_event`, and that closes a session's socket (`FincTake`, `FincClose`, at most
`MaxFincs` times), or whatever has its number by then. The number stays a key of
`g_sock_map` and the next socket or pipe gets it; `fined` notes these numbers.
`agains` counts the pipes leaked by the early returns.

Bytes, locks and epoll are left to `NatServer`: an event may come for any socket
whose number is still its own. In `NatServer` a number belongs to one socket for
good, until the model goes astray; `MapNames` is what allows that.

## Runs

| Run | Instance | Shows |
|---|---|---|
| `thread_pool` | 2 threads, 3 events, 2 sockets, fairness | types; the lists are a partition, used in strict rotation; no use after free or double delete; no loss before the second turn; exactness while nothing was lost; refinement of `JobService`; no lost wake-up, an event is given up |
| `relay` | 2 clients with 2 and 1 messages, 2 workers, four environments: the faults but `junk` with mixed-up events, and with refusal; an uninitialised `st_event` of any of the six types with mixed-up events, and with a client that may die | types; paired map; OK means mapped and registered; echoes in order, whatever the other session's FIN does; a message is in one place until it is echoed; no bytes cross sessions |
| `relay_live` | 1 mortal client, 2 workers, 2 messages, fairness | answers and echoes arrive |
| `log` | 3 pushers, 1 line each, nodes of 2, other logs, fairness | types; conservation and order of lines; whose time a line shows; what is in the queue at a signal gets written |
| `python` | 3 calls, `exec` twice each, any may raise, any may meet | types; counts exact while calls follow one another; the answer of a call that met no other is its own; results stay readable; no interpreter is left |
| `descriptors` | 2 clients, 2 workers, 4 numbers, 1 refused pipe, 1 run of `CFinEventClient` | types; the map names sockets of its own session; sockets lost per refused pipe and run; every number in use accounted for |
| `allow` | 2 runs of `register`, 2 of `modify`, 1 start, 2 addresses | types; what `modify` has written stays; the file is exact unless disturbed; the server allows what was registered all the while it read |

The bounds: the pool comes round to a thread a second time with one event more
than threads, which is where overwriting starts; three events of two sockets with
two threads give one thread two events while the other works, and a third holder
is never needed in the properties, which are about pairs; the safety properties
are proved for every number. Two sessions suffice for one to disturb
another, two workers for two jobs of one socket or one of each session;
`ClientFd = 2` makes the number in a FIN that of a socket of the server, so the
second half of `CFinEventServer` is exercised, and two messages of one client let
one be repeated or overtaken. Two runs of `modify` let the second read what
the first left, two of `register` let lines come before, between and after.
Three calls of Python let one begin when one of two others has taken the
interpreter away, and find what two have left broken; the second `exec` is what
overwrites the members of the first. Of three pushers with a line each, one can
overlap the end of another's call and the beginning of the third's, and one be
before the signal, at it, and behind it; a thread that calls again is no different
from one that calls first. With nodes of two slots the second push changes nodes.
Four numbers are two sessions without a pipe or one with a pipe: the second
`accept`, the second `socket` and every `pipe` can meet the limit, and two workers
let a number closed by one be the other's. `MaxRefused` is one because each
refused pipe may close any two of the numbers: the bound of `SocketsLost` is met by
a worker that closes two sockets, and by one that closes the two ends of
another's pipe, whose numbers two sockets get before that other closes them. One
run of `CFinEventClient` beside it lets the two mix: the number it closes goes to the
second client or to a pipe while the map still has it. The proofs have
any number of each.
The environments of `relay` keep refusal, mixed-up events and death
apart, and `junk` from most others, which multiply the states; the proofs
have them together. A client's handler comes to run on the server when a client
dies with its answer unread, whose socket then ends with an error and has
`splice_sock` send what is on its stack, or when events are mixed up. Two steps are
out of reach of these instances and in the proofs only: `CAckEvent` for a header
that `CSynEvent` encrypted on the server (`Sealed`), and a `send` of `CSynEvent` to a
socket whose remote end has gone.
`CHECK_DEADLOCK FALSE` in the relay, the log, the allow list, the interpreter and
the descriptors, where the programs come to an end or to a standstill at the
limit; the pool's runs check for deadlock, which a pool of
sleeping threads is not, since a wait may return by itself.

Five more runs each refute one sentence of the documentation:

| Run | The code |
|---|---|
| `pool_recycle` | recycles a thread that has an event it has not begun |
| `pool_exhausted` | waits for a signal that only the waiting thread sends |
| `relay_lookup` | misses a pair in the map during another insertion, and the message is never relayed |
| `relay_fin` | does not find the pair of the client that sent the FIN: pair and connections stay |
| `log_wakeup` | loses the wake-up between test and wait |

`PROJECT.json` quotes the sentence of each under `findings`. The same models
contain further departures that have no run of their own: one call of
`CThreadPool::run` recycles one thread at most, since the loop at
`thread_module.h:200` is commented out, which is what `RoundRobin` rests on; a
FIN whose number happens to be that of another session's socket removes that
session's pair; the sockets of a pair that was found stay connected until one of
them is reported, and then the drain of `g_leave_queue` (`epoll_module.h:120`)
tests an iterator it has popped and runs past the end of the list, which ends
the process (`CheckLeaveQueue`); OK is said after a refused `connect`, and the first relayed
message then ends the server with SIGPIPE; `write_log` is called once, so only
the first batch of a run is written (`Return` leads to `done`); a socket that `CFinEventClient`
closes on the server leaves its pair in `g_sock_map`, where `src/src/README:12` wants
it deleted (`FincClose` of `Descriptors`).

## Fairness

Weak fairness of each thread and process: the kernel schedules whatever can
run, and every handler returns. A worker in `EAGAIN` retries, so `EventReleased`
excepts a socket that never becomes readable. Nothing is assumed of the choices
of the environment: clients dying (`Kill`), the interpreter failing
(`InterpreterRace`), events being mixed up (`TakeMixed`), other logs
(`Elsewhere`), spurious wake-ups (`SpuriousWake`, `WakeIdle`,
`WakeSpuriously`), new events (`Dispatch`) and new calls of `push_log` are
outside fairness. `PyInterp` and `Descriptors` have safety properties only and
state none.

## Proofs

All are checked by TLAPS for every value of the constants, from the assumptions
the modules name:

- `PoolAssumption`: at least one thread, a finite bound on events, `NULL` and
  `Foreign` distinct from the descriptors;
- `NatAssumption`, `NullAssumption`: finitely many clients, a peer that reads at
  least one message of a connection, `NULL` none of the clients, sockets,
  workers and messages;
- `LogAssumption`: a garbled time is no call's, and a node has a slot;
- `DescAssumption`, `PyAssumption`: finitely many clients and workers, or calls, and
  a `NULL` and a `PIPE` that are not what they stand beside;
- `PointerAssumption`: the values of a `PyObject*` that are no object are neither
  each other nor an object;
- `AllowAssumption`: finitely many addresses, in the order of the map's keys, with
  the empty key before them all, as `std::map<string, ...>` has it.

Every invariant of every passing run is proved, and the refinement `AtMostOnce`.

`ThreadPoolProofs` proves `TypeCorrect` and `PointerSafety` from one inductive
invariant. `NoDanglingEvent` alone is not inductive: the invariant adds that an
event is live from its allocation until the worker that holds it deletes it,
that `m_event` of a worker past its test can only be replaced, never removed, by
the dispatching thread, that the event about to be handed over is the newest and
held by nobody, and that a worker's copy of the socket number is one of this
process. This is the argument why overwriting `m_event` under a working thread
loses an event but frees none twice.

`ThreadPoolOrderProofs` proves `Partition`, `Rotates` and `FirstRoundIsSafe`:
the concatenation of the two vectors is always a rotation of `1..NumThreads`,
whose offset is the number of events handed over. That threads are used in turn,
and that the pool waits for a busy one while others are idle, follows.

`ThreadPoolServiceProofs` proves `ExactUnlessLost` and `ImplementsJobService`.
The refinement maps a worker that is in its handler to the thread running the
job of its `CFactory` copy, and everything else submitted and not handled to
`queued`; the lemmas show that each step maps to one step of `JobService` or to
none.

`NatServerProofs` proves `TypeCorrect`, `PairsCorrect`, `OkCorrect` and
`SessionsApart` for any number of clients and threads and under every fault, mixed-up
events included, from one invariant. Its centre is the SYN. While one is pending
(the client has yet to send it, or it is the head of the bytes to receive),
neither socket of the session is in `g_sock_map` or `g_leave_queue` (`MapInv`);
a SYN is only ever the first message of an accepted socket and is never relayed
(`RecvInv`, `SendInv`); so the worker that receives it is the only one to connect
this session (`AckApart`), whatever jobs are repeated, and until it has inserted
the pair, what the map and the queue say of the two sockets changes by its own
steps alone (`Untouched`).
A pair is half in the map only while the holder of `g_mutex` inserts or erases
it (`MutexInv`, `MapInv`), and once registered it is paired or queued for ever
(`Kept`), which carries OK from `ack_ok` over the socket to the client. For
`NoCrossTalk`, `TransInv` adds that what a relaying worker found, without the
lock, is the other socket of its own session: a search that races with a change
may miss entries, but in `Lookup` it never finds another's, and a pair that is
still there when it is read is the one that was found. A SYN that the server
sealed for an uninitialised `st_event` is nobody's and connects nothing
(`Connecting`). The theorems are about executions up to the step that leads
astray, the one place where a socket and its number part. The invariant was
checked with TLC on the instance of `relay` before it was proved.

The same module proves `EchoesCorrect` and `WayCorrect` from a second invariant,
`EchoInv`, that follows the messages of one session on top of the first. A client
speaks only when it was answered, so while it has something to say nothing of its
session is under way, and while it waits a single message is, in one queue or in
the hands of one worker, which is the echo it waits for (`TurnOf`). That needs four
more facts: the connections of a live client are whole, so no `recv` makes up an
`st_event` for it, and a destination once refused is never connected (`LinkOf`); no
message is ahead of what the client has sent, so a job that runs late finds none
but the current one (`BoundOf`); a FIN in the server is from a client that has sent
everything (`FinOf`), and, unless events are mixed up, so is the job that runs
`CFinEventServer` (`FinJobOf`), which is why no live client's message is taken for a
FIN and dropped. `WayOf` then counts places without cardinalities. Every step
either leaves a session alone (`Quiet`), or is one of the few that move a message
(`Moves`, `Travel`), and the invariant is proved kind by kind. `EchoesInOrder` holds
under mixed-up events, `EchoOnItsWay` does not, and its statement says so.

`LogFileProofs` proves `LogTypeCorrect`, `NoLineLost` and `StampsOwn`. For the
first two the invariant says what the shared queue is at every statement: slots
are filled up to the finish, and one beyond it exactly while a pusher is between
its store and its advance, who then is the only holder of `m_log_push_mutex`; the
start never passes the finish, and stays below it between the write of a front and
its pop. For the third it adds that two calls before their insertions have noted
each other in `overlapped`, and so has one that takes its time while a thread does
so for another log: whoever overwrites the time a thread has taken is then on
record when the line is composed.

`DescriptorsProofs` proves `TypeCorrect` and `NamesCorrect`. That a number in the
map is that of an open socket of its session is not inductive: a `close` may
take any number a worker has on its stack. The invariant adds that, while no
pipe was refused, these numbers are open as pipe ends and on one stack each
(`PipeInv`), and that no socket's number has been closed but by `CFinEventClient`
(`SockInv`); and, refused
or not, that `CAckEvent` inserts the number of an accepted socket and what
`create_sock` left in the other (`AckInv`). `SocketsCorrect` and
`AccountingCorrect` count. A worker with a pipe refused closes numbers it does not
know: a `close` may take a socket's number, or a pipe's that another worker is about
to close, and a newcomer may get it in between. `CountInv` balances this as a
debt: the sockets lost and the closes still to come are at most two for each
refusal and one for each run of `CFinEventClient`, beyond the numbers that the
closes are rightly owed to (`LostInv`); the numbers
in use lie between the sockets' and leaked pipes' and what is to be closed on top
(`UpperInv`, `LowerInv`). Both invariants were checked with TLC on the instance of
`descriptors` before they were proved.

`PyInterpProofs` proves all five invariants of `PyInterp`. What a call owns alone
(its name, arguments and results) has the count its place in the destructor says,
whoever runs beside it (`OwnInv`): from this `ResultsReadable` follows without a
condition. What calls share (modules, dictionaries, functions) is counted exactly
only as long as none met another (`SharedInv`), which gives `CountsExact`: an
interpreter's dictionary and function live no longer than its module is in
`sys.modules` or owned. A call that has met no other is alone with its
interpreter, whatever earlier ones did (`AloneInv`), so its `exec` finds its own
function and `get_result` its own string (`AnswerInv`). For `EndedCorrect`: the call
whose `Py_Initialize` took effect has its own `Py_Finalize` before it unless
another's came first.

`AllowListProofs` proves the four invariants of `AllowList`, for any addresses and
any number of registers and modifies. As long as no accident happened, every line
is an address, what `modify` has still to write is what the file lacks of `expected`,
and it goes behind the last line (`FileInv`); the text `modify` read is a head of the
file until it truncates it (`ModInv`); the first block the server reads holds what
was expected then, and later ones add nothing that was never expected
(`ServerInv`). `Parsed` is a recursive function of the position; the only fact about
it that is needed is that a text of addresses, which has no line without one, is
read as these addresses (`ParsedAddresses`), which is no induction.

Model-checked only: the liveness properties `NoLostWakeup`, `EventReleased`,
`AnswerArrives` and `SignalledLinesWritten`, since fairness and `ENABLED` are outside
the reach of the prover, and the five refutations, which are counterexamples.

## Not modelled

- What follows in the relay when `CFinEventClient` has closed a socket of the
  server, or a worker has read a pair from a node that is used again: the model
  ends there, and `Descriptors` has the numbers after the close. A writer of the
  log that reads the deque while a push changes its nodes.
- An uninitialised `st_event` whose header happens to name a registered source; the
  loop of `CFinEventClient` on `EAGAIN`, which needs a full send buffer.
- Segmentation of messages; the limit of descriptors inside `NatServer`, whose
  numbers never run out (`Descriptors` has the limit without the messages).
- The pool inside `NatServer`, thread by thread: lost and mixed-up jobs are
  there, the waiting of the event loop for an idle thread is not.
- Files that a Python import opens for a moment; a module that lacks the
  function, and arguments that cannot be converted: the two modules have both
  functions and take any string.
- Two runs of `modify` at once, and lines of different lengths written over each
  other.
- Serialization and the ciphers: conversions without state.
- Destructors of the pool, which the server never destroys, and of `CLogFile`,
  which flushes at a normal exit: the server has none, and what the clients link
  of it never pushes a line.
- `test3.cpp`, `concrete_handle.h` and `python_des_moudle/encrypt_python.h`, which
  nothing uses. The last is the wrapper's first form: it releases the borrowed
  dictionary and function while they are alive, and the result before
  `get_result` hands out its characters, which is what the mutant `ExecReleases`
  of `PyInterp` does.

## Plan

1. Done: `ThreadPool` with `JobService`, `NatServer`, `LogFile`, `AllowList`, `PyInterp`
   and `Descriptors`, their runs, and the proof of every invariant the runs check.
2. An abstract session service, a client's messages answered one at a time in
   their order, that `NatServer` is shown to implement for sessions whose
   destination was not refused; `EchoInv` is what its step simulation needs.
3. An abstract queue that `LogFile` implements while no two calls overlap.
