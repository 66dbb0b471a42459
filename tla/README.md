# A verification project for multitred

multitred is a small C++ library of threads that talk through queues and TCP: a
base class for a thread with a message queue, two TCP servers (one on `select`,
one on `poll`), a JSON server, a client, and on top of them a supervisor that
keeps a set of partner programs alive. This directory holds TLA+ modules of its
parts, the TLC configurations that check them, and TLAPS proofs of what matters
most. File names below are relative to the repository (`src/...` there is the
C++ directory).

## The system

| Component | State | Operations | Hard part |
|---|---|---|---|
| Partner supervision, `ThreadedTCPServerKeepPartnersAlive` and its poller twin | `pidTimerMap` (pid -> seconds silent), `portPidMap` (client port -> pid), `_timer_mutex`, `partners` | `runPartnerChecker` (its own thread), `handleReceivedString` (the server thread), `startPartner`, `start`, `stop` | two threads, processes that come and go, ports that only a later `ss` maps to pids, a deployment that holds the mutex for seconds |
| `SafeQueue` | a queue, a mutex, a condition variable | `enqueue`, `dequeue`, `get`, `get2` | lost wake-ups, timeouts racing notifications |
| `ThreadedModule` | `loop`, `moduleQueue`, `_thread` | `start`, `stop`, `run`, `send_message`, `trigger_exit`, `handle_message`, `handle_timeout` | shutdown by a message through a queue others write too; derived classes overwrite `_thread` |
| `CircularBuffer` | `data`, `write_ptr`, `read_ptr`, `count` | `push`, `pop`, `size`, `empty`, `getCount` | full and empty look alike; it throws |
| `ThreadedPollerModule` | `poll_fds`, `pollMap`, `_poller_mutex` | `register_handler`, `unregister_handler`, `runModule` | a mutex held through `poll()` and all the handlers |
| `ThreadedPollerTCPServer` | the registry above | constructor, `newSocketAcceptFunction`, `receiveFromSocketFunction`, `stop` | handlers that call back into the registry |
| `ThreadedTCPServer` | `client_socket_fds`, `master_socketFD` | `runServer`, `handleServerListen`, `stop` | erasing while iterating, `stop` closing descriptors in use, failed `recv` |
| `JsonThreadedTCPServer` | `curlyCount`, the ring, two modules | `filterJsonToRingBuffer`, `triggerParseJsonDistribute` | one ring for all clients, chunk boundaries, a full ring |
| `ThreadedTCPClient` | `connected`, the socket | `runClient`, `stop` | blocking `recv`, no reconnection |
| `execGetOutput` | a pipe and a child | run a command, read its output | the read loop trusts `errno` |
| `SupervisorMain`, `PollerSupervisorMain`, `PartnerMain` | `g_running` | start, wait for SIGINT, stop, delete | a signal between the test and `pause()` |
| `Partner`, `ParseHelper`, `parsed_ss.sh`, `lib/json.hpp` | - | - | data, formatting, a pipeline of `ss`, vendored code |

They interact by calls down the class hierarchy (`KeepPartnersAlive` -> TCP
server -> `ThreadedModule`), by virtual callbacks up it (`handleReceivedString`
from the server loop, handlers from the poller), by messages (`send_message`
into another module's queue; heartbeats over TCP and their echo) and by shared
members: `loop` is read by every thread of a module and cleared by the one that
handles "exit"; the two maps are shared by the checker and the server thread.

What makes the parts correct:

* supervision: no partner runs unwatched, the configured number of them runs,
  nobody is killed while alive and answering, a heartbeat counts for its sender
  and for nobody else, a dead partner is replaced;
* queue: nothing is lost, nobody sleeps over an element;
* module: `stop()` returns, and when it has no thread is left;
* ring: it is a bounded FIFO that throws exactly at its bounds;
* poller: handlers run for events, never after their removal; registration
  returns;
* select server: the list and the open descriptors agree, every client's input is
  received, and a text is handled under its sender's port;
* JSON server: braces and ring agree, the texts for the parser are delimited by their
  outer braces, whole documents reach their module;
* shutdown: after SIGINT the supervisor ends and leaves no partner behind.

## The modules

| Module | Stands for | Checked by | Proved in |
|---|---|---|---|
| `KeepPartnersAlive` | both supervision classes with processes, ports and heartbeats around them, and `execGetOutput`, with its refinement of `Watchdog` | `supervision_*` runs | `KeepPartnersAliveProofs` |
| `Watchdog` | what partner supervision promises (abstract) | | |
| `SupervisorShutdown` | `SupervisorMain`, `start()` and `stop()` of the supervision, the partners with their `ThreadedTCPClient` | `shutdown` | `SupervisorShutdownProofs` |
| `SelectServer` | `ThreadedTCPServer.cpp`: the loop over the clients and `stop()` | `select_server` | `SelectServerProofs` |
| `JsonServer` | `JsonThreadedTCPServer.cpp` on top of `CircularBuffer`, with its refinement of `TextSplitter` | `json` | `JsonServerProofs` |
| `TextSplitter` | what the JSON server promises (abstract) | | |
| `CircularBuffer` | `CircularBuffer.h`, with its refinement of `BoundedFifo` | `json` | `CircularBufferProofs` |
| `BoundedFifo` | what a `CircularBuffer` promises (abstract) | | |
| `SafeQueue` | `SafeQueue.h`, with its refinement of `BlockingQueue` | `queue_safety` | `SafeQueueProofs` |
| `BlockingQueue` | what a `SafeQueue` promises (abstract) | | |
| `ThreadedModule` | `ThreadedModule.cpp`, and the second thread of derived classes | `module_life` | `ThreadedModuleProofs` |
| `PollerModule` | `ThreadedPollerModule.cpp`, with handlers that end and do not call back | `poller`, `poller_events` | `PollerModuleProofs` |
| `PollerServer` | the accept handler of `ThreadedPollerTCPServer.cpp` in a `PollerModule` | `poller_accept` | `PollerModuleProofs` |

`MC*` modules only give names to the finite sets a configuration uses. An
operator preceded by "Mistake" is not part of a specification: it is a plausible
bug against which a property is tried (PROJECT.json, "mutants").

How they fit together: `SelectServer` shows in which cases the server thread
leaves its loop after the exit message, and `SupervisorShutdown` takes that as one
step; `KeepPartnersAlive` has the checker in detail and `SupervisorShutdown` only
its forks and its end; `JsonServer` extends `CircularBuffer` and calls its
operations; `ThreadedModule` has `SafeQueue`'s `get` as one step, that of `BlockingQueue`:
`SafeQueue` implements it, and `ThreadedModule` uses its queue as it allows.

### KeepPartnersAlive

The checker thread is `pc`: *while* (loop test), *scan*, *lock* (select class
only), *kill* (kill everybody, clear both maps), *fork* (one `startPartner` and
insert per step), then the command `ss` (`RunSs`: what it saw is `report`), *insert*
(`SsFillMap`: the lines go into the map, the mutex is free) and *sleep* with the `Tick`
that raises the counters. The server thread is `serverPc`: it has nothing, has received a
heartbeat, is inside the mutex, hangs in a `recv()`, or is done.
The two classes differ in one point, `LockedScan`: the poller class takes the
mutex before the scan, the select class after it. Which class the object has is
chosen in `Init` (`class`), so that one run, and one proof, is about both.

Around them: `proc` is the process table (nobody reaps before `stop()`, so a dead
partner stays a zombie and its pid is not used again), `peer` and `open` are TCP
connections by client port, `inbox` the heartbeats not yet read. A partner sends
its next heartbeat only after the echo of the last. Strangers are Partner
programs somebody else started: `ss | grep Partner` lists them too. `fork()`
fails when the table is full, or at any other time, and yields `NoPid`, which the
code inserts like a pid and later passes to `kill()`, where -1 means everybody.

`execGetOutput` is modelled with the ways it goes wrong. It reads its pipe once, so of a
list longer than 4096 bytes only `MaxLines` lines arrive, and a line that is cut before its
pid makes `stoi()` throw, which ends the process (*terminated*). Partners connect while the
list is on its way and are missing in it. `errno` is what the last failed `fork()`
left: successful calls do not reset it, so after `EAGAIN`, from a partner's `fork()`
or its own, the read loop never ends (*spin*, the mutex is held). When its own `fork()`
fails otherwise, there is no output and `waitpid(-1)` takes any child that ended, or waits
for one, with the mutex held (*reap*); the pid it takes is free again. That `pipe()` fails
is left out.

Abstracted: the 1 and 5 second sleeps (any interleaving is allowed instead);
`kill()` takes effect at once; `ss` sees the connections of one moment, and its text is the
set of ports and pids in it; a line cut within its pid gives a number that no
counter has; messages other than "heartbeat" change nothing; pids are handed out in turn, so
one that was taken by `waitpid()` does not come back while its connection is open; a client
port is not used again by another process while its former user still has a counter, nor,
by a partner that has yet to connect, when a stranger used it as `ss` looked
(TIME_WAIT lasts longer than the supervisor waits; a connection that is reset leaves none,
and of that the model knows nothing). The scan of the map is one step: while
it runs counters only fall, so it finds what a look at one of its moments would.

`Watchdog` is what all this is for: each second adds one to every partner's silence, a
heartbeat ends its sender's or counts for nobody, and once a partner was silent for more
than `MaxMiss` seconds, or there is none, all are killed and as many started. It knows of
no thread, mutex, port or `ss`. The mapping (`W`) reads the silences off `pidTimerMap`, the
decision off `pc`, and has a heartbeat on its way from `send()` until the handler is done
with it. That a heartbeat may be ignored is the weak point of the code and so of the
promise; that it may not count for another partner, and that nobody is killed before
somebody was too long silent, is the strong one.

The server side is that of the select server. A poller server as it stands never
receives a heartbeat (see `poller_accept`): its thread waits for its own mutex from the first
connection on. `Receiving` says whose server reads at all, and what is said of the code that
there is (liveness, and the two findings) is checked with the select class alone in it.
The safety run has both in it, so that the poller class's own checker and handler are checked
against each other for any server that calls the handler; the behaviours with a
server that reads nothing are among those.

### SelectServer

The server thread is `serverPc`: *while* (loop test, the `fd_set`), *select*,
*accept*, then per element of the list *round*, *recv*, *getpeername* and *handle*;
`it2` is a position in `fds`, `Len(fds) + 1` is `end()`. What the code relies on
outside itself is modelled as it behaves: `accept()` returns the lowest free
descriptor, so a closed number comes back for another client; `erase()` returns the
next element and `it2++` passes over it; one step past `end()` the `std::list` of the
GNU library leads to its first element (`wrapped`); `getpeername()` leaves `addr` alone
when it fails; `send()` after a reset fails or raises SIGPIPE, which ends the process.
`stop()` is a second thread: it closes descriptor after descriptor, while the server
thread still uses and changes the list; an element erased under its iterator
(`closeIt = 0`) ends in a crash or anywhere.

Clients connect, send, end with FIN or RST, and may connect again. That a client
does not read its echo, so that `send()` blocks, is left out; so is a signal that
interrupts `select()`.

### JsonServer

One step per character of the chunk, with `curlyCount` and the ring as they are;
`jsonPc` *drain* is the loop of `pop()`s and the call of the parser, *overrun* the
exception of a full ring in a thread that catches none, *segfault* a module that was
not set. A chunk's scan goes to `bytesRecv - 1` although the string was cut at its
first NUL and cleaned of newlines: what it reads behind the end is first the
terminator, then anything (`MayRead`). The JSON library is a table (`ModuleOf`): the
text of a flat document has the id 1 or 2, any other text raises an exception or has
nobody's id, which comes to the same.

`TextSplitter` hides the chunks, the scan and the ring: one text at a time is collected,
it grows by braces and by what stands between them, and with its last brace it goes to
its module, or nowhere, whole. A text that is too long, or one for modules that were not
set, is the end.

`OneClosingBrace` says what form a text has and no more: `{`, anything but `}`, and `}`.
The closing braces of nested documents are counted but not kept (line 40-44), so nested
documents never parse. Nor does it say whose characters these are: one ring and one count
serve all clients, and the last byte of each chunk is skipped, so that chunks `{1`, `{2`
and `}` of two clients, each with its NUL, give `{1{2}`. That is what the code does.
And `CleanChunkServed` is careful for a reason: a document whose chunk ends with its
brace, without NUL or newline behind it, stays open.

### SupervisorShutdown

The main thread is `main`: *test* and *pausing* (the loop over `g_running`, before
`pause()`), *paused*, *closing* (the list of clients), *exiting* (the exit message is
sent), *joining* (the checker's thread), *wait*, *done*. SIGINT goes to the
supervisor alone or to its process group; a partner takes note of it, is killed by it
before it has a handler, or loses it before `execvp()` or between its own test and
`pause()`. Each partner is a record: where its client thread is, its connection at the
supervisor (*backlog*, *listed*, *late* when accepted after `stop()` had gone through
the list, *left* when closed), and `copies`, the connections whose descriptors `fork()`
duplicated into it and `execvp()` kept open.

What may go wrong beside the signals: `bind()` fails, and then either nobody listens or
somebody else does, to whom the partners connect (*foreign*) and who may never answer;
a partner gets no socket (*nosocket*: its thread has ended, its `main()` is in `pause()`);
the server thread hangs in `recv()` as in `SelectServer`; the checker does not come back
from `execGetOutput()` (*stuck*), for ever or until some child ends. An end of the supervisor
other than by return from `main()` is not in this module: SIGPIPE and the faults of the server
thread are in `SelectServer`, the exception of `stoi()` in `KeepPartnersAlive`. So
`NoPartnerLeft` is about `stop()` that returns.

The kernel is modelled as it is: a connection ends for its client when the last copy
of its descriptor is closed; sending on an ended one brings a reset, and the next
`send()` SIGPIPE. This is how partners end that nobody told to: the supervisor's end
depends on it. The checker scans at will, so all its deployments are possible at any
time; `stop()` of the poller class is not covered.

### SafeQueue, ThreadedModule, CircularBuffer, PollerModule, PollerServer

`SafeQueue`: a step is a stretch under the mutex. A consumer is idle, waiting on
the condition variable, or woken and contending for the mutex. `WakeUp` is every
end of a wait without a notification, so timeouts may come at any moment.

`BlockingQueue` has each operation take effect in one step, at once or after a stay; only
`get` may give up, when there is nothing, and `get2`, when it likes.

`ThreadedModule`: `run[n]` is where the thread of the n-th start is, `handle` is
what `_thread` names. In a derived class (`class`, chosen in `Init`) each start
also creates a worker, which overwrites the handle. `moduleQueue.get()` is one
step. Others send any of three texts: work, "exit", and the empty text. A worker may stop
in a call that has no timeout (`WorkerBlocks`): the client in `recv()`, the select server in
a `recv()` without data, the poller server, from its first connection on, for its own mutex.
`loop` is a plain `int` shared without a lock; the build has no optimisation flags, so every
read is a read of memory, and it is modelled so.

`CircularBuffer`: the members as they are; `outcome` is what a call returned or
threw. `Contents` is the refinement mapping to `BoundedFifo`.

`PollerModule`: the registry's two halves, the poller's position in its round,
callers that wait for the mutex. Nothing is asked of the calls: a second `register_handler`
adds a second entry to the vector and none to the map, `unregister_handler` erases one entry,
if there are any, so the halves need not agree; `poll_fds` counts a descriptor's entries.

`PollerServer`: the same thread with the accept handler in place of a generic
one. The handler of connections is left out: no connection ever gets one.

## The runs

| Run | Shows | Bounds |
|---|---|---|
| `supervision_safety` | both classes keep all safety properties and implement the watchdog; the poller class also keeps `PollerKillJustified` | 2 partners, 3 pids and a stranger, 3 ports, threshold 1, 2 lines |
| `supervision_liveness` | a dead partner is replaced (both classes); heartbeats do not wait for ever (select class); with the exceptions the properties name | 1 partner, 2 pids, 2 ports, threshold 0, 1 line |
| `supervision_fork_fails` | *violation*: `kill(-1)` after a failed fork (select class) | 2 pids and a stranger |
| `supervision_late_connect` | *violation*: a partner that connects after `ss` looked is never credited (select class) | 4 pids, 2 ports |
| `shutdown` | the supervisor ends unless the signal is lost, the checker or the server hangs, or a partner is stranded; told partners end; no partner is left; partners never wait only for each other | 2 partners, 2 pids, 2 signals |
| `select_server` | list and descriptors agree; nobody is passed over for ever; texts keep their sender; where `recv` may hang; `stop` returns | 2 clients, 2 descriptors, list of 2 |
| `json` | brace count and ring agree; one closing brace per text; whole documents are served; the ring implements the bounded FIFO and the server the splitter | ring of 4, 6 characters, 12 chunks in any order |
| `queue_safety` | no wake-up lost but to a returning `get2`, no element overlooked by `dequeue`/`get`, no common sleep; every operation a single step to its callers | 3 consumers, 2 values, length 3 |
| `module_life` | stop returns in either class, restarts included, unless its worker is blocked for ever, and an exit message is on its way while it waits; in the base class it leaves no thread and nothing is handled after the exit | 2 starts, queue of 2 |
| `poller` | no handler after its removal; registration returns; events are served; with second and unfounded calls | 2 callers, 2 descriptors, each registered twice at most |
| `poller_events` | *violation*: handlers are called without an event | 2 descriptors |
| `poller_accept` | *violation*: the first accept blocks the poller for good | 1 connection |

Why the bounds are enough: three pids are a complete deployment and one that comes up one
partner short, so that a heartbeat or a map entry of one generation can meet the
next, and a pid that `waitpid(-1)` freed is used again. Three ports let a generation use a
port again that an earlier one used, and exceed the two lines that are read. A threshold
of 1 separates "reset", "at the threshold" and "past it"; in the liveness run a threshold
of 0 leaves a partner one check to answer, and every further check only makes the same step
longer. Three consumers are one woken, one waiting and one
arriving. Two starts are a restart. Two descriptors are one that is closed and given
out again beside one that stays; two clients one that leaves and the one behind it.
A ring of four holds a flat document and wraps within the next; a chunk of five kept
characters overruns it. Two partners are one whose connection is open when the
other is forked; the second deployment finds no pid left and fails to fork. Two signals
are one to end and one to interrupt the wait, or to repeat a lost one. The properties
with a proof hold for all values anyway.
`MaxLength` and `MaxStarts` are bounds of the models, not of the code: longer
queues and further starts add nothing new in kind. So are `MaxLength` in `SelectServer`
(nobody connects while the list and the backlog are that long together) and
`MaxSignals`, and `MaxTimes` in `PollerModule`. `MaxLines` is in the code, as 4096 bytes.

Deadlock is checked where nothing may stop (`queue_safety`); elsewhere
the system ends after the exit message or deletion, or with its process, and the
configurations say
`CHECK_DEADLOCK FALSE`. Symmetry (pids, ports) is used in
`supervision_safety` only, which checks no liveness.

## Fairness

* Supervision: the checker and the server thread run; a thread waiting for
  `_timer_mutex` gets it, since the holder gives it back and then sleeps or
  selects (strong fairness); each readable port is read, for the select loop
  visits all of a round, unless it hangs in a `recv()`. Of the poller server's thread, which
  reads nothing, no more is assumed than that. Nothing is assumed of partners, deaths,
  connections or the exit message.
* Queue: a woken consumer gets the mutex; no timeout or spurious wake-up is ever
  assumed, so `SomebodyIsServed` rests on notifications alone.
* Module: every thread runs and the owner's `stop()` goes on; nobody has to send
  or to call `stop()`. A worker that is not blocked comes back to its loop test; one that is
  need never return, and `StopReturns` names that as its exception.
* Select server: the server thread, the owner inside `stop()` and the module's thread
  run while the process does. No client has to do anything and nobody has to call
  `stop()`. `InputReceived` and `StopReturns` name the ways out: the process ended, the
  thread hangs in a `recv()`, or, for the latter, clients keep connecting for ever.
* JSON: the server thread works off the chunk it has.
* Shutdown: every thread of the supervisor and of the partners runs, a waiting
  connection is accepted while the server thread is in its loop, and the handler gets
  the mutex between two deployments (strong fairness of the echo, since deployments may
  recur). Nobody has to send a signal, to crash, to hang or to deploy, and no stranger to answer.
* Poller: the thread runs, handlers end, and a caller gets the mutex in one of
  the seconds the poller sleeps without it (strong fairness).

## What is proved

TLAPS proves, for all values of the constants that satisfy the named
assumptions:

* **Supervision**: type correctness; `IInv`, the inductive invariant; from it
  `NoUnsupervisedPartner`, `GenerationComplete`, `TimerBound`,
  `WritesExclusive`, `HeartbeatCreditsSender`, `ListedHeartbeatCounts`, and, for the
  class that scans under the mutex, `PollerKillJustified`. None of these is inductive
  alone. `IInv` says who holds the mutex at which point of which thread; that
  `portPidMap` and the `report` yet to be inserted name, for a port, no supervised pid but
  that of the process at its other end, from the look of `ss` to the last use of the
  entry; how many counters there are at each point of a deployment; how high they can be
  before and after the scan; and, for the poller class, that the decision to deploy is still
  true at the kill.
* **Supervision is a watchdog**: every step of `KeepPartnersAlive` is a step of
  `Watchdog` or none (`ImplementsWatchdog`). Beside `IInv` this needs that the heartbeat
  in the handler's hands is not in an inbox as well, and that a process has one open
  connection at most: without the latter the end of one would take away another's
  heartbeat.
* **Queue**: `NoLostWakeup`, which is inductive with the types, by counting the
  woken consumers and those back from `get2`; from it `NoSleepOverElement` for
  callers that leave `get2` alone, the only ones there are, and `NotAllAsleep` for all
  callers; `EmptyHandedOnlyIfEmpty`; and that the queue implements `BlockingQueue`.
* **Module**: `BaseStoppedMeansStopped` and `NothingAfterExit`; the invariant
  says that in the base class all threads but the last are over and `_thread`
  names the last. For both classes, `ExitUnderway`: an exit message is never consumed
  but by a run thread that then clears `loop`, and while the owner is in `stop()` with
  `loop` set the last start's run thread is alive. And `UsesBlockingQueue`: the module
  uses its queue as `BlockingQueue` allows.
* **Ring**: `CountIsSize`, and that the ring implements the bounded FIFO: initial
  states map to initial states and each call, throwing ones included, to the
  abstract call. The invariant says that the write index lies `count` places
  after the read index.
* **JSON server**: its types, `AtRest`, `OneClosingBrace`, and, since each of
  its steps is a step of the ring or none, all that is proved of the ring. The
  invariant says what the ring holds: nothing while no brace is open, otherwise an
  opening brace and no closing one, and while it is emptied one whole text
  together with what was popped. From it, that the server implements `TextSplitter`: what
  was popped and what the ring still holds, one behind the other, are the text that was
  pushed, until it is handed over in a single step.
* **Select server**: its types, where the iterator's way past `end()` is the hard part,
  `ListIsOpenClients`, `BlockedOnlyPastEnd`, `HandledUnderItsPort`. The invariant
  adds that each client has one descriptor at most, that what stands in the
  `fd_set` ahead of the iterator still has input, and that the connection recv() was
  called for is the element's.
* **Shutdown**: its types and `NoPartnerLeft`; the invariant adds that the checker has
  ended before the wait for the children begins. `NoWaitingCircle`: a partner's `copies`
  are of connections that were open when it was forked, so of older partners (pids are
  given out in order, `CopiesOfOlder`); the youngest partner's connection thus has no
  copy, and when its descriptor at the supervisor is closed it sees the end. That a set
  of numbers has a largest member comes from the well-foundedness of the order on them.
* **Poller**: `NoCallAfterUnregister`; the invariant says
  that the mutex is held exactly during a round and that only then handlers are
  pending.
* **Poller server**: `FirstConnectionIsTheLast`, the finding of `poller_accept` for all
  values: once a connection was accepted the poller thread waits for the mutex that it
  holds (`WaitsForItself`) and no step, of the kernel or the module's own thread, gets it
  out of there (`StaysThere`).

Only model-checked: every liveness property (`DeadPartnerReplaced`,
`HeartbeatAnswered`, `SomebodyIsServed`, `StopReturns` of both modules that have one,
`InputReceived`, `CleanChunkServed`, `SupervisorEnds`, `PartnerEnds`, `CallsReturn`,
`EventsServed`), since the prover has no rules for fairness here. Where there is one, the
invariant that such a property rests on is proved: `ExitUnderway` for the `StopReturns` of
a module, `NotAllAsleep` for `SomebodyIsServed`, `NoWaitingCircle` for `SupervisorEnds`,
`BlockedOnlyPastEnd` for the `StopReturns` and `InputReceived` of the select server. The
types of each module, `CountIsSize`, `NotAllAsleep`, `UsesBlockingQueue`, `WaitsForItself` and
`StaysThere` are proved and not among the runs' properties.

## What the runs found

Four disagreements with what the repository says are in PROJECT.json under
"findings", each with the line it disagrees with and the run that shows it. The
gravest: the poller server stops for good at its first connection, and a failed
`fork()` ends in `kill(-1, SIGTERM)` or in an endless loop.

Others are written into the properties, which hold only with the exceptions they
name:

* `PollerKillJustified` is restricted to the class that scans under the mutex. The
  select class scans before it locks and kills partners that answered in between.
* `BaseStoppedMeansStopped` is restricted to the base class. In a server or client
  `start()` overwrites `_thread`, `stop()` joins the worker only, and the run thread may
  still read the module when it is deleted.
* `BlockedOnlyPastEnd` and `InputReceived`: when the last client of the list leaves, the
  iterator steps past `end()`, and the server thread may wait in `recv()` for a client
  it has served, until that client sends again; meanwhile nobody is served.
* `HandledUnderItsPort`: after a reset a text is handled under the port of another
  client.
* `SupervisorEnds` and `PartnerEnds`: SIGINT between the test and `pause()` is lost; the
  checker does not come back from `execGetOutput()`; the server hangs in `recv()`; a partner
  is stranded and the supervisor waits for it: its connection was accepted after `stop()` had
  gone through the list, or not at all, and it waits for its echo for ever; it waits for the
  answer of somebody else at the port; it cannot connect because `bind()` had failed; it
  has no socket and its `main()` is in `pause()`.
* `StopReturns` of a module: `stop()` joins the worker without a timeout, and a worker that
  is blocked in a call without one keeps it for ever.
* `HeartbeatAnswered` is about the select class, and its exceptions are the server that hangs,
  the checker that spins or waits in `waitpid(-1)` with the mutex, and the end of the process.
* `NoPartnerLeft`: a second SIGINT during `wait()` ends it and partners stay.
* `NoLostWakeup` counts one element for each consumer that came back from `get2`:
  notified, it finds its time up and returns empty-handed. Nobody calls `get2`.

## Not modelled

* `lib/json.hpp`, vendored, 25,447 of the repository's 27,064 lines of
  implementation: `JsonServer` has what it accepts as a table. The share of the lines
  that the definitions here stand for is small for that reason; of the repository's own
  1,600 lines the parts without a counterpart are headers of declarations, log
  lines, includes and the points below.
* `receiveFromSocketFunction` and `stop()` of the poller server, and `stop()` of the
  supervision class on top of it: no connection is ever registered, and once one was
  accepted the poller thread never ends, so that `stop()` never returns.
* A failing `poll()`, a failing `pipe()` in `execGetOutput`.
* Time stamps (`ParseHelper.h`, called from nowhere) and the `Partner` record.

What would come next: an abstract registry that `PollerModule` implements; an abstract
select server whose clients' texts are handled in their order; a timed variant that bounds
the checks until a death is noticed.
