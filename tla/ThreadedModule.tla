---------------------------- MODULE ThreadedModule ----------------------------
(***************************************************************************)
(* The life of a ThreadedModule: its owner starts it, stops it, may start    *)
(* it again and deletes it; the thread that start() creates runs run(),      *)
(* which takes messages from moduleQueue and ends when "exit" was handled.   *)
(* Other threads send messages all the while.                                *)
(*                                                                         *)
(* The servers and the client derive from it ("derived"): their start() calls *)
(* ThreadedModule::start() and then creates a worker thread whose handle     *)
(* overwrites that of the run thread in _thread.                             *)
(*                                                                         *)
(* moduleQueue.get() is one step here, that of BlockingQueue; SafeQueue has    *)
(* it in full.                                                             *)
(***************************************************************************)
EXTENDS Integers, Sequences

CONSTANTS
  Classes,    \* "base": ThreadedModule itself; "derived": a server or the client
  Messages,   \* the messages that others send
  Exit,       \* "exit"
  Empty,      \* "", what a client may put into "text" for the JSON server
  MaxStarts,  \* bound of the model: calls of start()
  MaxLength   \* bound of the model: others send only to a shorter queue

ASSUME ModuleAssumption ==
  /\ Classes \subseteq {"base", "derived"}
  /\ Exit # Empty
  /\ MaxStarts \in Nat
  /\ MaxLength \in Nat

VARIABLES
  class,        \* the class of the module, which never changes
  owner,        \* where the owner is in the module's life
  starts,       \* how often start() was called
  loop,         \* the member the threads' loops test
  moduleQueue,  \* the messages
  run,          \* per start, where its run thread is in run()
  msg,          \* per start, the message its run thread has taken
  worker,       \* per start, its worker thread
  handle        \* _thread: which thread stop() joins, and of which start

vars == <<class, owner, starts, loop, moduleQueue, run, msg, worker, handle>>

Starts == 1 .. MaxStarts
AllMessages == Messages \cup {Exit}

RunAlive(n) == run[n] \notin {"none", "ended"}
Alive == {n \in Starts : RunAlive(n) \/ worker[n] \in {"running", "blocked"}}

TypeOK ==
  /\ class \in Classes
  /\ owner \in {"idle", "started", "stopping", "triggering", "joining",
                "stopped", "deleted"}
  /\ starts \in 0 .. MaxStarts
  /\ loop \in BOOLEAN
  /\ moduleQueue \in Seq(AllMessages)
  /\ run \in [Starts -> {"none", "test", "get", "message", "timeout", "ended"}]
  /\ msg \in [Starts -> AllMessages]
  /\ worker \in [Starts -> {"none", "running", "blocked", "ended"}]
  /\ handle \in {"run", "worker"} \X (0 .. MaxStarts)

Init ==
  /\ class \in Classes
  /\ owner = "idle"
  /\ starts = 0
  /\ loop = TRUE
  /\ moduleQueue = <<>>
  /\ run = [n \in Starts |-> "none"]
  /\ msg = [n \in Starts |-> Exit]
  /\ worker = [n \in Starts |-> "none"]
  /\ handle = <<"run", 0>>

-----------------------------------------------------------------------------
(* The owner. *)

\* start() sets loop and creates the threads; the last one created is the one
\* that _thread names.
Start ==
  /\ owner \in {"idle", "stopped"}
  /\ starts < MaxStarts
  /\ owner' = "started"
  /\ starts' = starts + 1
  /\ loop' = TRUE
  /\ run' = [run EXCEPT ![starts'] = "test"]
  /\ IF class = "derived"
     THEN worker' = [worker EXCEPT ![starts'] = "running"] /\ handle' = <<"worker", starts'>>
     ELSE UNCHANGED worker /\ handle' = <<"run", starts'>>
  /\ UNCHANGED <<class, moduleQueue, msg>>

CallStop ==
  /\ owner = "started"
  /\ owner' = "stopping"
  /\ UNCHANGED <<class, starts, loop, moduleQueue, run, msg, worker, handle>>

\* Mistake: tell the threads directly instead of through the queue.
ClearLoop ==
  /\ owner = "stopping"
  /\ owner' = "joining"
  /\ loop' = FALSE
  /\ UNCHANGED <<class, starts, moduleQueue, run, msg, worker, handle>>

\* Mistake: the condition of trigger_exit() the wrong way round.
TriggerIfEnded ==
  /\ owner = "stopping"
  /\ owner' = IF loop THEN "joining" ELSE "triggering"
  /\ UNCHANGED <<class, starts, loop, moduleQueue, run, msg, worker, handle>>

\* trigger_exit() looks at loop ...
TriggerExit ==
  /\ owner = "stopping"
  /\ owner' = IF loop THEN "triggering" ELSE "joining"
  /\ UNCHANGED <<class, starts, loop, moduleQueue, run, msg, worker, handle>>

\* ... and then sends the message, which may by then be one too many.
SendExit ==
  /\ owner = "triggering"
  /\ owner' = "joining"
  /\ moduleQueue' = Append(moduleQueue, Exit)
  /\ UNCHANGED <<class, starts, loop, run, msg, worker, handle>>

\* Mistake: stop() does not wait for the thread.
ReturnAtOnce ==
  /\ owner = "joining"
  /\ owner' = "stopped"
  /\ UNCHANGED <<class, starts, loop, moduleQueue, run, msg, worker, handle>>

\* pthread_join(_thread) returns when the thread that _thread names has ended.
Join ==
  /\ owner = "joining"
  /\ IF handle[1] = "run" THEN run[handle[2]] = "ended"
                          ELSE worker[handle[2]] = "ended"
  /\ owner' = "stopped"
  /\ UNCHANGED <<class, starts, loop, moduleQueue, run, msg, worker, handle>>

Delete ==
  /\ owner \in {"idle", "stopped"}
  /\ owner' = "deleted"
  /\ UNCHANGED <<class, starts, loop, moduleQueue, run, msg, worker, handle>>

\* send_message() by anybody who still has a module to send to.
Send(m) ==
  /\ owner # "deleted"
  /\ Len(moduleQueue) < MaxLength
  /\ moduleQueue' = Append(moduleQueue, m)
  /\ UNCHANGED <<class, owner, starts, loop, run, msg, worker, handle>>

-----------------------------------------------------------------------------
(* The run thread of the n-th start, and the worker beside it. *)

LoopTest(n) ==
  /\ run[n] = "test"
  /\ run' = [run EXCEPT ![n] = IF loop THEN "get" ELSE "ended"]
  /\ UNCHANGED <<class, owner, starts, loop, moduleQueue, msg, worker, handle>>

\* get() returns a message; run() takes an empty one for a timeout.
Receive(n) ==
  /\ run[n] = "get"
  /\ moduleQueue # <<>>
  /\ msg' = [msg EXCEPT ![n] = Head(moduleQueue)]
  /\ moduleQueue' = Tail(moduleQueue)
  /\ run' = [run EXCEPT ![n] = IF Head(moduleQueue) = Empty THEN "timeout" ELSE "message"]
  /\ UNCHANGED <<class, owner, starts, loop, worker, handle>>

\* get() returns the empty string after 50 seconds without a message.
ReceiveNothing(n) ==
  /\ run[n] = "get"
  /\ moduleQueue = <<>>
  /\ run' = [run EXCEPT ![n] = "timeout"]
  /\ UNCHANGED <<class, owner, starts, loop, moduleQueue, msg, worker, handle>>

HandleMessage(n) ==
  /\ run[n] = "message"
  /\ loop' = (loop /\ msg[n] # Exit)
  /\ run' = [run EXCEPT ![n] = "test"]
  /\ UNCHANGED <<class, owner, starts, moduleQueue, msg, worker, handle>>

\* handle_timeout() does nothing.
HandleTimeout(n) ==
  /\ run[n] = "timeout"
  /\ run' = [run EXCEPT ![n] = "test"]
  /\ UNCHANGED <<class, owner, starts, loop, moduleQueue, msg, worker, handle>>

\* Past the test of its own loop the worker enters a call that has no timeout and may
\* never return: the client waits in recv() for the echo, the select server in a recv()
\* on a descriptor without data (SelectServer), and the poller server, from its first
\* connection on, for the mutex its own thread holds (PollerServer).
WorkerBlocks(n) ==
  /\ worker[n] = "running"
  /\ loop
  /\ worker' = [worker EXCEPT ![n] = "blocked"]
  /\ UNCHANGED <<class, owner, starts, loop, moduleQueue, run, msg, handle>>

\* The call returns after all and the worker goes back to its loop.
WorkerReturns(n) ==
  /\ worker[n] = "blocked"
  /\ worker' = [worker EXCEPT ![n] = "running"]
  /\ UNCHANGED <<class, owner, starts, loop, moduleQueue, run, msg, handle>>

\* The worker's own loop finds loop cleared.
WorkerEnds(n) ==
  /\ worker[n] = "running"
  /\ ~loop
  /\ worker' = [worker EXCEPT ![n] = "ended"]
  /\ UNCHANGED <<class, owner, starts, loop, moduleQueue, run, msg, handle>>

RunThread(n) == \/ LoopTest(n) \/ Receive(n) \/ ReceiveNothing(n)
                \/ HandleMessage(n) \/ HandleTimeout(n)

Worker(n) == WorkerBlocks(n) \/ WorkerReturns(n) \/ WorkerEnds(n)

Stop == CallStop \/ TriggerExit \/ SendExit \/ Join

Next == \/ Start \/ Stop \/ Delete
        \/ \E m \in Messages : Send(m)
        \/ \E n \in Starts : RunThread(n) \/ Worker(n)

Spec == Init /\ [][Next]_vars

\* Every thread runs.  A worker tests loop again and again while it is not blocked:
\* select() and poll() have timeouts, sleep() ends.  No call without a timeout has to
\* return, and nobody has to call start(), stop() or send_message().
Fairness ==
  /\ WF_vars(TriggerExit \/ SendExit \/ Join)
  /\ \A n \in Starts : WF_vars(RunThread(n)) /\ WF_vars(WorkerEnds(n))

FairSpec == Spec /\ Fairness

-----------------------------------------------------------------------------
\* When stop() has returned, no thread of the module runs any more, so that the
\* owner may delete it, as the mains do at once.
StoppedMeansStopped == owner \in {"stopped", "deleted"} => Alive = {}

\* It is so for a module of the base class.
BaseStoppedMeansStopped == class = "base" => StoppedMeansStopped

\* In the base class no message is handled between the exit message and the next
\* start(): what was sent behind the exit message stays in the queue.
NothingAfterExit ==
  [][class = "base" =>
       \A n \in Starts : run[n] = "get" /\ run'[n] = "message" => loop]_vars

\* While stop() joins a thread, that thread has reason to end, in either class and after
\* any number of starts: loop is cleared, or the exit message is in the queue or in the
\* hands of a run thread, and the run thread of the last start is there to take it.
ExitUnderway ==
  owner = "joining" /\ loop =>
    /\ RunAlive(starts)
    /\ \/ \E k \in DOMAIN moduleQueue : moduleQueue[k] = Exit
       \/ \E n \in Starts : run[n] = "message" /\ msg[n] = Exit

\* stop() returns in either class, whatever others send at the same time, "exit"
\* included, unless the worker it joins is blocked for ever in a call without a timeout.
StopReturns ==
  owner \in {"stopping", "triggering", "joining"}
    ~> \/ owner = "stopped"
       \/ [](\E n \in Starts : n = starts /\ worker[n] = "blocked")

\* The module uses its queue as one with single steps, in which each run thread is a
\* consumer that is in get() at most.  SafeQueue implements the same queue, so that
\* get() may be one step above.
Queue == INSTANCE BlockingQueue WITH
  queue      <- moduleQueue,
  inside     <- [n \in Starts |-> IF run[n] = "get" THEN "get" ELSE "none"],
  Consumers  <- Starts,
  Values     <- AllMessages,
  Operations <- {"get"},
  Patient    <- {},
  Hasty      <- {}

UsesBlockingQueue == Queue!Spec
=============================================================================
