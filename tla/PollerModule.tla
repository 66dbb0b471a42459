----------------------------- MODULE PollerModule -----------------------------
(***************************************************************************)
(* ThreadedPollerModule: a registry of file descriptors and handlers, and a  *)
(* thread that polls the descriptors and calls the handlers.  The thread      *)
(* keeps _poller_mutex through poll() and through all the handlers of a       *)
(* round; register_handler() and unregister_handler() take it as well.        *)
(*                                                                         *)
(* Nobody checks what is registered: a descriptor that is registered twice is *)
(* in poll_fds twice and in pollMap once.  The handlers belong to the user of *)
(* the module: in this module they come to an end and do not call it back.    *)
(***************************************************************************)
EXTENDS Integers, FiniteSets

CONSTANTS
  Fds,      \* the descriptors, numbers: the map is ordered by them
  Callers,  \* the threads that register and unregister handlers
  NoFd,     \* no handler runs
  MaxTimes  \* bound of the model: how often poll_fds holds a descriptor

ASSUME PollerAssumption ==
  /\ Fds \subseteq Nat
  /\ NoFd \notin Fds
  /\ MaxTimes \in Nat

VARIABLES
  loop,      \* ThreadedModule::loop
  mutex,     \* _poller_mutex between two steps: "free", or the "poller" has it
  poll_fds,  \* what poll() is given: how often each descriptor is in the vector
  pollMap,   \* the descriptors with a handler
  revents,   \* the descriptors for which the last poll() reported an event
  pc,        \* where the poller thread is in runModule
  todo,      \* the handlers this round has yet to call
  current,   \* the descriptor whose handler runs
  ready,     \* the descriptors with an event nobody has consumed
  call       \* per caller, the operation it is in

vars == <<loop, mutex, poll_fds, pollMap, revents, pc, todo, current, ready, call>>

Idle == <<"idle", NoFd>>
Calls == {Idle} \cup {"register", "unregister"} \X Fds

TypeOK ==
  /\ loop \in BOOLEAN
  /\ mutex \in {"free", "poller"}
  /\ poll_fds \in [Fds -> Nat]
  /\ pollMap \subseteq Fds /\ revents \subseteq Fds
  /\ pc \in {"while", "poll", "dispatch", "handler", "ended"}
  /\ todo \subseteq Fds
  /\ current \in Fds \cup {NoFd}
  /\ ready \subseteq Fds
  /\ call \in [Callers -> Calls]

Init ==
  /\ loop = TRUE
  /\ mutex = "free"
  /\ poll_fds = [fd \in Fds |-> 0]
  /\ pollMap = {} /\ revents = {}
  /\ pc = "while"
  /\ todo = {}
  /\ current = NoFd
  /\ ready = {}
  /\ call = [c \in Callers |-> Idle]

-----------------------------------------------------------------------------
(* The poller thread. *)

LoopEnds ==
  /\ pc = "while"
  /\ ~loop
  /\ pc' = "ended"
  /\ UNCHANGED <<loop, mutex, poll_fds, pollMap, revents, todo, current, ready, call>>

LockRound ==
  /\ pc = "while"
  /\ loop
  /\ mutex = "free"
  /\ mutex' = "poller"
  /\ pc' = "poll"
  /\ UNCHANGED <<loop, poll_fds, pollMap, revents, todo, current, ready, call>>

PollWith(holder) ==
  /\ pc = "poll"
  /\ revents' = {fd \in ready : poll_fds[fd] > 0}
  /\ todo' = pollMap
  /\ mutex' = holder
  /\ pc' = "dispatch"
  /\ UNCHANGED <<loop, poll_fds, pollMap, current, ready, call>>

\* Mistake: give the mutex back before the handlers are called.
PollThenUnlock == PollWith("free")

\* poll() returns with the events there are, after five seconds with none.
Poll == PollWith("poller")

CallFirst(rest) ==
  /\ pc = "dispatch"
  /\ \E fd \in todo : /\ \A f \in todo : fd <= f
                      /\ current' = fd
                      /\ todo' = rest \ {fd}
  /\ pc' = "handler"
  /\ UNCHANGED <<loop, mutex, poll_fds, pollMap, revents, ready, call>>

\* Mistake: one handler a round.
CallOne == CallFirst({})

\* The handlers are called in the order of their descriptors, each of them: the
\* two tests of the event guard no more than the log line after them.
CallHandler == CallFirst(todo)

\* A handler consumes the event of its descriptor, if there is one.
HandlerReturns ==
  /\ pc = "handler"
  /\ ready' = ready \ {current}
  /\ current' = NoFd
  /\ pc' = "dispatch"
  /\ UNCHANGED <<loop, mutex, poll_fds, pollMap, revents, todo, call>>

EndRound(holder) ==
  /\ pc = "dispatch"
  /\ todo = {}
  /\ mutex' = holder
  /\ pc' = "while"
  /\ UNCHANGED <<loop, poll_fds, pollMap, revents, todo, current, ready, call>>

\* Mistake: the round ends without the unlock.
RoundKeepsMutex == EndRound("poller")

\* After the unlock the thread sleeps for a second.
RoundEnds == EndRound("free")

Poller == LoopEnds \/ LockRound \/ Poll \/ CallHandler \/ HandlerReturns \/ RoundEnds

-----------------------------------------------------------------------------
(* The callers, the owner's exit message and the events. *)

\* The two operations as far as their lock, for a descriptor in whatever state.
Call(c, operation, fd) ==
  /\ call[c] = Idle
  /\ operation = "register" =>
       poll_fds[fd] + Cardinality({d \in Callers : call[d] = <<"register", fd>>}) < MaxTimes
  /\ call' = [call EXCEPT ![c] = <<operation, fd>>]
  /\ UNCHANGED <<loop, mutex, poll_fds, pollMap, revents, pc, todo, current, ready>>

\* push_back() adds an entry in any case, insert() keeps the handler there is.
Register(c, fd) ==
  /\ call[c] = <<"register", fd>>
  /\ mutex = "free"
  /\ poll_fds' = [poll_fds EXCEPT ![fd] = @ + 1]
  /\ pollMap' = pollMap \cup {fd}
  /\ call' = [call EXCEPT ![c] = Idle]
  /\ UNCHANGED <<loop, mutex, revents, pc, todo, current, ready>>

\* One entry of the vector is erased and the handler, if there are any.
Unregister(c, fd) ==
  /\ call[c] = <<"unregister", fd>>
  /\ mutex = "free"
  /\ poll_fds' = [poll_fds EXCEPT ![fd] = IF @ > 0 THEN @ - 1 ELSE 0]
  /\ pollMap' = pollMap \ {fd}
  /\ call' = [call EXCEPT ![c] = Idle]
  /\ UNCHANGED <<loop, mutex, revents, pc, todo, current, ready>>

HandleExit ==
  /\ loop
  /\ loop' = FALSE
  /\ UNCHANGED <<mutex, poll_fds, pollMap, revents, pc, todo, current, ready, call>>

Event(fd) ==
  /\ fd \notin ready
  /\ ready' = ready \cup {fd}
  /\ UNCHANGED <<loop, mutex, poll_fds, pollMap, revents, pc, todo, current, call>>

Caller(c) == \E fd \in Fds : Register(c, fd) \/ Unregister(c, fd)

Next ==
  \/ Poller
  \/ HandleExit
  \/ \E fd \in Fds : Event(fd)
  \/ \E c \in Callers : \/ Caller(c)
                        \/ \E o \in {"register", "unregister"}, fd \in Fds : Call(c, o, fd)

Spec == Init /\ [][Next]_vars

\* The poller thread runs on, its handlers come to an end (which is up to the
\* user of the module), and a caller gets the mutex in one of the seconds the
\* poller sleeps without it.
FairSpec == Spec /\ WF_vars(Poller) /\ \A c \in Callers : SF_vars(Caller(c))

-----------------------------------------------------------------------------
\* No handler is called or running that unregister_handler() has removed, and
\* the round's iterator into pollMap stays valid.
NoCallAfterUnregister == todo \subseteq pollMap /\ current \in pollMap \cup {NoFd}

\* A call of register_handler() or unregister_handler() returns, although the
\* poller thread holds the mutex most of the time.
CallsReturn == \A c \in Callers : call[c] # Idle ~> call[c] = Idle

\* An event on a registered descriptor is consumed, unless its handler is
\* removed or the module ends first.
EventsServed ==
  \A fd \in Fds :
    fd \in ready \cap pollMap ~> fd \notin ready \cap pollMap \/ pc = "ended"

\* runModule says what it means to do: "Call requested function on event".
CalledOnEvent ==
  [][pc = "dispatch" /\ pc' = "handler" => current' \in revents]_vars
=============================================================================
