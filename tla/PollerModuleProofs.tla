-------------------------- MODULE PollerModuleProofs --------------------------
(***************************************************************************)
(* The registry of ThreadedPollerModule, for any descriptors and any number  *)
(* of callers: no handler outlives its removal, whatever is registered.  And  *)
(* of the server on top of it, that its thread waits for itself from the      *)
(* first connection on.                                                      *)
(***************************************************************************)
EXTENDS PollerServer, TLAPS

\* The poller thread holds the mutex through its whole round, and only in a
\* round has it handlers to call.
RoundLocked ==
  /\ pc \in {"poll", "dispatch", "handler"} <=> mutex = "poller"
  /\ todo # {} => pc \in {"dispatch", "handler"}
  /\ current # NoFd => pc = "handler"

PInv == TypeOK /\ RoundLocked /\ NoCallAfterUnregister

LEMMA PollerStep == PInv /\ Poller => PInv'
<1> SUFFICES ASSUME PInv, Poller PROVE PInv'
  OBVIOUS
<1> USE DEF PInv, TypeOK, RoundLocked, NoCallAfterUnregister
<1>1. CASE LoopEnds
  BY <1>1 DEF LoopEnds
<1>2. CASE LockRound
  BY <1>2 DEF LockRound
<1>3. CASE Poll
  BY <1>3 DEF Poll, PollWith
<1>4. CASE CallHandler
  <2>1. PICK fd \in todo : current' = fd /\ todo' = todo \ {fd}
    BY <1>4 DEF CallHandler, CallFirst
  <2> QED BY <1>4, <2>1, PollerAssumption DEF CallHandler, CallFirst
<1>5. CASE HandlerReturns
  BY <1>5 DEF HandlerReturns
<1>6. CASE RoundEnds
  BY <1>6 DEF RoundEnds, EndRound
<1> QED BY <1>1, <1>2, <1>3, <1>4, <1>5, <1>6 DEF Poller

LEMMA OthersStep ==
  ASSUME PInv,
         \/ HandleExit
         \/ \E fd \in Fds : Event(fd)
         \/ \E c \in Callers : Caller(c)
         \/ \E c \in Callers, o \in {"register", "unregister"}, fd \in Fds : Call(c, o, fd)
         \/ UNCHANGED vars
  PROVE  PInv'
<1> USE DEF PInv, TypeOK, RoundLocked, NoCallAfterUnregister
<1>1. CASE HandleExit
  BY <1>1 DEF HandleExit
<1>2. ASSUME NEW fd \in Fds, Event(fd) PROVE PInv'
  BY <1>2 DEF Event
<1>3. ASSUME NEW c \in Callers, NEW fd \in Fds, Register(c, fd) \/ Unregister(c, fd)
      PROVE  PInv'
  <2>1. todo = {} /\ current = NoFd
    BY <1>3 DEF Register, Unregister
  <2>2. call' \in [Callers -> Calls]
    BY <1>3 DEF Register, Unregister, Calls
  <2> QED BY <1>3, <2>1, <2>2 DEF Register, Unregister
<1>4. ASSUME NEW c \in Callers, NEW o \in {"register", "unregister"}, NEW fd \in Fds,
             Call(c, o, fd)
      PROVE  PInv'
  <2>1. call' \in [Callers -> Calls]
    BY <1>4 DEF Call, Calls
  <2> QED BY <1>4, <2>1 DEF Call
<1>5. CASE UNCHANGED vars
  BY <1>5 DEF vars
<1> QED BY <1>1, <1>2, <1>3, <1>4, <1>5 DEF Caller

\* The inductive invariant: the registry changes only between two rounds.
THEOREM PollerInvariance == Spec => []PInv
<1>1. Init => PInv
  BY DEF Init, PInv, TypeOK, RoundLocked, NoCallAfterUnregister, Calls
<1>2. PInv /\ [Next]_vars => PInv'
  BY PollerStep, OthersStep DEF Next
<1> QED BY <1>1, <1>2, PTL DEF Spec

\* No handler runs that unregister_handler() has removed.
THEOREM RemovedIsNotCalled == Spec => []NoCallAfterUnregister
BY PollerInvariance, PTL DEF PInv

-----------------------------------------------------------------------------
(* The server whose accept handler calls back into the module. *)

\* The mutex is the poller thread's in the whole round, and it is in the round that a
\* connection is accepted.
AcceptsInRound ==
  /\ pc \in {"poll", "dispatch", "handler", "register"} => mutex = "poller"
  /\ accepted # NoFd => pc = "register"

SInv == AcceptsInRound /\ pollMap = {Listener}

\* One step of the server keeps it, and from "register" there is none but other
\* people's.
LEMMA ServerStep ==
  ASSUME SInv, [ServerNext]_serverVars
  PROVE  /\ SInv'
         /\ pc = "register" => UNCHANGED <<pc, mutex, accepted, poll_fds, pollMap>>
<1>. USE DEF SInv, AcceptsInRound
<1>1. CASE LoopEnds /\ UNCHANGED accepted
  BY <1>1 DEF LoopEnds
<1>2. CASE LockRound /\ UNCHANGED accepted
  BY <1>2 DEF LockRound
<1>3. CASE Poll /\ UNCHANGED accepted
  BY <1>3 DEF Poll, PollWith
<1>4. CASE CallHandler /\ UNCHANGED accepted
  BY <1>4 DEF CallHandler, CallFirst
<1>5. CASE RoundEnds /\ UNCHANGED accepted
  BY <1>5 DEF RoundEnds, EndRound
<1>6. CASE Accept
  BY <1>6 DEF Accept
<1>7. CASE RegisterAccepted
  BY <1>7 DEF RegisterAccepted
<1>8. CASE (HandleExit \/ Event(Listener)) /\ UNCHANGED accepted
  BY <1>8 DEF HandleExit, Event
<1>9. CASE UNCHANGED serverVars
  BY <1>9 DEF serverVars, vars
<1>. QED
  BY <1>1, <1>2, <1>3, <1>4, <1>5, <1>6, <1>7, <1>8, <1>9 DEF ServerNext, ServerThread

\* The first accepted connection is the last: for any descriptors, the poller thread
\* waits for the mutex it holds, and no step of anybody changes that.
THEOREM FirstConnectionIsTheLast == ServerSpec => []WaitsForItself /\ StaysThere
<1>1. ServerInit => SInv
  BY DEF ServerInit, SInv, AcceptsInRound
<1>2. SInv /\ [ServerNext]_serverVars => SInv'
  BY ServerStep
<1>3. SInv => WaitsForItself
  BY DEF SInv, AcceptsInRound, WaitsForItself
<1>4. SInv /\ [ServerNext]_serverVars =>
        [pc = "register" => UNCHANGED <<pc, mutex, accepted, poll_fds, pollMap>>]_serverVars
  BY ServerStep
<1>. QED
  BY <1>1, <1>2, <1>3, <1>4, PTL DEF ServerSpec, StaysThere
=============================================================================
