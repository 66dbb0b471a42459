----------------------------- MODULE PollerServer -----------------------------
(***************************************************************************)
(* ThreadedPollerTCPServer: a PollerModule whose constructor registers the   *)
(* listening socket, and whose handler for it, newSocketAcceptFunction,      *)
(* registers the accepted connection: it calls back into the module that     *)
(* called it.  The connections' own handler is left out, since no connection *)
(* ever gets one.                                                           *)
(***************************************************************************)
EXTENDS PollerModule

CONSTANT Listener  \* master_socketFD

VARIABLE accepted  \* the connection newSocketAcceptFunction is registering

serverVars == <<vars, accepted>>

ServerInit ==
  /\ loop = TRUE
  /\ mutex = "free"
  /\ poll_fds = [fd \in Fds |-> IF fd = Listener THEN 1 ELSE 0]
  /\ pollMap = {Listener} /\ revents = {}
  /\ pc = "while"
  /\ todo = {}
  /\ current = NoFd
  /\ ready = {}
  /\ call = [c \in Callers |-> Idle]
  /\ accepted = NoFd

\* accept() returns when a client has connected, and not before: the socket is
\* a blocking one.  register_handler() is called with the connection.
Accept ==
  /\ pc = "handler"
  /\ current = Listener
  /\ Listener \in ready
  /\ \E fd \in Fds : poll_fds[fd] = 0 /\ accepted' = fd
  /\ ready' = ready \ {Listener}
  /\ pc' = "register"
  /\ UNCHANGED <<loop, mutex, poll_fds, pollMap, revents, todo, current, call>>

\* register_handler() locks _poller_mutex, which is no recursive mutex.
RegisterAccepted ==
  /\ pc = "register"
  /\ mutex = "free"
  /\ poll_fds' = [poll_fds EXCEPT ![accepted] = @ + 1]
  /\ pollMap' = pollMap \cup {accepted}
  /\ accepted' = NoFd
  /\ current' = NoFd
  /\ pc' = "dispatch"
  /\ UNCHANGED <<loop, mutex, revents, todo, ready, call>>

ServerThread ==
  \/ (LoopEnds \/ LockRound \/ Poll \/ CallHandler \/ RoundEnds) /\ UNCHANGED accepted
  \/ Accept
  \/ RegisterAccepted

ServerNext ==
  \/ ServerThread
  \/ HandleExit /\ UNCHANGED accepted
  \/ Event(Listener) /\ UNCHANGED accepted

ServerSpec == ServerInit /\ [][ServerNext]_serverVars /\ WF_serverVars(ServerThread)

\* A client whose connection was accepted is served: its connection gets a
\* handler.
AcceptedIsRegistered == \A fd \in Fds : accepted = fd ~> fd \in pollMap

\* Why no connection ever is: from its accept() on the poller thread waits for the mutex
\* that it holds itself, and the listener stays the only descriptor with a handler.
WaitsForItself ==
  /\ pollMap = {Listener}
  /\ accepted # NoFd => pc = "register" /\ mutex = "poller"

\* Nothing gets the thread out of there, neither further clients nor the exit message.
StaysThere ==
  [][pc = "register" => UNCHANGED <<pc, mutex, accepted, poll_fds, pollMap>>]_serverVars
=============================================================================
