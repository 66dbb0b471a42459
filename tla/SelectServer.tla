----------------------------- MODULE SelectServer -----------------------------
(***************************************************************************)
(* ThreadedTCPServer: one thread that accepts clients into                 *)
(* client_socket_fds and goes round that list after every select(), and a  *)
(* stop() that closes the same descriptors from the owner's thread.        *)
(*                                                                         *)
(* Descriptors are numbers which accept() hands out lowest first, so a     *)
(* closed one comes back for another client.  A client is its port: it     *)
(* connects, sends, ends and may connect again.                            *)
(***************************************************************************)
EXTENDS Integers, FiniteSets, SequencesExt

CONSTANTS
  Clients,   \* the client ports
  NoClient,  \* no connection
  MaxFd,     \* the descriptors left to the process for clients
  Master,    \* master_socketFD
  MaxLength  \* bound of the model: nobody connects to a server with a longer list

ASSUME SelectAssumption ==
  /\ MaxFd \in Nat
  /\ MaxLength \in Nat
  /\ NoClient \notin Clients
  /\ Master \notin 1 .. MaxFd

Fds == 1 .. MaxFd

VARIABLES
  loop,      \* ThreadedModule::loop
  main,      \* where the owner is: it runs the server, then calls stop()
  closeIt,   \* stop()'s iterator over the list: a position, or 0 when its node is gone
  process,   \* "up", or how the process ended
  fds,       \* client_socket_fds
  sock,      \* the connection each descriptor stands for
  serverPc,  \* where the server thread is in handleServerListen
  read_fds,  \* the clients' part of the fd_set, then all that select() leaves in it
  it2,       \* the round's iterator: a position, Len(fds) + 1 being end()
  wrapped,   \* whether it2 went past end() in this round
  reading,   \* the connection that recv() was called for
  bytesRecv, \* what recv() returned: "data", 0 or -1
  addr,      \* the client whose port the server thread's addr holds
  backlog,   \* the clients that connected and were not accepted
  unread,    \* the clients with data that was not received
  ending     \* per client: "no", "fin" or, once its kernel answers with RST, "reset"

mainVars == <<main, closeIt>>
ownerVars == <<loop, mainVars, process>>
listVars == <<fds, sock>>
resultVars == <<reading, bytesRecv, addr>>
roundVars == <<read_fds, it2, wrapped, reading, bytesRecv, addr>>
clientVars == <<backlog, unread, ending>>
vars == <<loop, main, closeIt, process, fds, sock, serverPc, read_fds, it2, wrapped,
          reading, bytesRecv, addr, backlog, unread, ending>>

TypeOK ==
  /\ loop \in BOOLEAN
  /\ main \in {"running", "closing", "exiting", "stopped"}
  /\ closeIt \in Nat
  /\ process \in {"up", "SIGPIPE", "crashed"}
  /\ fds \in Seq(Fds)
  /\ sock \in [Fds -> Clients \cup {NoClient}]
  /\ serverPc \in {"while", "select", "accept", "round", "recv", "getpeername",
                   "handle", "end"}
  /\ read_fds \subseteq Fds \cup {Master}
  /\ it2 \in 1 .. Len(fds) + 1
  /\ wrapped \in BOOLEAN
  /\ reading \in Clients \cup {NoClient}
  /\ bytesRecv \in {"data", "0", "-1"}
  /\ addr \in Clients \cup {NoClient}
  /\ backlog \subseteq Clients
  /\ unread \subseteq Clients
  /\ ending \in [Clients -> {"no", "fin", "reset"}]

Init ==
  /\ loop = TRUE
  /\ main = "running"
  /\ closeIt = 1
  /\ process = "up"
  /\ fds = <<>>
  /\ sock = [fd \in Fds |-> NoClient]
  /\ serverPc = "while"
  /\ read_fds = {}
  /\ it2 = 1
  /\ wrapped = FALSE
  /\ reading = NoClient
  /\ bytesRecv = "data"
  /\ addr = NoClient
  /\ backlog = {}
  /\ unread = {}
  /\ ending = [c \in Clients |-> "no"]

Accepted(c) == \E fd \in Fds : sock[fd] = c

\* recv() would return at once, and so select() reports the descriptor.
HasInput(c) == c \in unread \/ ending[c] # "no"

-----------------------------------------------------------------------------
(* The server thread, between two rounds. *)

\* The loop test, and the fd_set built from the list.
LoopTest ==
  /\ serverPc = "while"
  /\ serverPc' = IF loop THEN "select" ELSE "end"
  /\ read_fds' = IF loop THEN Range(fds) ELSE {}
  /\ UNCHANGED <<ownerVars, listVars, it2, wrapped, resultVars, clientVars>>

Ready == {fd \in read_fds : sock[fd] # NoClient /\ HasInput(sock[fd])}
           \cup (IF backlog = {} THEN {} ELSE {Master})

\* Mistake: no timeout for select().
SelectFailsOnly ==
  /\ serverPc = "select"
  /\ \E fd \in read_fds : sock[fd] = NoClient
  /\ serverPc' = "while"
  /\ read_fds' = {}
  /\ UNCHANGED <<ownerVars, listVars, it2, wrapped, resultVars, clientVars>>

\* select() fails with EBADF when stop() has closed one of the descriptors, and
\* times out after acceptTimeout seconds without input.
SelectReturnsNone ==
  /\ serverPc = "select"
  /\ Ready = {} \/ \E fd \in read_fds : sock[fd] = NoClient
  /\ serverPc' = "while"
  /\ read_fds' = {}
  /\ UNCHANGED <<ownerVars, listVars, it2, wrapped, resultVars, clientVars>>

\* Mistake: go by the descriptors that were put in, not by those that came out.
SelectKeepsSet ==
  /\ serverPc = "select"
  /\ Ready # {}
  /\ read_fds' = read_fds \cup Ready
  /\ serverPc' = "accept"
  /\ UNCHANGED <<ownerVars, listVars, it2, wrapped, resultVars, clientVars>>

SelectReturns ==
  /\ serverPc = "select"
  /\ Ready # {}
  /\ read_fds' = Ready
  /\ serverPc' = "accept"
  /\ UNCHANGED <<ownerVars, listVars, it2, wrapped, resultVars, clientVars>>

StartRound ==
  /\ serverPc' = "round"
  /\ it2' = 1
  /\ UNCHANGED <<ownerVars, read_fds, wrapped, reading, bytesRecv, unread, ending>>

\* accept() fails when the process has no descriptor left.
AcceptNobody ==
  /\ serverPc = "accept"
  /\ Master \in read_fds => \A fd \in Fds : sock[fd] # NoClient
  /\ StartRound
  /\ UNCHANGED <<listVars, addr, backlog>>

LowestFree(fd) ==
  /\ sock[fd] = NoClient
  /\ \A lower \in 1 .. fd - 1 : sock[lower] # NoClient

\* accept() takes the lowest free descriptor and writes the client's address into
\* the same addr that getpeername() writes to.
Accept(c) ==
  /\ serverPc = "accept"
  /\ Master \in read_fds
  /\ c \in backlog
  /\ \E newSocket \in Fds :
       /\ LowestFree(newSocket)
       /\ fds' = Append(fds, newSocket)
       /\ sock' = [sock EXCEPT ![newSocket] = c]
  /\ addr' = c
  /\ backlog' = backlog \ {c}
  /\ StartRound

-----------------------------------------------------------------------------
(* The round. *)

\* it2 is local to the round, and FD_ZERO empties the set before the next one.
EndRound ==
  /\ serverPc = "round"
  /\ it2 = Len(fds) + 1
  /\ serverPc' = "while"
  /\ it2' = 1
  /\ wrapped' = FALSE
  /\ read_fds' = {}
  /\ UNCHANGED <<ownerVars, listVars, resultVars, clientVars>>

PassOver ==
  /\ serverPc = "round"
  /\ it2 <= Len(fds)
  /\ fds[it2] \notin read_fds
  /\ it2' = it2 + 1
  /\ UNCHANGED <<ownerVars, listVars, serverPc, read_fds, wrapped, resultVars, clientVars>>

CallRecv ==
  /\ serverPc = "round"
  /\ it2 <= Len(fds)
  /\ fds[it2] \in read_fds
  /\ reading' = sock[fds[it2]]
  /\ serverPc' = "recv"
  /\ UNCHANGED <<ownerVars, listVars, read_fds, it2, wrapped, bytesRecv, addr, clientVars>>

\* recv() waits for input.  Closing the descriptor meanwhile does not wake it.
RecvReturns(result) ==
  /\ serverPc = "recv"
  /\ \/ reading = NoClient /\ result = "-1"
     \/ reading # NoClient /\ reading \in unread /\ result = "data"
     \/ /\ reading # NoClient /\ reading \notin unread
        /\ \/ ending[reading] = "fin" /\ result = "0"
           \/ ending[reading] = "reset" /\ result \in {"0", "-1"}
  /\ bytesRecv' = result
  /\ unread' = unread \ {reading}
  /\ serverPc' = "getpeername"
  /\ UNCHANGED <<ownerVars, listVars, read_fds, it2, wrapped, reading, addr, backlog, ending>>

\* getpeername() fails, and addr keeps its last value, when the descriptor is
\* closed or the connection was reset.
PeerOf(fd) ==
  IF sock[fd] = NoClient \/ ending[sock[fd]] = "reset" THEN addr ELSE sock[fd]

\* Mistake: read the address before recv() and only when a client is accepted.
KeepAddr ==
  /\ serverPc = "getpeername"
  /\ serverPc' = "handle"
  /\ UNCHANGED <<ownerVars, listVars, roundVars, clientVars>>

Getpeername ==
  /\ serverPc = "getpeername"
  /\ addr' = PeerOf(fds[it2])
  /\ serverPc' = "handle"
  /\ UNCHANGED <<ownerVars, listVars, read_fds, it2, wrapped, reading, bytesRecv, clientVars>>

\* Where stop()'s iterator is after the list lost the node at position i.
CloseItAfterErase(i) ==
  IF main # "closing" \/ closeIt < i THEN closeIt
  ELSE IF closeIt = i THEN 0 ELSE closeIt - 1

\* Nothing looks at the result of this recv() again.
ForgetResult ==
  /\ reading' = NoClient
  /\ bytesRecv' = "data"

\* recv() returned 0: close(), erase() and the increment after it.  erase()
\* returns the next element already, which it2++ then passes over; past the last
\* element it2++ leads round the ring of the std::list to its first.
DropAndMoveTo(next) ==
  /\ serverPc = "handle"
  /\ bytesRecv = "0"
  /\ sock' = [sock EXCEPT ![fds[it2]] = NoClient]
  /\ fds' = RemoveAt(fds, it2)
  /\ it2' = next
  /\ wrapped' = (wrapped \/ it2 = Len(fds))
  /\ closeIt' = CloseItAfterErase(it2)
  /\ serverPc' = "round"
  /\ ForgetResult
  /\ UNCHANGED <<loop, main, process, read_fds, addr, clientVars>>

\* Mistake: close the descriptor and leave it in the list.
DropWithoutErase ==
  /\ serverPc = "handle"
  /\ bytesRecv = "0"
  /\ sock' = [sock EXCEPT ![fds[it2]] = NoClient]
  /\ it2' = it2 + 1
  /\ serverPc' = "round"
  /\ ForgetResult
  /\ UNCHANGED <<ownerVars, fds, read_fds, wrapped, addr, clientVars>>

Disconnected == DropAndMoveTo(IF it2 = Len(fds) THEN 1 ELSE it2 + 1)

\* Any other result is handled and echoed; of -1 bytes the text is empty.  After
\* a reset send() fails, or raises SIGPIPE, for which nobody has a handler.
HandleAndMoveTo(next) ==
  /\ serverPc = "handle"
  /\ bytesRecv # "0"
  /\ it2' = next
  /\ serverPc' = "round"
  /\ process' \in IF sock[fds[it2]] # NoClient /\ ending[sock[fds[it2]]] = "reset"
                  THEN {"up", "SIGPIPE"} ELSE {"up"}
  /\ ForgetResult
  /\ UNCHANGED <<loop, mainVars, listVars, read_fds, wrapped, addr, clientVars>>

\* Mistake: the round ends with the first client that had something to say.
HandleOnlyOne == HandleAndMoveTo(Len(fds) + 1)

HandleAndEcho == HandleAndMoveTo(it2 + 1)

ServerThread ==
  \/ LoopTest \/ SelectReturnsNone \/ SelectReturns
  \/ AcceptNobody \/ \E c \in Clients : Accept(c)
  \/ EndRound \/ PassOver \/ CallRecv
  \/ \E result \in {"data", "0", "-1"} : RecvReturns(result)
  \/ Getpeername \/ Disconnected \/ HandleAndEcho

-----------------------------------------------------------------------------
(* The owner's thread in stop(), and the module's thread. *)

CallStop ==
  /\ main = "running"
  /\ main' = "closing"
  /\ closeIt' = 1
  /\ UNCHANGED <<loop, process, listVars, serverPc, roundVars, clientVars>>

\* The entries stay in the list.
CloseNext ==
  /\ main = "closing"
  /\ closeIt \in 1 .. Len(fds)
  /\ sock' = [sock EXCEPT ![fds[closeIt]] = NoClient]
  /\ closeIt' = closeIt + 1
  /\ UNCHANGED <<loop, main, process, fds, serverPc, roundVars, clientVars>>

\* The server thread erased the node under the iterator: the next step goes
\* wherever the freed node now points.
CloseDangling ==
  /\ main = "closing"
  /\ closeIt = 0
  /\ \/ process' = "crashed" /\ UNCHANGED mainVars
     \/ main' = "exiting" /\ UNCHANGED <<process, closeIt>>
  /\ UNCHANGED <<loop, listVars, serverPc, roundVars, clientVars>>

\* All are closed and ThreadedModule::stop() sends the exit message.
SendExit ==
  /\ main = "closing"
  /\ closeIt = Len(fds) + 1
  /\ main' = "exiting"
  /\ UNCHANGED <<loop, closeIt, process, listVars, serverPc, roundVars, clientVars>>

HandleExit ==
  /\ main = "exiting"
  /\ loop
  /\ loop' = FALSE
  /\ UNCHANGED <<mainVars, process, listVars, serverPc, roundVars, clientVars>>

\* pthread_join() of the server thread, whose handle _thread holds.
Join ==
  /\ main = "exiting"
  /\ serverPc = "end"
  /\ main' = "stopped"
  /\ UNCHANGED <<loop, closeIt, process, listVars, serverPc, roundVars, clientVars>>

-----------------------------------------------------------------------------
(* The clients, and the kernel between them and the server. *)

Connect(c) ==
  /\ c \notin backlog /\ ~Accepted(c)
  /\ Len(fds) + Cardinality(backlog) < MaxLength
  /\ ~(serverPc = "recv" /\ reading = c)
  /\ backlog' = backlog \cup {c}
  /\ unread' = unread \ {c}
  /\ ending' = [ending EXCEPT ![c] = "no"]
  /\ UNCHANGED <<ownerVars, listVars, serverPc, roundVars>>

Connected(c) == c \in backlog \/ Accepted(c)

SendText(c) ==
  /\ Connected(c) /\ ending[c] = "no"
  /\ unread' = unread \cup {c}
  /\ UNCHANGED <<ownerVars, listVars, serverPc, roundVars, backlog, ending>>

\* The client closes its socket, or dies; with an echo it has not read, or when an
\* echo still comes in, its kernel resets the connection.
End(c) ==
  /\ Connected(c)
  /\ \E e \in {"fin", "reset"} :
       /\ ending[c] \notin {e, "reset"}
       /\ ending' = [ending EXCEPT ![c] = e]
  /\ UNCHANGED <<ownerVars, listVars, serverPc, roundVars, backlog, unread>>

Owner == CallStop \/ CloseNext \/ CloseDangling \/ SendExit \/ Join

Next ==
  /\ process = "up"
  /\ \/ ServerThread \/ Owner \/ HandleExit
     \/ \E c \in Clients : Connect(c) \/ SendText(c) \/ End(c)

Spec == Init /\ [][Next]_vars

\* Every thread of the process runs; no client has to do anything and nobody has
\* to call stop().
Fairness ==
  /\ WF_vars(process = "up" /\ ServerThread)
  /\ WF_vars(process = "up" /\ (CloseNext \/ CloseDangling \/ SendExit \/ Join))
  /\ WF_vars(process = "up" /\ HandleExit)

FairSpec == Spec /\ Fairness

-----------------------------------------------------------------------------
(* Properties. *)

NoDuplicates(list) ==
  \A i, j \in 1 .. Len(list) : list[i] = list[j] => i = j

\* Until stop() is called the list holds each open client descriptor once and no
\* closed one, although accept() hands closed numbers out again: no descriptor
\* leaks, and select() is never given a closed one, which it would refuse for ever.
ListIsOpenClients ==
  main = "running" =>
    /\ NoDuplicates(fds)
    /\ Range(fds) = {fd \in Fds : sock[fd] # NoClient}

\* The server thread waits in recv(), where no timeout ends the wait and nobody
\* else is served.
Blocked ==
  /\ serverPc = "recv"
  /\ reading # NoClient
  /\ ~HasInput(reading)

\* It does so only in a round in which the last client of the list left and the
\* iterator went past end() and round to clients already served, or when stop()
\* has closed descriptors under it.
BlockedOnlyPastEnd == Blocked => wrapped \/ main # "running"

\* What a client sent is handled under that client's port, unless its connection
\* was reset: then it is the port of whoever was accepted or handled before.
HandledUnderItsPort ==
  serverPc = "handle" /\ main = "running" =>
    addr = reading \/ ending[reading] = "reset"

\* Nobody is passed over for ever, although each client that leaves makes the round
\* skip the one behind it: a client's input is received unless the server thread
\* hangs in a recv(), the process ends or stop() is called.
InputReceived ==
  \A c \in Clients :
    (Accepted(c) /\ c \in unread)
      ~> (c \notin unread \/ process # "up" \/ main # "running" \/ []Blocked)

\* stop() ends the server thread, unless that hangs in a recv(), the process ends or
\* clients keep connecting for ever, each of which stop() finds in the list again.
StopReturns ==
  main = "closing"
    ~> (main = "stopped" \/ process # "up" \/ []Blocked \/ []<>(backlog # {}))
=============================================================================
