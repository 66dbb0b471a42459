-------------------------- MODULE SupervisorShutdown --------------------------
(***************************************************************************)
(* How the supervisor program ends: SIGINT and pause() in its main(), the    *)
(* stop() of ThreadedTCPServerKeepPartnersAlive, which closes connections,   *)
(* joins two threads and waits for the children, and the partner programs,   *)
(* each with its ThreadedTCPClient, which nobody kills at that point.        *)
(*                                                                         *)
(* A fork() copies the descriptors of the connections that the supervisor    *)
(* has accepted, and execvp() keeps them open: such a connection ends for     *)
(* its client only when the copies are closed too.  What the heartbeats do   *)
(* to the counters is left out; the checker deploys whenever it likes.  So    *)
(* is an end of the supervisor that is no return from stop(): SIGPIPE or a    *)
(* fault in its server (see SelectServer), stoi() (see KeepPartnersAlive).    *)
(***************************************************************************)
EXTENDS Integers, FiniteSets

CONSTANTS
  Pids,        \* the processes fork() can start, in the order of their numbers
  NumPartners, \* partners.size()
  MaxSignals   \* bound of the model: how often somebody sends SIGINT

ASSUME ShutdownAssumption ==
  /\ Pids \subseteq Nat
  /\ NumPartners \in Nat
  /\ MaxSignals \in Nat

VARIABLES
  signals,     \* how often SIGINT came
  main,        \* where main() is
  interrupted, \* whether a signal ended the wait() of stop()
  loop,        \* ThreadedModule::loop
  serverPc,    \* the server thread
  checkerPc,   \* the checker thread
  toStart,     \* the forks left of a deployment
  deployed,    \* whether pidTimerMap has an entry
  partner      \* the partner processes

mainVars == <<signals, main, interrupted>>
checkerVars == <<checkerPc, toStart, deployed>>
vars == <<mainVars, loop, serverPc, checkerVars, partner>>

\* A partner: how far its own shutdown is, where its client thread is, its connection
\* at the supervisor or at somebody else who listens on the port, whether its last
\* heartbeat was not echoed, and the partners of whose connections it holds a copy.
Partners ==
  [proc : {"running"}, told : {"no", "told", "exit"},
   client : {"connect", "nosocket", "send", "recv", "sleep"},
   conn : {"none", "backlog", "listed", "late", "left", "foreign"},
   unanswered : BOOLEAN, copies : SUBSET Pids]
Unused == [proc |-> "unused"]
Zombie == [proc |-> "zombie"]

TypeOK ==
  /\ signals \in 0 .. MaxSignals
  /\ main \in {"test", "pausing", "paused", "closing", "exiting", "joining", "wait", "done"}
  /\ interrupted \in BOOLEAN
  /\ loop \in BOOLEAN
  /\ serverPc \in {"bind", "unbound", "serving", "hung", "ended"}
  /\ checkerPc \in {"while", "scan", "fork", "stuck", "done"}
  /\ toStart \in 0 .. NumPartners
  /\ deployed \in BOOLEAN
  /\ partner \in [Pids -> Partners \cup {Unused, Zombie}]

\* server->start() has created the threads.
Init ==
  /\ signals = 0
  /\ main = "test"
  /\ interrupted = FALSE
  /\ loop = TRUE
  /\ serverPc = "bind"
  /\ checkerPc = "while"
  /\ toStart = 0
  /\ deployed = FALSE
  /\ partner = [p \in Pids |-> Unused]

\* The signal handler clears it.
g_running == signals = 0

Running == {p \in Pids : partner[p].proc = "running"}
ConnectedBy(how) == {p \in Running : partner[p].conn \in how}

-----------------------------------------------------------------------------
(* main() and the signal. *)

\* while (g_running)
TestRunning ==
  /\ main = "test"
  /\ main' = IF g_running THEN "pausing" ELSE "closing"
  /\ UNCHANGED <<signals, interrupted, loop, serverPc, checkerVars, partner>>

\* pause() sleeps until the next signal, whether or not one came since the test.
Pause ==
  /\ main = "pausing"
  /\ main' = "paused"
  /\ UNCHANGED <<signals, interrupted, loop, serverPc, checkerVars, partner>>

\* kill -INT reaches the supervisor alone, Ctrl-C its partners as well.  There it
\* kills who has no handler yet, and is lost before execvp() and between test and
\* pause().  A wait() that it interrupts returns -1.  A later signal that does nothing
\* to the supervisor is left out.
Interrupt(group) ==
  /\ signals < MaxSignals
  /\ signals' = signals + 1
  /\ \/ main = "paused" /\ main' = "test" /\ UNCHANGED interrupted
     \/ main = "wait" /\ main' = "done" /\ interrupted' = TRUE
     \/ main # "paused" /\ signals = 0 /\ UNCHANGED <<main, interrupted>>
  /\ \E killed, informed \in SUBSET group :
       partner' = [p \in Pids |->
         IF p \in killed THEN Zombie
         ELSE IF p \in informed /\ partner[p].told = "no" THEN [partner[p] EXCEPT !.told = "told"]
         ELSE partner[p]]
  /\ UNCHANGED <<loop, serverPc, checkerVars>>

\* stop() goes over the list, to which the server thread still adds.
CloseConnection(p) ==
  /\ main = "closing"
  /\ p \in ConnectedBy({"listed"})
  /\ partner' = [partner EXCEPT ![p].conn = "left"]
  /\ UNCHANGED <<mainVars, loop, serverPc, checkerVars>>

\* Mistake: send the exit message first thing.
ExitWithoutClosing ==
  /\ main = "closing"
  /\ main' = "exiting"
  /\ UNCHANGED <<signals, interrupted, loop, serverPc, checkerVars, partner>>

EndOfList ==
  /\ main = "closing"
  /\ ConnectedBy({"listed"}) = {}
  /\ main' = "exiting"
  /\ UNCHANGED <<signals, interrupted, loop, serverPc, checkerVars, partner>>

\* The module's thread handles the exit message.
HandleExit ==
  /\ main \in {"exiting", "joining"}
  /\ loop
  /\ loop' = FALSE
  /\ UNCHANGED <<mainVars, serverPc, checkerVars, partner>>

JoinServer ==
  /\ main = "exiting"
  /\ serverPc \in {"ended", "unbound"}
  /\ main' = "joining"
  /\ UNCHANGED <<signals, interrupted, loop, serverPc, checkerVars, partner>>

\* Mistake: wait for the children without the join of the thread that forks them.
SkipJoin ==
  /\ main = "joining"
  /\ main' = "wait"
  /\ UNCHANGED <<signals, interrupted, loop, serverPc, checkerVars, partner>>

JoinChecker ==
  /\ main = "joining"
  /\ checkerPc = "done"
  /\ main' = "wait"
  /\ UNCHANGED <<signals, interrupted, loop, serverPc, checkerVars, partner>>

\* while (wait(NULL) > 0): all children have ended and are reaped.
WaitForChildren ==
  /\ main = "wait"
  /\ Running = {}
  /\ main' = "done"
  /\ UNCHANGED <<signals, interrupted, loop, serverPc, checkerVars, partner>>

Main ==
  \/ TestRunning \/ Pause \/ EndOfList \/ JoinServer \/ JoinChecker \/ WaitForChildren
  \/ \E p \in Pids : CloseConnection(p)

-----------------------------------------------------------------------------
(* The server thread. *)

\* socket(), bind() and listen(), of which each may fail: then the thread ends.
Bind ==
  /\ serverPc = "bind"
  /\ serverPc' \in {"serving", "unbound"}
  /\ UNCHANGED <<mainVars, loop, checkerVars, partner>>

\* Until stop() has gone through the list it closes what is accepted.
Accept(p) ==
  /\ serverPc = "serving"
  /\ p \in ConnectedBy({"backlog"})
  /\ partner' = [partner EXCEPT ![p].conn =
        IF main \in {"test", "pausing", "paused", "closing"} THEN "listed" ELSE "late"]
  /\ UNCHANGED <<mainVars, loop, serverPc, checkerVars>>

\* The handler needs the mutex, which a deployment holds to its end.
Echo(p) ==
  /\ serverPc = "serving"
  /\ p \in ConnectedBy({"listed", "late"}) /\ partner[p].unanswered
  /\ checkerPc \notin {"fork", "stuck"}
  /\ partner' = [partner EXCEPT ![p].unanswered = FALSE]
  /\ UNCHANGED <<mainVars, loop, serverPc, checkerVars>>

\* The server removes the connection of a partner that ended, looks past the end of its
\* list and waits in recv(), see SelectServer.
Hang ==
  /\ serverPc = "serving"
  /\ \E p \in Pids : partner[p] = Zombie
  /\ serverPc' = "hung"
  /\ UNCHANGED <<mainVars, loop, checkerVars, partner>>

LeaveLoop ==
  /\ serverPc = "serving"
  /\ ~loop
  /\ serverPc' = "ended"
  /\ UNCHANGED <<mainVars, loop, checkerVars, partner>>

-----------------------------------------------------------------------------
(* The checker thread. *)

LoopTest ==
  /\ checkerPc = "while"
  /\ checkerPc' = IF loop THEN "scan" ELSE "done"
  /\ UNCHANGED <<mainVars, loop, serverPc, toStart, deployed, partner>>

\* No counter is too high, and there are some.
FindNothing ==
  /\ checkerPc = "scan"
  /\ deployed
  /\ checkerPc' = "while"
  /\ UNCHANGED <<mainVars, loop, serverPc, toStart, deployed, partner>>

Deploy ==
  /\ checkerPc = "scan"
  /\ partner' = [p \in Pids |-> IF p \in Running THEN Zombie ELSE partner[p]]
  /\ toStart' = NumPartners
  /\ checkerPc' = "fork"
  /\ UNCHANGED <<mainVars, loop, serverPc, deployed>>

\* fork() fails when no process is left, and may fail before.
StartPartner ==
  /\ checkerPc = "fork"
  /\ toStart > 0
  /\ toStart' = toStart - 1
  /\ \/ \E p \in Pids :
          /\ \A q \in Pids : partner[q] = Unused <=> q >= p
          /\ partner' = [partner EXCEPT ![p] =
               [proc |-> "running", told |-> "no", client |-> "connect",
                conn |-> "none", unanswered |-> FALSE,
                copies |-> ConnectedBy({"listed", "late"})]]
     \/ UNCHANGED partner
  /\ deployed' = TRUE
  /\ UNCHANGED <<mainVars, loop, serverPc, checkerPc>>

\* When some fork() failed, the one for the ss command included, execGetOutput() may not
\* return, see KeepPartnersAlive.
SsFillMap ==
  /\ checkerPc = "fork"
  /\ toStart = 0
  /\ checkerPc' \in {"while", "stuck"}
  /\ UNCHANGED <<mainVars, loop, serverPc, toStart, deployed, partner>>

\* Unless it spins, it waits for any child that ends.
ReapChild ==
  /\ checkerPc = "stuck"
  /\ \E p \in Pids : partner[p] = Zombie
  /\ checkerPc' = "while"
  /\ UNCHANGED <<mainVars, loop, serverPc, toStart, deployed, partner>>

Checker == LoopTest \/ FindNothing \/ Deploy \/ StartPartner \/ SsFillMap

-----------------------------------------------------------------------------
(* A partner: ThreadedTCPClient::runClient, and its own end. *)

Listening == serverPc \in {"serving", "hung", "ended"}

\* The kernel accepts for a listening socket that nobody looks at any more.
Connect(p) ==
  /\ p \in Running
  /\ partner[p].client = "connect"
  /\ Listening
  /\ partner' = [partner EXCEPT ![p].conn = "backlog", ![p].client = "send"]
  /\ UNCHANGED <<mainVars, loop, serverPc, checkerVars>>

\* It also succeeds when somebody else listens on the port, for which bind() failed.  (One
\* that came before that bind() is taken to come after it.)
ConnectElsewhere(p) ==
  /\ p \in Running
  /\ partner[p].client = "connect"
  /\ serverPc = "unbound"
  /\ partner' = [partner EXCEPT ![p].conn = "foreign", ![p].client = "send"]
  /\ UNCHANGED <<mainVars, loop, serverPc, checkerVars>>

\* Whoever that is may answer or close the connection, or do neither.
StrangerReacts(p) ==
  /\ p \in ConnectedBy({"foreign"})
  /\ \/ partner' = [partner EXCEPT ![p].unanswered = FALSE]
     \/ partner' = [partner EXCEPT ![p].conn = "left"]
  /\ UNCHANGED <<mainVars, loop, serverPc, checkerVars>>

\* socket() returns -1, and the thread ends, or, after a connect() that failed, tries
\* again in vain.
NoSocket(p) ==
  /\ p \in Running
  /\ partner[p].client = "connect"
  /\ partner' = [partner EXCEPT ![p].client = "nosocket"]
  /\ UNCHANGED <<mainVars, loop, serverPc, checkerVars>>

\* The other side closed the connection and so did everybody with a copy.
Closed(p) == partner[p].conn = "left" /\ \A q \in Running : p \notin partner[q].copies

\* What is sent on a closed connection, or was not read when it was closed, is
\* answered with a reset; the next send() then raises SIGPIPE, which kills.
Send(p) ==
  /\ p \in Running
  /\ partner[p].client = "send"
  /\ partner' = [partner EXCEPT ![p] =
        IF Closed(p) /\ @.unanswered THEN Zombie
        ELSE [@ EXCEPT !.unanswered = TRUE, !.client = "recv"]]
  /\ UNCHANGED <<mainVars, loop, serverPc, checkerVars>>

\* recv() has no timeout: it waits for the echo or for the end of the connection.
Recv(p) ==
  /\ p \in Running
  /\ partner[p].client = "recv"
  /\ ~partner[p].unanswered \/ Closed(p)
  /\ partner' = [partner EXCEPT ![p].client = "sleep"]
  /\ UNCHANGED <<mainVars, loop, serverPc, checkerVars>>

NextRound(p, ends) ==
  /\ p \in Running
  /\ partner[p].client = "sleep"
  /\ partner' = [partner EXCEPT ![p] = IF ends THEN Zombie ELSE [@ EXCEPT !.client = "send"]]
  /\ UNCHANGED <<mainVars, loop, serverPc, checkerVars>>

\* Mistake: heartbeats for as long as the connection lasts.
GoOnSending(p) == NextRound(p, FALSE)

\* while (loop): after the exit message the thread ends, main() joins it and returns.
TestLoop(p) == NextRound(p, partner[p].told = "exit")

\* connect() failed, the same test; or the thread has ended already.
GiveUp(p) ==
  /\ p \in Running
  /\ \/ partner[p].client = "connect" /\ ~Listening
     \/ partner[p].client = "nosocket"
  /\ partner[p].told = "exit"
  /\ partner' = [partner EXCEPT ![p] = Zombie]
  /\ UNCHANGED <<mainVars, loop, serverPc, checkerVars>>

\* The partner's main() leaves pause() and stop() sends the exit message.
StopClient(p) ==
  /\ p \in Running
  /\ partner[p].told = "told"
  /\ partner' = [partner EXCEPT ![p].told = "exit"]
  /\ UNCHANGED <<mainVars, loop, serverPc, checkerVars>>

Outside(p) == ConnectElsewhere(p) \/ StrangerReacts(p) \/ NoSocket(p)
Client(p) == Connect(p) \/ Send(p) \/ Recv(p) \/ TestLoop(p) \/ GiveUp(p)

\* A crash.
Die(p) ==
  /\ p \in Running
  /\ partner' = [partner EXCEPT ![p] = Zombie]
  /\ UNCHANGED <<mainVars, loop, serverPc, checkerVars>>

-----------------------------------------------------------------------------
\* What becomes of partners that are left behind is not modelled.
Next ==
  /\ ~interrupted
  /\ \/ Main \/ HandleExit \/ Bind \/ Hang \/ LeaveLoop \/ Checker \/ ReapChild
     \/ \E group \in {{}, Running} : Interrupt(group)
     \/ \E p \in Pids : 
          \/ Accept(p) \/ Echo(p) \/ Client(p) \/ StopClient(p)
          \/ Outside(p) \/ Die(p)

Spec == Init /\ [][Next]_vars

\* Every thread of the supervisor and of a partner runs; the server's round visits
\* each client, whose handler gets the mutex between two deployments.  Nobody has
\* to send a signal, to crash, to hang or to deploy, and no stranger to answer.
Fairness ==
  /\ WF_vars(Main)
  /\ WF_vars(HandleExit)
  /\ WF_vars(Bind \/ LeaveLoop)
  /\ WF_vars(Checker)
  /\ \A p \in Pids :
       /\ WF_vars(Accept(p))
       /\ SF_vars(Echo(p))
       /\ WF_vars(Client(p))
       /\ WF_vars(StopClient(p))

FairSpec == Spec /\ Fairness

-----------------------------------------------------------------------------
\* When stop() has returned, no partner runs on, whatever deployment was under way
\* when it was called, unless a second signal cut its wait short.
NoPartnerLeft == main = "done" /\ ~interrupted => Running = {}

\* A partner that waits for nothing that is to come: for the echo on a connection that
\* stop() did not close, because it was accepted after stop() had gone through the
\* list or not at all; for the answer of somebody else; or, in pause(), for a signal, while
\* its thread has no socket, or no server that could bind its port.
Stranded(p) ==
  /\ p \in Running
  /\ \/ /\ partner[p].client = "recv" /\ partner[p].unanswered
        /\ \/ partner[p].conn = "foreign"
           \/ partner[p].conn \in {"backlog", "late"} /\ serverPc = "ended"
     \/ /\ partner[p].told = "no"
        /\ \/ partner[p].client = "nosocket"
           \/ partner[p].client = "connect" /\ serverPc = "unbound"

\* A partner that can take its next step, or be told to end, without anybody's help.
MayGoOn(p) ==
  /\ p \in Running
  /\ \/ partner[p].client \in {"send", "sleep"}
     \/ partner[p].client = "connect" /\ Listening
     \/ partner[p].client \in {"connect", "nosocket"} /\ partner[p].told # "no"
     \/ partner[p].client = "recv" /\ (~partner[p].unanswered \/ Closed(p))

\* The partners whose end stop() waits for never all wait for each other, although
\* each may keep connections of others open: while one runs, there is one that can go
\* on, or one that is stranded.
NoWaitingCircle ==
  main = "wait" /\ Running # {} => \E p \in Running : MayGoOn(p) \/ Stranded(p)

\* The signal came between the test of g_running and pause().
SignalLost == main = "paused" /\ ~g_running

\* The supervisor ends when it is interrupted, although nobody tells its partners, except
\* in these cases: the signal is lost; the checker does not come back from
\* execGetOutput(); the server hangs in recv(); or again and again a partner is
\* stranded, for which the supervisor waits.  (The left side stays true, so the right side
\* is reached again and again.)
SupervisorEnds ==
  ~g_running ~> \/ main = "done" \/ SignalLost
                \/ checkerPc = "stuck" \/ serverPc = "hung"
                \/ \E p \in Pids : Stranded(p)

\* A partner that is told to end does, however its connection ends before it, except
\* in the latter three of those cases, and if the supervisor ended before it.
PartnerEnds ==
  \A p \in Pids :
    p \in Running /\ partner[p].told # "no"
      ~> \/ p \notin Running \/ main = "done"
         \/ checkerPc = "stuck" \/ serverPc = "hung"
         \/ \E q \in Pids : Stranded(q)
=============================================================================
