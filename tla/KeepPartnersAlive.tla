-------------------------- MODULE KeepPartnersAlive --------------------------
(***************************************************************************)
(* Partner supervision, the part that the two classes                      *)
(* ThreadedTCPServerKeepPartnersAlive and                                  *)
(* ThreadedPollerTCPServerKeepPartnersAlive share: the checker thread       *)
(* (runPartnerChecker), which counts the seconds since each partner's last *)
(* heartbeat and redeploys all of them when one is silent for too long,    *)
(* and the server thread's heartbeat handler (handleReceivedString), which *)
(* resets the counters.  The two threads meet in pidTimerMap, portPidMap   *)
(* and _timer_mutex.                                                       *)
(*                                                                         *)
(* Around them stands what they observe of the operating system: the       *)
(* process table, the TCP connections the partner programs hold, and the   *)
(* heartbeats that wait in the server's sockets.                           *)
(*                                                                         *)
(* The two classes differ in LockedScan and in what their server threads   *)
(* do.  The select server reads its clients' messages, until a recv() hangs *)
(* (SelectServer).  The poller server's thread stops for ever at the first  *)
(* connection it accepts (PollerServer), so today "select" is the only      *)
(* class that is Receiving.  With "poller" among them, that class's own     *)
(* checker and handler are checked against each other for any server that   *)
(* calls the handler.                                                       *)
(***************************************************************************)
EXTENDS Integers, FiniteSets

CONSTANTS
  Pids,        \* the process table: every pid the kernel can hand out
  Strangers,   \* Partner programs on this machine that somebody else started
  Ports,       \* the client-side ports of the TCP connections
  NumPartners, \* partners.size()
  MaxMiss,     \* the 12 of "it.second > 12"
  MaxLines,    \* how many lines of the list that ss prints fit into one read()
  Classes,     \* the classes whose objects are modelled: "poller", "select"
  Receiving,   \* those whose server thread reads what its clients send
  NoPid,       \* -1, what fork() returns when it fails
  NoPort       \* no heartbeat is being handled

ASSUME SupervisionAssumption ==
  /\ Strangers \subseteq Pids
  /\ NumPartners \in Nat
  /\ MaxMiss \in Nat
  /\ MaxLines \in Nat
  /\ Classes \subseteq {"poller", "select"}
  /\ NoPid \notin Pids
  /\ NoPort \notin Ports

VARIABLES
  class,        \* the class of the supervisor object, which never changes
  loop,         \* ThreadedModule::loop, cleared when the exit message is handled
  timerMutex,   \* who holds _timer_mutex: "free", "checker" or "server"
  pidTimerMap,  \* pid -> seconds since the partner's last heartbeat
  portPidMap,   \* client port -> pid, as the last run of ss reported it
  report,       \* the same for the run of ss whose lines are yet to be inserted
  pc,           \* where the checker thread is in runPartnerChecker
  toStart,      \* partners the running deployment has yet to fork
  errno,        \* the checker thread's errno, which no successful call resets
  serverPc,     \* where the server thread is in handleReceivedString
  handling,     \* the port whose heartbeat the server thread has read
  proc,         \* the process table's entries
  peer,         \* the process that last used each client port
  open,         \* the ports whose connection the server has not closed
  inbox         \* the ports with a heartbeat the server has not read

supervisorVars == <<class, loop, timerMutex, pidTimerMap, portPidMap, report, pc,
                    toStart, errno, serverPc, handling>>
kernelVars == <<proc, peer, open, inbox>>
vars == <<class, loop, timerMutex, pidTimerMap, portPidMap, report, pc, toStart, errno,
          serverPc, handling, proc, peer, open, inbox>>

CheckerPc == {"while", "scan", "lock", "kill", "fork", "insert", "reap", "spin",
              "terminated", "sleep", "done"}
\* Why fork() fails.  "other" is ENOMEM, which the read loop of execGetOutput()
\* treats like the initial 0.
ForkErrors == {"EAGAIN", "other"}
ServerPc  == {"select", "received", "locked", "hung", "done"}

\* A std::map: a function on a finite set of keys; insert() keeps the value of
\* a key that is already there.
EmptyMap == [k \in {} |-> 0]
Insert(map, entries) ==
  [k \in DOMAIN map \cup DOMAIN entries |->
      IF k \in DOMAIN map THEN map[k] ELSE entries[k]]

\* The client ports of running partners that ss lists as established.
Established == {port \in open : proc[peer[port]] = "running"}

\* The port a process is connected by, if it is: a client never reconnects.
PortsOf(p) == {port \in open : peer[port] = p}

TypeOK ==
  /\ class \in Classes
  /\ loop \in BOOLEAN
  /\ timerMutex \in {"free", "checker", "server"}
  /\ DOMAIN pidTimerMap \subseteq Pids \cup {NoPid}
  /\ pidTimerMap \in [DOMAIN pidTimerMap -> Nat]
  /\ DOMAIN portPidMap \subseteq Ports
  /\ portPidMap \in [DOMAIN portPidMap -> Pids]
  /\ DOMAIN report \subseteq Ports
  /\ report \in [DOMAIN report -> Pids]
  /\ pc \in CheckerPc
  /\ toStart \in 0 .. NumPartners
  /\ errno \in ForkErrors
  /\ serverPc \in ServerPc
  /\ handling \in Ports \cup {NoPort}
  /\ proc \in [Pids -> {"unused", "running", "zombie"}]
  /\ peer \in [Ports -> Pids \cup {NoPid}]
  /\ open \subseteq Ports
  /\ \A port \in open : peer[port] \in Pids
  /\ inbox \subseteq open

Init ==
  /\ class \in Classes
  /\ loop = TRUE
  /\ timerMutex = "free"
  /\ pidTimerMap = EmptyMap
  /\ portPidMap = EmptyMap
  /\ report = EmptyMap
  /\ pc = "while"
  /\ toStart = 0
  /\ errno = "other"
  /\ serverPc = "select"
  /\ handling = NoPort
  /\ proc = [p \in Pids |-> IF p \in Strangers THEN "running" ELSE "unused"]
  /\ peer = [port \in Ports |-> NoPid]
  /\ open = {}
  /\ inbox = {}

-----------------------------------------------------------------------------
(* The checker thread. *)

\* The poller class scans pidTimerMap under the mutex, the select class without.
LockedScan == class = "poller"

LoopTest ==
  /\ pc = "while"
  /\ pc' = IF loop THEN "scan" ELSE "done"
  /\ UNCHANGED <<class, loop, timerMutex, pidTimerMap, portPidMap, report, toStart,
                 errno, serverPc, handling, kernelVars>>

\* Mistake: wait until all of them are silent.
AllExpired == \A p \in DOMAIN pidTimerMap : pidTimerMap[p] > MaxMiss

\* Mistake: a partner is silent for too long one check too early.
ExpiredAtLimit == \E p \in DOMAIN pidTimerMap : pidTimerMap[p] >= MaxMiss

\* Some partner has been silent for more than MaxMiss checks.
Expired == \E p \in DOMAIN pidTimerMap : pidTimerMap[p] > MaxMiss
MustDeploy == Expired \/ DOMAIN pidTimerMap = {}

\* Mistake: the poller class releases the mutex between the scan and the rest.
ScanThenLock ==
  /\ pc = "scan"
  /\ timerMutex = "free"
  /\ pc' = IF MustDeploy THEN "lock" ELSE "sleep"
  /\ UNCHANGED <<class, loop, timerMutex, pidTimerMap, portPidMap, report, toStart,
                 errno, serverPc, handling, kernelVars>>

\* The scan reads the counters one after the other.  While it runs nobody
\* raises one and nobody adds or removes an entry, so it finds what a single
\* look at the map at one of its moments would find.  The poller class holds
\* the mutex from the scan to the end of the deployment and gives it back here
\* when there is none; the select class reads the map without it.
ScanTimers ==
  /\ pc = "scan"
  /\ LockedScan => timerMutex = "free"
  /\ \/ /\ ~MustDeploy
        /\ pc' = "sleep"
        /\ UNCHANGED timerMutex
     \/ /\ MustDeploy /\ LockedScan
        /\ pc' = "kill"
        /\ timerMutex' = "checker"
     \/ /\ MustDeploy /\ ~LockedScan
        /\ pc' = "lock"
        /\ UNCHANGED timerMutex
  /\ UNCHANGED <<class, loop, pidTimerMap, portPidMap, report, toStart, errno,
                 serverPc, handling, kernelVars>>

\* The select class takes the mutex only after it has decided to redeploy.
LockForDeployment ==
  /\ pc = "lock"
  /\ timerMutex = "free"
  /\ timerMutex' = "checker"
  /\ pc' = "kill"
  /\ UNCHANGED <<class, loop, pidTimerMap, portPidMap, report, toStart, errno,
                 serverPc, handling, kernelVars>>

\* kill(-1, SIGTERM) reaches every process, kill(pid, SIGTERM) only that one.
\* Nobody calls wait() for a partner before stop(), so the dead stay zombies.
Signalled == IF NoPid \in DOMAIN pidTimerMap THEN Pids ELSE DOMAIN pidTimerMap

KillAndKeep(signalled, timers, ports) ==
  /\ pc = "kill"
  /\ proc' = [p \in Pids |-> IF p \in signalled /\ proc[p] = "running"
                             THEN "zombie" ELSE proc[p]]
  /\ pidTimerMap' = timers
  /\ portPidMap' = ports
  /\ toStart' = NumPartners
  /\ pc' = "fork"
  /\ UNCHANGED <<class, loop, timerMutex, report, errno, serverPc, handling, peer,
                 open, inbox>>

\* Mistakes: kill only the silent partners; forget one of the two clear().
KillOnlySilent ==
  KillAndKeep({p \in DOMAIN pidTimerMap : pidTimerMap[p] > MaxMiss}, EmptyMap, EmptyMap)
KillKeepsTimers == KillAndKeep(Signalled, pidTimerMap, EmptyMap)
KillKeepsPorts == KillAndKeep(Signalled, EmptyMap, portPidMap)

\* Every partner is killed, whichever was silent, and both maps are cleared.
KillPartners == KillAndKeep(Signalled, EmptyMap, EmptyMap)

\* startPartner() and the insert of its result.  fork() may fail at any time and
\* does when no pid is left; its -1 goes into the map like a pid.  The kernel
\* hands out pids in turn, none of them again while its connection is open.
StartPartner ==
  /\ pc = "fork"
  /\ toStart > 0
  /\ \E p \in {q \in Pids : proc[q] = "unused" /\ PortsOf(q) = {}} \cup {NoPid} :
       /\ proc' = IF p = NoPid THEN proc ELSE [proc EXCEPT ![p] = "running"]
       /\ errno' \in IF p = NoPid THEN ForkErrors ELSE {errno}
       /\ pidTimerMap' = Insert(pidTimerMap, [k \in {p} |-> 0])
  /\ toStart' = toStart - 1
  /\ UNCHANGED <<class, loop, timerMutex, portPidMap, report, pc, serverPc, handling,
                 peer, open, inbox>>

\* All partners are forked and execGetOutput() is to run ss: it makes a pipe,
\* forks, and reads the pipe "while (errno == EAGAIN ...)".  When the last
\* fork() that failed, this one or a partner's, left EAGAIN there, nothing ever
\* changes it: the checker reads the ended pipe for ever, with the mutex held.
SpinInExecGetOutput ==
  /\ pc = "fork"
  /\ toStart = 0
  /\ errno' = "EAGAIN"
  /\ pc' = "spin"
  /\ UNCHANGED <<class, loop, timerMutex, pidTimerMap, portPidMap, report, toStart,
                 serverPc, handling, kernelVars>>

\* This fork() fails otherwise: the pipe is empty and waitpid(-1) is next.
ForkForSsFails ==
  /\ pc = "fork"
  /\ toStart = 0
  /\ errno' = "other"
  /\ pc' = "reap"
  /\ UNCHANGED <<class, loop, timerMutex, pidTimerMap, portPidMap, report, toStart,
                 serverPc, handling, kernelVars>>

\* What the one read() gets: the list of the client ports of established
\* connections with the pids that own them, or its first 4096 bytes.
Fits == Cardinality(Established) <= MaxLines
Listed == IF Fits THEN {Established}
          ELSE {ports \in SUBSET Established : Cardinality(ports) = MaxLines}

\* ss looks at the connections, read() takes what it printed.  The lines are
\* inserted a moment later.  A line that is cut inside its pid names a process
\* without a counter, which is to insert nothing.
RunSs ==
  /\ pc = "fork"
  /\ toStart = 0
  /\ errno # "EAGAIN"
  /\ \E ports \in Listed : report' = [port \in ports |-> peer[port]]
  /\ pc' = "insert"
  /\ UNCHANGED <<class, loop, timerMutex, pidTimerMap, portPidMap, toStart, errno,
                 serverPc, handling, kernelVars>>

\* stoi() throws at a line that is cut before its pid, nobody catches it and the
\* process ends.  What waited for the mutex never gets it.
CutLineThrows ==
  /\ pc = "fork"
  /\ toStart = 0
  /\ errno # "EAGAIN"
  /\ ~Fits
  /\ pc' = "terminated"
  /\ loop' = FALSE
  /\ serverPc' = IF serverPc = "select" THEN "done" ELSE serverPc
  /\ UNCHANGED <<class, timerMutex, pidTimerMap, portPidMap, report, toStart, errno,
                 handling, kernelVars>>

\* The lines are inserted and the mutex is given back.
FillAndRelease(holder) ==
  /\ pc = "insert"
  /\ portPidMap' = Insert(portPidMap, report)
  /\ report' = EmptyMap
  /\ timerMutex' = holder
  /\ pc' = "sleep"
  /\ UNCHANGED <<class, loop, pidTimerMap, toStart, errno, serverPc, handling,
                 kernelVars>>

\* Mistake: keep the mutex when the deployment is over.
FillKeepsMutex == FillAndRelease("checker")

SsFillMap == FillAndRelease("free")

\* The processes the supervisor forked and never waited for.
Children == {p \in Pids \ Strangers : proc[p] # "unused"}

\* waitpid(-1) takes any child that ended and waits until one does, with the
\* mutex held, unless there is none at all.
WaitForAnyChild ==
  /\ pc = "reap"
  /\ \/ \E p \in Children : /\ proc[p] = "zombie"
                            /\ proc' = [proc EXCEPT ![p] = "unused"]
     \/ /\ Children = {}
        /\ UNCHANGED proc
  /\ timerMutex' = "free"
  /\ pc' = "sleep"
  /\ UNCHANGED <<class, loop, pidTimerMap, portPidMap, report, toStart, errno, serverPc,
                 handling, peer, open, inbox>>

\* After sleep(1): every counter is raised by one, under the mutex.
TickBy(step) ==
  /\ pc = "sleep"
  /\ timerMutex = "free"
  /\ pidTimerMap' = [p \in DOMAIN pidTimerMap |-> pidTimerMap[p] + step]
  /\ pc' = "while"
  /\ UNCHANGED <<class, loop, timerMutex, portPidMap, report, toStart, errno, serverPc,
                 handling, kernelVars>>

\* Mistake: "auto it" instead of "auto &it", which raises a copy.
TickCopies == TickBy(0)

Tick == TickBy(1)

Checker == \/ LoopTest \/ ScanTimers \/ LockForDeployment \/ KillPartners
           \/ StartPartner \/ SpinInExecGetOutput \/ ForkForSsFails \/ RunSs
           \/ CutLineThrows \/ SsFillMap \/ WaitForAnyChild \/ Tick

-----------------------------------------------------------------------------
(* The server thread: its select loop as far as supervision sees it. *)

\* recv() returns a heartbeat and getpeername() the port it came from.
ReceiveHeartbeat(port) ==
  /\ class \in Receiving
  /\ serverPc = "select"
  /\ port \in inbox
  /\ inbox' = inbox \ {port}
  /\ handling' = port
  /\ serverPc' = "received"
  /\ UNCHANGED <<class, loop, timerMutex, pidTimerMap, portPidMap, report, pc, toStart,
                 proc, peer, open, errno>>

\* Mistake: no pthread_mutex_lock in the handler.
NoLockTimers ==
  /\ serverPc = "received"
  /\ serverPc' = "locked"
  /\ UNCHANGED <<class, loop, timerMutex, pidTimerMap, portPidMap, report, pc, toStart,
                 errno, handling, kernelVars>>

\* The handler waits here for as long as a deployment takes.
LockTimers ==
  /\ serverPc = "received"
  /\ timerMutex = "free"
  /\ timerMutex' = "server"
  /\ serverPc' = "locked"
  /\ UNCHANGED <<class, loop, pidTimerMap, portPidMap, report, pc, toStart, errno,
                 handling, kernelVars>>

\* Mistake: reset every counter once the port is known.
CreditedAll == IF handling \in DOMAIN portPidMap THEN DOMAIN pidTimerMap ELSE {}

\* The two lookups: the counter of the pid that portPidMap has for this port.
Credited ==
  {p \in DOMAIN pidTimerMap :
      handling \in DOMAIN portPidMap /\ portPidMap[handling] = p}

\* The reset, the unlock and, back in the select loop, the echo, which lets the
\* partner send its next heartbeat.
ResetTimer ==
  /\ serverPc = "locked"
  /\ pidTimerMap' = [p \in DOMAIN pidTimerMap |->
                        IF p \in Credited THEN 0 ELSE pidTimerMap[p]]
  /\ timerMutex' = "free"
  /\ handling' = NoPort
  /\ serverPc' = "select"
  /\ UNCHANGED <<class, loop, portPidMap, report, pc, toStart, kernelVars, errno>>

\* recv() returns 0: the other end is gone and everything it sent was read.  The
\* select class closes the connection, and when it was the last of its list the
\* next recv() may hang, on a descriptor that is not the next client's.  (The
\* poller class does not close it, the call is commented out.)
CloseConnection(port) ==
  /\ class = "select"
  /\ serverPc = "select"
  /\ port \in open \ inbox
  /\ proc[peer[port]] # "running"
  /\ open' = open \ {port}
  /\ serverPc' \in {"select", "hung"}
  /\ UNCHANGED <<class, loop, timerMutex, pidTimerMap, portPidMap, report, pc, toStart,
                 errno, handling, proc, peer, inbox>>

\* The select loop ends at the first loop test after the exit message.
LeaveSelectLoop ==
  /\ serverPc = "select"
  /\ ~loop
  /\ serverPc' = "done"
  /\ UNCHANGED <<class, loop, timerMutex, pidTimerMap, portPidMap, report, pc, toStart,
                 errno, handling, kernelVars>>

\* The module thread handles the exit message.
HandleExit ==
  /\ loop
  /\ loop' = FALSE
  /\ UNCHANGED <<class, timerMutex, pidTimerMap, portPidMap, report, pc, toStart,
                 errno, serverPc, handling, kernelVars>>

-----------------------------------------------------------------------------
(* The partner programs and the kernel's side of their connections. *)

\* connect() gets a port that no open connection uses.  A port in TIME_WAIT is
\* not handed out either: its minute outlasts the checks after which the partner
\* that used it has been replaced, and those within which a partner that has yet
\* to connect is replaced itself, so that it gets no port a stranger used when ss
\* looked.
Connect(p, port) ==
  /\ proc[p] = "running"
  /\ PortsOf(p) = {}
  /\ port \notin open
  /\ peer[port] \notin DOMAIN pidTimerMap
  /\ p \in DOMAIN pidTimerMap =>
       \A map \in {portPidMap, report} : port \in DOMAIN map => map[port] \notin Strangers
  /\ open' = open \cup {port}
  /\ peer' = [peer EXCEPT ![port] = p]
  /\ UNCHANGED <<supervisorVars, proc, inbox>>

\* The client sends its next heartbeat only when the last one was echoed.
SendHeartbeat(p, port) ==
  /\ proc[p] = "running"
  /\ port \in PortsOf(p) \ inbox
  /\ handling # port
  /\ inbox' = inbox \cup {port}
  /\ UNCHANGED <<supervisorVars, proc, peer, open>>

\* A process crashes, fails in execvp() or is killed from outside.
Die(p) ==
  /\ proc[p] = "running"
  /\ proc' = [proc EXCEPT ![p] = "zombie"]
  /\ UNCHANGED <<supervisorVars, peer, open, inbox>>

-----------------------------------------------------------------------------
Server == \/ \E port \in Ports : ReceiveHeartbeat(port) \/ CloseConnection(port)
          \/ LockTimers
          \/ ResetTimer
          \/ LeaveSelectLoop

Partner(p) == \/ \E port \in Ports : Connect(p, port) \/ SendHeartbeat(p, port)
              \/ Die(p)

Next == Checker \/ Server \/ HandleExit \/ \E p \in Pids : Partner(p)

Spec == Init /\ [][Next]_vars

\* Fairness: both threads run, and a thread that waits for the mutex gets it,
\* since its holder always gives it back and then sleeps (the checker) or goes
\* through a select() (the server).  The select loop visits every readable
\* connection of a round, so no heartbeat is passed over for ever; a server that
\* hangs in recv() and the poller server, which reads nothing, never receive one.
\* Nothing is assumed of the partners, of the end of a connection or of the exit
\* message.
Fairness ==
  /\ SF_vars(Checker)
  /\ SF_vars(LockTimers \/ ResetTimer)
  /\ \A port \in Ports : SF_vars(ReceiveHeartbeat(port))

FairSpec == Spec /\ Fairness

-----------------------------------------------------------------------------
(* The refinement: what supervision is, seen from outside. *)

\* The ports with a heartbeat that was sent and did not reach the counters yet.
Unread == inbox \cup ({handling} \ {NoPort})

W == INSTANCE Watchdog WITH
  Processes <- Pids,
  Foreign <- Strangers,
  Nobody <- NoPid,
  silence <- pidTimerMap,
  running <- {p \in Pids : proc[p] = "running"},
  missing <- IF pc = "fork" THEN toStart ELSE 0,
  due <- pc \in {"lock", "kill"},
  heard <- {peer[port] : port \in Unread}

\* Two threads, a mutex and two maps that never hold quite the same act as one
\* watchdog whose every step is atomic: whatever the interleaving, and although the scan
\* of the select class holds no lock and the sender of a heartbeat is found by its port,
\* a check, a decision, a redeployment, a heartbeat and an end happen one at a time.
ImplementsWatchdog == W!Spec

-----------------------------------------------------------------------------
(* Properties. *)

\* A partner the supervisor forked never runs unsupervised: from its fork to
\* its end it has a counter, so no deployment forgets to kill a partner of the
\* one before and a silent partner is always noticed.
NoUnsupervisedPartner ==
  \A p \in Pids \ Strangers : proc[p] = "running" => p \in DOMAIN pidTimerMap

\* Outside a deployment the map holds one full set of partners: exactly
\* NumPartners counters, or none before the first deployment.  A failed fork
\* is the exception: its -1 takes the place of every partner that is missing.
GenerationComplete ==
  pc # "fork" /\ NoPid \notin DOMAIN pidTimerMap =>
    \/ Cardinality(DOMAIN pidTimerMap) = NumPartners
    \/ DOMAIN pidTimerMap = {}

\* A counter is seen above MaxMiss at the first check that can see it: it never
\* grows past MaxMiss + 1, however the two threads interleave.
TimerBound == \A p \in DOMAIN pidTimerMap : pidTimerMap[p] <= MaxMiss + 1

\* The partners are killed only while one of them has missed more than MaxMiss
\* checks, or when there is none: runPartnerChecker logs "no response from
\* partner, deploying partner again" just before.
KillJustified == pc = "kill" => MustDeploy

\* It is so in the class that decides under the mutex.
PollerKillJustified == LockedScan => KillJustified

\* While the heartbeat handler works on the maps the checker changes neither.
WritesExclusive == serverPc = "locked" => pc \notin {"kill", "fork", "insert", "reap"}

\* The supervisor signals only processes that it forked itself: the log line
\* before the kill() is "Killing process %d".
KillsOnlyOwnPartners == pc = "kill" => Signalled \subseteq Pids \ Strangers

\* A heartbeat resets no counter but that of the process that sent it, although
\* the handler knows only a port number and looks it up in a map that ss filled
\* some time ago.
HeartbeatCreditsSender ==
  [][\A p \in DOMAIN pidTimerMap \cap DOMAIN pidTimerMap' :
        pidTimerMap'[p] < pidTimerMap[p] =>
          handling \in open /\ peer[handling] = p]_vars

\* A heartbeat that came by a port ss listed counts for the partner that sent it,
\* although the entry was made some time after ss looked, insert() keeps an entry the
\* port had before, and ports are used again.
ListedHeartbeatCounts ==
  [][serverPc = "locked" /\ serverPc' = "select"
       /\ handling \in DOMAIN portPidMap
       /\ peer[handling] \in DOMAIN pidTimerMap =>
          pidTimerMap'[peer[handling]] = 0]_vars

\* A heartbeat that a supervised partner sent resets its counter: the handler
\* logs "Partner is alive, received heartbeat from port %d!".
AliveHeartbeatCounts ==
  [][serverPc = "locked" /\ serverPc' = "select"
       /\ peer[handling] \in DOMAIN pidTimerMap =>
          pidTimerMap'[peer[handling]] = 0]_vars

\* A partner that died is replaced: its pid leaves the map in a deployment,
\* unless the supervisor is told to exit or ends, or its checker spins in the
\* read loop.
DeadPartnerReplaced ==
  \A p \in Pids :
    proc[p] = "zombie" /\ p \in DOMAIN pidTimerMap
      ~> p \notin DOMAIN pidTimerMap \/ ~loop \/ pc = "spin"

\* In the select class no heartbeat waits for ever behind the mutex: the server
\* takes it and echoes it while it runs, so the partner that waits for the echo
\* goes on.  What may keep it waiting: a recv() that hangs, the checker that
\* spins in the read loop or waits for a child to end, the end of the process.
HeartbeatAnswered ==
  \A port \in Ports :
    class = "select" /\ (port \in inbox \/ handling = port)
      ~> \/ port \notin inbox /\ handling # port
         \/ serverPc \in {"hung", "done"}
         \/ pc \in {"spin", "terminated"}
         \/ [](pc = "reap")
=============================================================================
