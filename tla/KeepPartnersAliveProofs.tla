----------------------- MODULE KeepPartnersAliveProofs -----------------------
(***************************************************************************)
(* Proofs about KeepPartnersAlive, for every process table, every number   *)
(* of partners and both server classes.                                    *)
(***************************************************************************)
EXTENDS KeepPartnersAlive, FiniteSetTheorems, TLAPS

LEMMA TypeInit == Init => TypeOK
BY SupervisionAssumption DEF Init, TypeOK, EmptyMap, CheckerPc, ServerPc, ForkErrors

LEMMA TypeStep == TypeOK /\ [Next]_vars => TypeOK'
<1> SUFFICES ASSUME TypeOK, [Next]_vars PROVE TypeOK'
  OBVIOUS
<1> USE SupervisionAssumption DEF TypeOK, CheckerPc, ServerPc, ForkErrors, kernelVars,
                                  supervisorVars
<1>1. CASE LoopTest
  BY <1>1 DEF LoopTest
<1>2. CASE ScanTimers
  BY <1>2 DEF ScanTimers
<1>3. CASE LockForDeployment
  BY <1>3 DEF LockForDeployment
<1>4. CASE KillPartners
  BY <1>4 DEF KillPartners, KillAndKeep, EmptyMap
<1>5. CASE StartPartner
  BY <1>5 DEF StartPartner, Insert
<1>6. CASE SsFillMap
  BY <1>6 DEF SsFillMap, FillAndRelease, Insert, EmptyMap
<1>7. CASE Tick
  BY <1>7 DEF Tick, TickBy
<1>8. ASSUME NEW port \in Ports, ReceiveHeartbeat(port) PROVE TypeOK'
  BY <1>8 DEF ReceiveHeartbeat
<1>9. ASSUME NEW port \in Ports, CloseConnection(port) PROVE TypeOK'
  BY <1>9 DEF CloseConnection
<1>10. CASE LockTimers
  BY <1>10 DEF LockTimers
<1>11. CASE ResetTimer
  BY <1>11 DEF ResetTimer
<1>12. CASE LeaveSelectLoop
  BY <1>12 DEF LeaveSelectLoop
<1>13. CASE HandleExit
  BY <1>13 DEF HandleExit
<1>14. ASSUME NEW p \in Pids, NEW port \in Ports, Connect(p, port) PROVE TypeOK'
  BY <1>14 DEF Connect
<1>15. ASSUME NEW p \in Pids, NEW port \in Ports, SendHeartbeat(p, port) PROVE TypeOK'
  BY <1>15 DEF SendHeartbeat, PortsOf
<1>16. ASSUME NEW p \in Pids, Die(p) PROVE TypeOK'
  BY <1>16 DEF Die
<1>17. CASE SpinInExecGetOutput
  BY <1>17 DEF SpinInExecGetOutput
<1>18. CASE ForkForSsFails
  BY <1>18 DEF ForkForSsFails
<1>19. CASE RunSs
  \* What ss lists are open ports, and an open port has a process at its other end.
  BY <1>19 DEF RunSs, Listed, Established
<1>20. CASE CutLineThrows
  BY <1>20 DEF CutLineThrows
<1>21. CASE WaitForAnyChild
  BY <1>21 DEF WaitForAnyChild
<1>22. CASE UNCHANGED vars
  BY <1>22 DEF vars
<1> QED
  BY <1>1, <1>2, <1>3, <1>4, <1>5, <1>6, <1>7, <1>8, <1>9, <1>10, <1>11, <1>12, <1>13,
     <1>14, <1>15, <1>16, <1>17, <1>18, <1>19, <1>20, <1>21, <1>22
  DEF Next, Checker, Server, Partner

\* The variables keep their types, whatever the process table.
THEOREM TypeCorrect == Spec => []TypeOK
BY TypeInit, TypeStep, PTL DEF Spec

-----------------------------------------------------------------------------
(* The inductive invariant. *)

\* The checker holds the mutex from its decision to the end of the deployment, and
\* for ever when it spins in the read loop or ends the process, the server thread
\* while it works on the maps.
MutexHeld ==
  /\ timerMutex = "checker"
       <=> pc \in {"kill", "fork", "insert", "reap", "spin", "terminated"}
  /\ timerMutex = "server" <=> serverPc = "locked"

\* The connection whose heartbeat is handled is not closed meanwhile.
HandlingOpen == serverPc \in {"received", "locked"} => handling \in open

\* What ss listed: the processes it names are partners or strangers, and as soon as
\* the entry or the port's user is a partner of this deployment, they are the same.
PortMapSound ==
  /\ pc \in {"fork", "insert"} => DOMAIN portPidMap = {}
  /\ pc # "insert" => DOMAIN report = {}
  /\ \A map \in {portPidMap, report} : \A port \in DOMAIN map :
        /\ map[port] \in DOMAIN pidTimerMap \cup Strangers
        /\ peer[port] \in DOMAIN pidTimerMap \/ map[port] \in DOMAIN pidTimerMap
             => peer[port] = map[port]

\* The counters, also between the scan and the tick that follows it.
CountersBounded ==
  /\ TimerBound
  /\ pc = "sleep" => ~Expired
  /\ pc \in {"fork", "insert", "reap"} => \A p \in DOMAIN pidTimerMap : pidTimerMap[p] = 0

\* The poller class decides under the mutex.
DecidedUnderMutex == /\ LockedScan => pc # "lock"
                     /\ PollerKillJustified

\* The counters are those of forked processes, as many as forked so far, none of
\* which is waited for before they all are.
OneGeneration ==
  /\ IsFiniteSet(DOMAIN pidTimerMap)
  /\ pc = "fork" => \A p \in DOMAIN pidTimerMap \ {NoPid} : proc[p] # "unused"
  /\ NoPid \notin DOMAIN pidTimerMap =>
       IF pc = "fork"
       THEN Cardinality(DOMAIN pidTimerMap) + toStart = NumPartners
       ELSE \/ Cardinality(DOMAIN pidTimerMap) = NumPartners
            \/ DOMAIN pidTimerMap = {}

IInv == /\ TypeOK
        /\ MutexHeld
        /\ HandlingOpen
        /\ PortMapSound
        /\ NoUnsupervisedPartner
        /\ CountersBounded
        /\ DecidedUnderMutex
        /\ OneGeneration

LEMMA IInvInit == Init => IInv
<1> SUFFICES ASSUME Init PROVE IInv
  OBVIOUS
<1>1. TypeOK
  BY TypeInit
<1>2. OneGeneration
  BY FS_EmptySet DEF Init, OneGeneration, EmptyMap
<1> QED
  BY <1>1, <1>2 DEF Init, IInv, EmptyMap, MutexHeld, HandlingOpen, PortMapSound,
     NoUnsupervisedPartner, CountersBounded, TimerBound, Expired,
     DecidedUnderMutex, PollerKillJustified, KillJustified

LEMMA IInvStep == IInv /\ [Next]_vars => IInv'
<1> SUFFICES ASSUME IInv, [Next]_vars PROVE IInv'
  OBVIOUS
<1> USE SupervisionAssumption
    DEF IInv, MutexHeld, HandlingOpen, PortMapSound, NoUnsupervisedPartner,
        CountersBounded, TimerBound, Expired, MustDeploy, DecidedUnderMutex,
        LockedScan, PollerKillJustified, KillJustified, OneGeneration,
        supervisorVars, kernelVars
<1> TypeOK'
  BY TypeStep
<1>1. CASE LoopTest
  BY <1>1 DEF LoopTest, TypeOK
<1>2. CASE ScanTimers
  BY <1>2 DEF ScanTimers, TypeOK
<1>3. CASE LockForDeployment
  BY <1>3 DEF LockForDeployment, TypeOK
<1>4. CASE KillPartners
  <2> USE <1>4 DEF KillPartners, KillAndKeep, EmptyMap
  <2>1. pidTimerMap' = EmptyMap /\ portPidMap' = EmptyMap /\ pc' = "fork"
    OBVIOUS
  <2>2. DOMAIN pidTimerMap' = {} /\ DOMAIN portPidMap' = {} /\ DOMAIN report' = {}
    BY <2>1
  <2>3. NoUnsupervisedPartner'
    \* Every running partner had a counter, so it is among those signalled.
    BY DEF Signalled, TypeOK
  <2>4. OneGeneration'
    <3>1. IsFiniteSet({}) /\ Cardinality({}) = 0
      BY FS_EmptySet
    <3>2. Cardinality(DOMAIN pidTimerMap') + toStart' = NumPartners
      BY <2>2, <3>1
    <3> QED
      BY <2>1, <2>2, <3>1, <3>2
  <2>5. MutexHeld' /\ HandlingOpen' /\ PortMapSound'
    BY <2>1, <2>2 DEF TypeOK
  <2>6. CountersBounded' /\ DecidedUnderMutex'
    BY <2>1, <2>2 DEF TypeOK
  <2> QED
    BY <2>3, <2>4, <2>5, <2>6
<1>5. CASE StartPartner
  <2>1. PICK p \in Pids \cup {NoPid} :
          /\ p \in Pids => proc[p] = "unused"
          /\ proc' = IF p = NoPid THEN proc ELSE [proc EXCEPT ![p] = "running"]
          /\ pidTimerMap' = Insert(pidTimerMap, [k \in {p} |-> 0])
    BY <1>5 DEF StartPartner
  <2>2. /\ pc = "fork" /\ toStart > 0 /\ toStart' = toStart - 1
        /\ UNCHANGED <<loop, timerMutex, portPidMap, report, pc, serverPc, handling,
                       peer, open, inbox>>
    BY <1>5 DEF StartPartner
  <2>3. /\ DOMAIN pidTimerMap' = DOMAIN pidTimerMap \cup {p}
        /\ \A q \in DOMAIN pidTimerMap : pidTimerMap'[q] = pidTimerMap[q]
        /\ p \notin DOMAIN pidTimerMap => pidTimerMap'[p] = 0
    BY <2>1 DEF Insert
  <2>4. /\ p \in Pids => p \notin DOMAIN pidTimerMap
        /\ \A q \in Pids \ {p} : proc'[q] = proc[q]
        /\ p \in Pids => proc'[p] = "running"
    BY <2>1, <2>2 DEF TypeOK
  <2>5. NoUnsupervisedPartner'
    BY <2>1, <2>3, <2>4
  <2>6. OneGeneration'
    <3>1. IsFiniteSet(DOMAIN pidTimerMap')
      BY <2>3, FS_AddElement
    <3>2. \A q \in DOMAIN pidTimerMap' \ {NoPid} : proc'[q] # "unused"
      BY <2>1, <2>2, <2>3, <2>4 DEF TypeOK
    <3>3. ASSUME NoPid \notin DOMAIN pidTimerMap'
          PROVE  Cardinality(DOMAIN pidTimerMap') + toStart' = NumPartners
      <4>1. p \notin DOMAIN pidTimerMap
        BY <2>3, <2>4, <3>3
      <4>2. Cardinality(DOMAIN pidTimerMap') = Cardinality(DOMAIN pidTimerMap) + 1
        <5>1. IsFiniteSet(DOMAIN pidTimerMap)
          OBVIOUS
        <5>2. Cardinality(DOMAIN pidTimerMap \cup {p})
                = Cardinality(DOMAIN pidTimerMap) + 1
          BY <4>1, <5>1, FS_AddElement
        <5> QED
          BY <2>3, <5>2
      <4>3. Cardinality(DOMAIN pidTimerMap) + toStart = NumPartners
        BY <2>2, <2>3, <3>3
      <4>4. Cardinality(DOMAIN pidTimerMap) \in Nat
        BY FS_CardinalityType
      <4> QED
        BY <2>2, <4>2, <4>3, <4>4 DEF TypeOK
    <3> QED
      BY <2>2, <3>1, <3>2, <3>3
  <2>7. MutexHeld' /\ HandlingOpen' /\ PortMapSound'
    BY <2>2 DEF TypeOK
  <2>8. CountersBounded' /\ DecidedUnderMutex'
    BY <2>2, <2>3 DEF TypeOK
  <2> QED
    BY <2>5, <2>6, <2>7, <2>8
<1>6. CASE SsFillMap
  <2> USE <1>6 DEF SsFillMap, FillAndRelease
  <2>1. /\ DOMAIN portPidMap' = DOMAIN report /\ DOMAIN report' = {}
        /\ \A port \in DOMAIN report : portPidMap'[port] = report[port]
    \* The map was empty: what ss listed is all it holds.
    BY DEF Insert, EmptyMap
  <2>2. PortMapSound'
    BY <2>1
  <2>3. CountersBounded'
    <3>1. \A p \in DOMAIN pidTimerMap : pidTimerMap[p] = 0
      OBVIOUS
    <3> QED
      BY <3>1
  <2>4. OneGeneration'
    OBVIOUS
  <2>5. MutexHeld' /\ HandlingOpen' /\ NoUnsupervisedPartner' /\ DecidedUnderMutex'
    BY DEF TypeOK
  <2> QED
    BY <2>2, <2>3, <2>4, <2>5
<1>7. CASE Tick
  BY <1>7 DEF Tick, TickBy, TypeOK
<1>8. ASSUME NEW port \in Ports, ReceiveHeartbeat(port) PROVE IInv'
  BY <1>8 DEF ReceiveHeartbeat, TypeOK
<1>9. ASSUME NEW port \in Ports, CloseConnection(port) PROVE IInv'
  BY <1>9 DEF CloseConnection, TypeOK
<1>10. CASE LockTimers
  BY <1>10 DEF LockTimers, TypeOK
<1>11. CASE ResetTimer
  BY <1>11 DEF ResetTimer, TypeOK
<1>12. CASE LeaveSelectLoop
  BY <1>12 DEF LeaveSelectLoop, TypeOK
<1>13. CASE HandleExit
  BY <1>13 DEF HandleExit, TypeOK
<1>14. ASSUME NEW p \in Pids, NEW port \in Ports, Connect(p, port) PROVE IInv'
  BY <1>14 DEF Connect, TypeOK
<1>15. ASSUME NEW p \in Pids, NEW port \in Ports, SendHeartbeat(p, port) PROVE IInv'
  BY <1>15 DEF SendHeartbeat, TypeOK
<1>16. ASSUME NEW p \in Pids, Die(p) PROVE IInv'
  BY <1>16 DEF Die, TypeOK
<1>17. CASE SpinInExecGetOutput \/ ForkForSsFails \/ CutLineThrows
  <2>1. Cardinality(DOMAIN pidTimerMap) \in Nat
    BY FS_CardinalityType
  <2> QED
    BY <1>17, <2>1 DEF SpinInExecGetOutput, ForkForSsFails, CutLineThrows, TypeOK
<1>18. CASE RunSs
  <2> USE <1>18 DEF RunSs
  <2>1. PICK ports \in SUBSET Established : report' = [port \in ports |-> peer[port]]
    BY DEF Listed
  <2>2. \A port \in ports : peer[port] \in DOMAIN pidTimerMap \cup Strangers
    \* ss lists running processes, and those that are not strangers have counters.
    BY DEF Established, TypeOK
  <2>3. PortMapSound'
    BY <2>1, <2>2
  <2>4. OneGeneration'
    <3>1. Cardinality(DOMAIN pidTimerMap) \in Nat
      BY FS_CardinalityType
    <3> QED
      BY <3>1 DEF TypeOK
  <2>5. /\ MutexHeld' /\ HandlingOpen' /\ NoUnsupervisedPartner' /\ CountersBounded'
        /\ DecidedUnderMutex'
    BY DEF TypeOK
  <2> QED
    BY <2>3, <2>4, <2>5
<1>19. CASE WaitForAnyChild
  <2> USE <1>19 DEF WaitForAnyChild
  <2>1. \A p \in Pids : proc'[p] = "running" => proc[p] = "running"
    BY DEF TypeOK
  <2>2. \A p \in DOMAIN pidTimerMap : pidTimerMap[p] = 0
    OBVIOUS
  <2>3. CountersBounded'
    BY <2>2
  <2>4. /\ MutexHeld' /\ HandlingOpen' /\ PortMapSound' /\ DecidedUnderMutex'
        /\ OneGeneration'
    BY DEF TypeOK
  <2> QED
    BY <2>1, <2>3, <2>4
<1>20. CASE UNCHANGED vars
  BY <1>20 DEF vars, TypeOK
<1> QED
  BY <1>1, <1>2, <1>3, <1>4, <1>5, <1>6, <1>7, <1>8, <1>9, <1>10, <1>11, <1>12, <1>13,
     <1>14, <1>15, <1>16, <1>17, <1>18, <1>19, <1>20 DEF Next, Checker, Server, Partner

\* The inductive invariant of both classes.
THEOREM Invariance == Spec => []IInv
BY IInvInit, IInvStep, PTL DEF Spec

-----------------------------------------------------------------------------
(* What follows from it. *)

\* No partner ever runs without a counter.
THEOREM Supervised == Spec => []NoUnsupervisedPartner
<1>1. IInv => NoUnsupervisedPartner
  BY DEF IInv
<1> QED
  BY <1>1, Invariance, PTL

\* Outside a deployment there is one counter per configured partner.
THEOREM OneFullGeneration == Spec => []GenerationComplete
<1>1. IInv => GenerationComplete
  BY DEF IInv, OneGeneration, GenerationComplete
<1> QED
  BY <1>1, Invariance, PTL

\* No counter passes MaxMiss + 1, with or without the mutex around the scan.
THEOREM CountersStayBounded == Spec => []TimerBound
<1>1. IInv => TimerBound
  BY DEF IInv, CountersBounded
<1> QED
  BY <1>1, Invariance, PTL

\* The handler and a deployment never work on the maps at the same time.
THEOREM NoConcurrentWriters == Spec => []WritesExclusive
<1>1. IInv => WritesExclusive
  BY DEF IInv, MutexHeld, WritesExclusive
<1> QED
  BY <1>1, Invariance, PTL

\* The poller class kills its partners only while one of them is silent.
THEOREM PollerKillsJustified == Spec => []PollerKillJustified
<1>1. IInv => PollerKillJustified
  BY DEF IInv, DecidedUnderMutex
<1> QED
  BY <1>1, Invariance, PTL

\* Port numbers never credit a heartbeat to another process than its sender.
THEOREM CreditsSender == Spec => HeartbeatCreditsSender
<1> DEFINE Credits == \A p \in DOMAIN pidTimerMap \cap DOMAIN pidTimerMap' :
                        pidTimerMap'[p] < pidTimerMap[p] =>
                          handling \in open /\ peer[handling] = p
<1>1. IInv /\ [Next]_vars => [Credits]_vars
  <2> SUFFICES ASSUME IInv, Next,
                      NEW p \in DOMAIN pidTimerMap \cap DOMAIN pidTimerMap',
                      pidTimerMap'[p] < pidTimerMap[p]
               PROVE  handling \in open /\ peer[handling] = p
    OBVIOUS
  <2>1. pidTimerMap[p] \in Nat
    BY DEF IInv, TypeOK
  <2>2. pidTimerMap' # pidTimerMap
    BY <2>1
  <2>3. CASE ResetTimer
    <3>1. p \in Credited
      BY <2>1, <2>3 DEF ResetTimer
    <3>2. handling \in DOMAIN portPidMap /\ portPidMap[handling] = p
      BY <3>1 DEF Credited
    <3> QED
      BY <2>3, <3>2 DEF IInv, PortMapSound, HandlingOpen, ResetTimer
  <2>4. CASE KillPartners
    BY <2>4 DEF KillPartners, KillAndKeep, EmptyMap
  <2>5. CASE StartPartner
    BY <2>1, <2>5 DEF StartPartner, Insert
  <2>6. CASE Tick
    BY <2>1, <2>6 DEF Tick, TickBy
  <2> QED
    BY <2>2, <2>3, <2>4, <2>5, <2>6
    DEF Next, Checker, Server, Partner, LoopTest, ScanTimers, LockForDeployment,
        SpinInExecGetOutput, ForkForSsFails, RunSs, CutLineThrows, WaitForAnyChild, SsFillMap,
        FillAndRelease, ReceiveHeartbeat, CloseConnection, LockTimers, LeaveSelectLoop,
        HandleExit, Connect, SendHeartbeat, Die, supervisorVars
<1> QED
  BY <1>1, Invariance, PTL DEF Spec, HeartbeatCreditsSender

\* The heartbeat of a partner whose port ss listed always counts for it.
THEOREM ListedPartnersCount == Spec => ListedHeartbeatCounts
<1> DEFINE Counts == serverPc = "locked" /\ serverPc' = "select"
                       /\ handling \in DOMAIN portPidMap
                       /\ peer[handling] \in DOMAIN pidTimerMap =>
                          pidTimerMap'[peer[handling]] = 0
<1>1. IInv /\ [Next]_vars => [Counts]_vars
  <2> SUFFICES ASSUME IInv, Next, serverPc = "locked", serverPc' = "select",
                      handling \in DOMAIN portPidMap,
                      peer[handling] \in DOMAIN pidTimerMap
               PROVE  pidTimerMap'[peer[handling]] = 0
    OBVIOUS
  <2>1. ResetTimer
    BY DEF Next, Checker, Server, Partner, LoopTest, ScanTimers, LockForDeployment,
        KillPartners, KillAndKeep, StartPartner, SpinInExecGetOutput, ForkForSsFails, RunSs,
        CutLineThrows, WaitForAnyChild, SsFillMap, FillAndRelease, Tick, TickBy,
        ReceiveHeartbeat, CloseConnection, LockTimers, LeaveSelectLoop, HandleExit, Connect,
        SendHeartbeat, Die, supervisorVars
  <2>2. portPidMap[handling] = peer[handling]
    BY DEF IInv, PortMapSound
  <2>3. peer[handling] \in Credited
    BY <2>2 DEF Credited
  <2> QED
    BY <2>1, <2>3 DEF ResetTimer
<1> QED
  BY <1>1, Invariance, PTL DEF Spec, ListedHeartbeatCounts

-----------------------------------------------------------------------------
(* The refinement of the watchdog. *)

\* Only the refinement needs these two: the heartbeat in the handler is not in the
\* inbox any more, and a process has one connection at most, so that a process whose
\* heartbeat is answered has no other on its way.
HandlingApart ==
  /\ serverPc \in {"received", "locked"} <=> handling # NoPort
  /\ handling \notin inbox
OneConnection == \A a, b \in open : peer[a] = peer[b] => a = b

WInv == HandlingApart /\ OneConnection

LEMMA WInvInit == Init => WInv
BY DEF Init, WInv, HandlingApart, OneConnection

LEMMA WInvStep == IInv /\ WInv /\ [Next]_vars => WInv'
<1> SUFFICES ASSUME TypeOK, WInv, [Next]_vars PROVE WInv'
  BY DEF IInv
<1> USE SupervisionAssumption DEF WInv, HandlingApart, OneConnection, kernelVars,
                                  supervisorVars
<1>1. CASE Checker
  BY <1>1 DEF Checker, LoopTest, ScanTimers, LockForDeployment, KillPartners, KillAndKeep,
     StartPartner, SpinInExecGetOutput, ForkForSsFails, RunSs, CutLineThrows,
     WaitForAnyChild, SsFillMap, FillAndRelease, Tick, TickBy
<1>2. ASSUME NEW port \in Ports, ReceiveHeartbeat(port) PROVE WInv'
  BY <1>2 DEF ReceiveHeartbeat
<1>3. ASSUME NEW port \in Ports, CloseConnection(port) PROVE WInv'
  BY <1>3 DEF CloseConnection
<1>4. CASE LockTimers \/ LeaveSelectLoop \/ HandleExit
  BY <1>4 DEF LockTimers, LeaveSelectLoop, HandleExit
<1>5. CASE ResetTimer
  BY <1>5 DEF ResetTimer, TypeOK
<1>6. ASSUME NEW p \in Pids, NEW port \in Ports, Connect(p, port) PROVE WInv'
  BY <1>6 DEF Connect, PortsOf, TypeOK
<1>7. ASSUME NEW p \in Pids, NEW port \in Ports, SendHeartbeat(p, port) PROVE WInv'
  BY <1>7 DEF SendHeartbeat
<1>8. ASSUME NEW p \in Pids, Die(p) PROVE WInv'
  BY <1>8 DEF Die
<1>9. CASE UNCHANGED vars
  BY <1>9 DEF vars
<1> QED
  BY <1>1, <1>2, <1>3, <1>4, <1>5, <1>6, <1>7, <1>8, <1>9 DEF Next, Server, Partner

\* What the watchdog sees of the connections.
Heard == {peer[port] : port \in Unread}
Runs == {p \in Pids : proc[p] = "running"}
Missing == IF pc = "fork" THEN toStart ELSE 0
Due == pc \in {"lock", "kill"}

\* An unread heartbeat came by an open connection of a process.
LEMMA UnreadIsOpen ==
  ASSUME IInv, WInv
  PROVE  Unread \subseteq open /\ Heard \subseteq Pids
BY DEF IInv, TypeOK, WInv, HandlingApart, HandlingOpen, Unread, Heard

\* The steps of the checker: a second, a decision, the kill, a fork, or nothing that
\* the watchdog knows of.
LEMMA CheckerRefines ==
  ASSUME IInv, WInv, Checker
  PROVE  [W!Next]_W!wvars
<1> USE DEF IInv, kernelVars
<1>0. ASSUME UNCHANGED <<inbox, handling, peer>> PROVE Heard' = Heard
  BY <1>0 DEF Heard, Unread
<1>1. CASE \/ LoopTest \/ LockForDeployment \/ SpinInExecGetOutput \/ ForkForSsFails
           \/ RunSs \/ CutLineThrows \/ SsFillMap \/ WaitForAnyChild
  <2> USE <1>1 DEF LoopTest, LockForDeployment, SpinInExecGetOutput, ForkForSsFails, RunSs,
                   CutLineThrows, SsFillMap, FillAndRelease, WaitForAnyChild
  <2>1. UNCHANGED <<pidTimerMap, inbox, handling, peer>>
    OBVIOUS
  <2>2. Runs' = Runs
    \* A child that ended and is waited for did not run.
    BY DEF Runs, TypeOK
  <2>3. Missing' = Missing /\ Due' = Due
    BY DEF Missing, Due
  <2> QED
    BY <1>0, <2>1, <2>2, <2>3 DEF Missing, Due, Heard, Runs, W!wvars
<1>2. CASE ScanTimers
  <2>1. UNCHANGED <<pidTimerMap, proc, inbox, handling, peer>>
    BY <1>2 DEF ScanTimers
  <2>2. Missing = 0 /\ Missing' = 0 /\ Due = FALSE
    BY <1>2 DEF ScanTimers, Missing, Due
  <2>3. CASE MustDeploy
    <3>1. Due' = TRUE
      BY <1>2, <2>3 DEF ScanTimers, Due
    <3>2. W!Decide
      BY <1>0, <2>1, <2>2, <2>3, <3>1
      DEF W!Decide, W!Overdue, W!Partners, MustDeploy, Expired, Missing, Due, Heard
    <3> QED
      BY <3>2 DEF W!Next
  <2>4. CASE ~MustDeploy
    <3>1. Due' = FALSE
      BY <1>2, <2>4 DEF ScanTimers, Due
    <3> QED
      BY <1>0, <2>1, <2>2, <3>1 DEF Missing, Due, Heard, W!wvars
  <2> QED
    BY <2>3, <2>4
<1>3. CASE KillPartners
  <2>1. UNCHANGED <<inbox, handling, peer>>
    BY <1>3 DEF KillPartners, KillAndKeep
  <2>2. Due = TRUE /\ Due' = FALSE /\ Missing' = NumPartners
    BY <1>3 DEF KillPartners, KillAndKeep, Due, Missing
  <2>3. Runs' = Runs \ Signalled /\ pidTimerMap' = EmptyMap
    BY <1>3 DEF KillPartners, KillAndKeep, Runs, TypeOK
  <2>4. W!KillAll
    BY <1>0, <2>1, <2>2, <2>3
    DEF W!KillAll, W!Partners, Signalled, EmptyMap, Missing, Due, Heard, Runs
  <2> QED
    BY <2>4 DEF W!Next
<1>4. CASE StartPartner
  <2>1. UNCHANGED <<inbox, handling, peer>>
    BY <1>4 DEF StartPartner
  <2>2. Missing > 0 /\ Missing' = Missing - 1 /\ Due' = Due
    BY <1>4 DEF StartPartner, Missing, Due
  <2>3. PICK p \in {q \in Pids : proc[q] = "unused" /\ PortsOf(q) = {}} \cup {NoPid} :
          /\ proc' = IF p = NoPid THEN proc ELSE [proc EXCEPT ![p] = "running"]
          /\ pidTimerMap' = Insert(pidTimerMap, [k \in {p} |-> 0])
    BY <1>4 DEF StartPartner
  <2>4. CASE p = NoPid
    <3>1. Runs' = Runs
      BY <2>3, <2>4 DEF Runs
    <3>2. pidTimerMap' = [q \in DOMAIN pidTimerMap \cup {NoPid} |->
                            IF q \in DOMAIN pidTimerMap THEN pidTimerMap[q] ELSE 0]
      BY <2>3, <2>4 DEF Insert
    <3>3. W!StartOne
      BY <1>0, <2>1, <2>2, <3>1, <3>2 DEF W!StartOne, W!Partners, Missing, Due, Heard, Runs
    <3> QED
      BY <3>3 DEF W!Next
  <2>5. CASE p # NoPid
    <3>1. p \in Pids \ (Runs \cup DOMAIN pidTimerMap)
      BY <1>4, <2>3, <2>5 DEF StartPartner, Runs, OneGeneration, TypeOK
    <3>2. Runs' = Runs \cup {p}
      BY <2>3, <2>5 DEF Runs, TypeOK
    <3>3. pidTimerMap' = [q \in DOMAIN pidTimerMap \cup {p} |->
                            IF q = p THEN 0 ELSE pidTimerMap[q]]
      BY <2>3, <3>1 DEF Insert
    <3>4. W!StartOne
      BY <1>0, <2>1, <2>2, <3>1, <3>2, <3>3
      DEF W!StartOne, W!Partners, Missing, Due, Heard, Runs
    <3> QED
      BY <3>4 DEF W!Next
  <2> QED
    BY <2>4, <2>5
<1>5. CASE Tick
  <2>1. UNCHANGED <<proc, inbox, handling, peer>>
    BY <1>5 DEF Tick, TickBy
  <2>2. Missing = 0 /\ Missing' = 0 /\ Due = FALSE /\ Due' = FALSE
    BY <1>5 DEF Tick, TickBy, Missing, Due
  <2>3. ~Expired
    BY <1>5 DEF Tick, TickBy, CountersBounded
  <2>4. W!Second
    BY <1>0, <1>5, <2>1, <2>2, <2>3
    DEF W!Second, W!Overdue, W!Partners, Expired, Tick, TickBy, Missing, Due, Heard
  <2> QED
    BY <2>4 DEF W!Next
<1> QED
  BY <1>1, <1>2, <1>3, <1>4, <1>5 DEF Checker

\* The handler's end is the one step by which a heartbeat counts, and it counts for
\* the process at the other end of the connection or for nobody.
LEMMA ResetRefines ==
  ASSUME IInv, WInv, ResetTimer
  PROVE  W!Next
<1>1. PICK sender \in Pids :
         /\ sender = peer[handling]
         /\ handling \in open /\ handling \notin inbox /\ handling # NoPort
         /\ inbox \subseteq open
         /\ \A port \in inbox : peer[port] # sender
  BY DEF IInv, TypeOK, WInv, HandlingApart, OneConnection, HandlingOpen, ResetTimer
<1>2. sender \in Heard /\ Heard' = Heard \ {sender}
  <2>1. Unread = inbox \cup {handling} /\ Unread' = inbox
    BY <1>1 DEF Unread, ResetTimer, kernelVars
  <2>2. peer' = peer
    BY DEF ResetTimer, kernelVars
  <2> QED
    BY <1>1, <2>1, <2>2 DEF Heard
<1>3. UNCHANGED <<proc, pc, toStart>>
  BY DEF ResetTimer, kernelVars
<1>4. Credited \subseteq {sender} \cap DOMAIN pidTimerMap
  BY <1>1 DEF Credited, IInv, PortMapSound
<1>5. CASE Credited = {}
  <2>1. pidTimerMap' = pidTimerMap
    BY <1>5 DEF ResetTimer, IInv, TypeOK
  <2>2. W!Ignore(sender)
    BY <1>2, <1>3, <2>1 DEF W!Ignore, Heard
  <2> QED
    BY <1>1, <2>2 DEF W!Next
<1>6. CASE Credited # {}
  <2>1. Credited = {sender} /\ sender \in DOMAIN pidTimerMap
    BY <1>4, <1>6
  <2>2. pidTimerMap' = [pidTimerMap EXCEPT ![sender] = 0]
    BY <2>1 DEF ResetTimer, IInv, TypeOK
  <2>3. W!Count(sender)
    BY <1>2, <1>3, <2>1, <2>2 DEF W!Count, W!Partners, Heard
  <2> QED
    BY <1>1, <2>3 DEF W!Next
<1> QED
  BY <1>5, <1>6

\* The other steps of the server, of the partners and of the kernel.
LEMMA OthersRefine ==
  ASSUME IInv, WInv, Next, ~Checker, ~ResetTimer
  PROVE  [W!Next]_W!wvars
<1> USE DEF kernelVars, supervisorVars
<1>0. Unread \subseteq open /\ peer \in [Ports -> Pids \cup {NoPid}] /\ open \subseteq Ports
  BY UnreadIsOpen DEF IInv, TypeOK
<1>1. ASSUME UNCHANGED <<pidTimerMap, proc, pc, toStart>>, Heard' = Heard
      PROVE  UNCHANGED W!wvars
  BY <1>1 DEF Heard, W!wvars
<1>2. ASSUME NEW port \in Ports, ReceiveHeartbeat(port) PROVE UNCHANGED W!wvars
  <2>1. Unread' = Unread
    BY <1>2, SupervisionAssumption DEF ReceiveHeartbeat, Unread, WInv, HandlingApart
  <2> QED
    BY <1>1, <1>2, <2>1 DEF ReceiveHeartbeat, Heard
<1>3. CASE \/ LockTimers \/ LeaveSelectLoop \/ HandleExit
           \/ \E port \in Ports : CloseConnection(port)
  <2>1. UNCHANGED <<pidTimerMap, proc, pc, toStart, inbox, handling, peer>>
    BY <1>3 DEF LockTimers, LeaveSelectLoop, HandleExit, CloseConnection
  <2> QED
    BY <1>1, <2>1 DEF Heard, Unread
<1>4. ASSUME NEW p \in Pids, NEW port \in Ports, Connect(p, port) PROVE UNCHANGED W!wvars
  <2>1. \A o \in Unread : peer'[o] = peer[o]
    BY <1>0, <1>4 DEF Connect
  <2>2. Unread' = Unread
    BY <1>4 DEF Connect, Unread
  <2> QED
    BY <1>1, <1>4, <2>1, <2>2 DEF Connect, Heard
<1>5. ASSUME NEW p \in Pids, NEW port \in Ports, SendHeartbeat(p, port) PROVE W!Next
  <2>1. /\ port \in open /\ peer[port] = p /\ port \notin Unread
        /\ proc[p] = "running"
    BY <1>5 DEF SendHeartbeat, PortsOf, Unread
  <2>2. p \notin Heard
    BY <1>0, <2>1 DEF Heard, WInv, OneConnection
  <2>3. Unread' = Unread \cup {port} /\ UNCHANGED <<peer, pidTimerMap, proc, pc, toStart>>
    BY <1>5 DEF SendHeartbeat, Unread
  <2>4. Heard' = Heard \cup {p}
    BY <2>1, <2>3 DEF Heard
  <2>5. W!SendHeartbeat(p)
    BY <2>1, <2>2, <2>3, <2>4 DEF W!SendHeartbeat, Heard
  <2> QED
    BY <2>5 DEF W!Next
<1>6. ASSUME NEW p \in Pids, Die(p) PROVE W!Next
  <2>1. p \in Runs /\ Runs' = Runs \ {p}
    BY <1>6 DEF Die, Runs, IInv, TypeOK
  <2>2. UNCHANGED <<pidTimerMap, pc, toStart, inbox, handling, peer>>
    BY <1>6 DEF Die
  <2>3. W!Die(p)
    BY <2>1, <2>2 DEF W!Die, Runs, Unread
  <2> QED
    BY <2>3 DEF W!Next
<1> QED
  BY <1>2, <1>3, <1>4, <1>5, <1>6 DEF Next, Server, Partner

\* Supervision is the watchdog: its initial states are the watchdog's and each of its
\* steps is one of the watchdog's or none.
THEOREM SupervisionIsWatchdog == Spec => ImplementsWatchdog
<1>1. Init => W!Init
  BY SupervisionAssumption DEF Init, W!Init, EmptyMap, Unread
<1>2. IInv /\ WInv /\ [Next]_vars => [W!Next]_W!wvars
  <2>1. ASSUME UNCHANGED vars PROVE UNCHANGED W!wvars
    BY <2>1 DEF vars, W!wvars, Unread
  <2> QED
    BY <2>1, CheckerRefines, ResetRefines, OthersRefine
<1>3. Spec => []WInv
  BY WInvInit, WInvStep, Invariance, PTL DEF Spec
<1> QED
  BY <1>1, <1>2, <1>3, Invariance, PTL DEF Spec, ImplementsWatchdog, W!Spec
=============================================================================
