------------------------- MODULE ThreadedModuleProofs -------------------------
(***************************************************************************)
(* The base class, which joins the thread it created: stop() leaves no      *)
(* thread behind and nothing is handled after the exit message.  Both       *)
(* classes: stop() never joins a thread that has no reason to end, and the   *)
(* module uses its queue as one with single steps.  For any number of       *)
(* starts, any messages and any length of the queue.                        *)
(***************************************************************************)
EXTENDS ThreadedModule, TLAPS

Running == {"started", "stopping", "triggering", "joining"}

\* _thread names the only thread that can be alive: the last one created.
HandleNamesLast ==
  /\ handle = <<"run", starts>>
  /\ \A n \in Starts : worker[n] = "none"
  /\ \A n \in Starts : n < starts => run[n] = "ended"
  /\ \A n \in Starts : n > starts <=> run[n] = "none"

\* The owner's side: where it is in its calls tells what has been started.
OwnerKnows ==
  /\ owner \in Running => starts # 0
  /\ owner \notin Running => \A n \in Starts : ~RunAlive(n)

\* The one thread takes messages only while loop is set, and alone clears it.
ReceivesWhileLooping == \A n \in Starts : run[n] = "get" => loop

BaseInv == HandleNamesLast /\ OwnerKnows /\ ReceivesWhileLooping

MInv == TypeOK /\ (class = "base" => BaseInv)

LEMMA ClassStays == [Next]_vars => class' = class
  BY DEF Next, Start, Stop, CallStop, TriggerExit, SendExit, Join, Delete, Send, RunThread,
         LoopTest, Receive, ReceiveNothing, HandleMessage, HandleTimeout, Worker, WorkerBlocks,
         WorkerReturns, WorkerEnds, vars

LEMMA ModuleTypeStep == TypeOK /\ [Next]_vars => TypeOK'
<1> SUFFICES ASSUME TypeOK, [Next]_vars PROVE TypeOK'
  OBVIOUS
<1> USE DEF TypeOK, Starts, AllMessages
<1>1. CASE Start
  BY <1>1, ModuleAssumption DEF Start
<1>2. CASE Stop
  <2>1. CASE CallStop \/ TriggerExit \/ Join
    BY <2>1 DEF CallStop, TriggerExit, Join
  <2>2. CASE SendExit
    BY <2>2 DEF SendExit
  <2> QED BY <1>2, <2>1, <2>2 DEF Stop
<1>3. CASE Delete
  BY <1>3 DEF Delete
<1>4. ASSUME NEW m \in Messages, Send(m) PROVE TypeOK'
  BY <1>4 DEF Send
<1>5. ASSUME NEW n \in Starts, Receive(n) PROVE TypeOK'
  <2>1. Head(moduleQueue) \in AllMessages /\ Tail(moduleQueue) \in Seq(AllMessages)
    BY <1>5 DEF Receive
  <2> QED BY <1>5, <2>1 DEF Receive
<1>6. ASSUME NEW n \in Starts, RunThread(n), ~Receive(n) PROVE TypeOK'
  BY <1>6 DEF RunThread, LoopTest, ReceiveNothing, HandleMessage, HandleTimeout
<1>7. ASSUME NEW n \in Starts, Worker(n) PROVE TypeOK'
  BY <1>7 DEF Worker, WorkerBlocks, WorkerReturns, WorkerEnds
<1>8. CASE UNCHANGED vars
  BY <1>8 DEF vars
<1> QED BY <1>1, <1>2, <1>3, <1>4, <1>5, <1>6, <1>7, <1>8 DEF Next

LEMMA ModuleInvStep == MInv /\ [Next]_vars => MInv'
<1> SUFFICES ASSUME MInv, [Next]_vars, class = "base"
             PROVE  HandleNamesLast' /\ OwnerKnows' /\ ReceivesWhileLooping'
  BY ModuleTypeStep, ClassStays DEF MInv, BaseInv
<1> USE DEF HandleNamesLast, OwnerKnows, ReceivesWhileLooping, RunAlive, Running
<1>t. TypeOK /\ HandleNamesLast /\ OwnerKnows /\ ReceivesWhileLooping
  BY DEF MInv, BaseInv
<1>1. CASE Start
  <2>0. /\ handle' = <<"run", starts'>> /\ worker' = worker
    BY <1>1, Zenon DEF Start
  <2>1. /\ starts \in Nat /\ starts' = starts + 1 /\ starts' \in Starts
        /\ loop' = TRUE /\ owner' = "started"
        /\ run' = [run EXCEPT ![starts'] = "test"]
    BY <1>1, <1>t, ModuleAssumption DEF Start, TypeOK, Starts
  <2>2. \A n \in Starts : n <= starts => run[n] = "ended"
    BY <1>1, <1>t, <2>1 DEF Start, TypeOK, Starts
  <2>3. HandleNamesLast'
    BY <1>t, <2>0, <2>1, <2>2 DEF TypeOK, Starts
  <2>4. OwnerKnows' /\ ReceivesWhileLooping'
    BY <2>1
  <2> QED BY <2>3, <2>4
<1>2. CASE CallStop \/ TriggerExit \/ SendExit
  BY <1>2, <1>t DEF CallStop, TriggerExit, SendExit
<1>3. CASE Join
  <2>1. starts \in Starts /\ run[starts] = "ended"
    BY <1>3, <1>t DEF Join, TypeOK, Starts
  <2>2. \A n \in Starts : run[n] \in {"none", "ended"}
    BY <1>t, <2>1 DEF TypeOK, Starts
  <2> QED BY <1>3, <1>t, <2>2 DEF Join
<1>4. CASE Delete
  BY <1>4, <1>t DEF Delete
<1>5. ASSUME NEW m \in Messages, Send(m)
      PROVE  HandleNamesLast' /\ OwnerKnows' /\ ReceivesWhileLooping'
  BY <1>5, <1>t DEF Send
<1>6. ASSUME NEW n \in Starts, RunThread(n)
      PROVE  HandleNamesLast' /\ OwnerKnows' /\ ReceivesWhileLooping'
  <2>1. RunAlive(n)
    BY <1>6 DEF RunThread, LoopTest, Receive, ReceiveNothing, HandleMessage, HandleTimeout
  <2>2. n = starts /\ owner \in Running
    BY <1>t, <2>1 DEF TypeOK, Starts
  <2>3. \A k \in Starts : k # n => run'[k] = run[k]
    BY <1>6, <1>t DEF RunThread, LoopTest, Receive, ReceiveNothing, HandleMessage,
                      HandleTimeout, TypeOK
  <2>4. UNCHANGED <<owner, starts, worker, handle>>
    BY <1>6 DEF RunThread, LoopTest, Receive, ReceiveNothing, HandleMessage, HandleTimeout
  <2>5. run'[n] # "none"
    BY <1>6, <1>t DEF RunThread, LoopTest, Receive, ReceiveNothing, HandleMessage,
                      HandleTimeout, TypeOK
  <2>6. HandleNamesLast' /\ OwnerKnows'
    BY <1>t, <2>2, <2>3, <2>4, <2>5 DEF TypeOK, Starts
  <2>7. \A k \in Starts : k # n => run[k] # "get"
    BY <1>t, <2>2 DEF TypeOK, Starts
  <2>8. run'[n] = "get" => loop'
    BY <1>6, <1>t DEF RunThread, LoopTest, Receive, ReceiveNothing, HandleMessage,
                      HandleTimeout, TypeOK
  <2> QED BY <2>3, <2>6, <2>7, <2>8
<1>7. ASSUME NEW n \in Starts, Worker(n)
      PROVE  HandleNamesLast' /\ OwnerKnows' /\ ReceivesWhileLooping'
  BY <1>7, <1>t DEF Worker, WorkerBlocks, WorkerReturns, WorkerEnds
<1>8. CASE UNCHANGED vars
  BY <1>8, <1>t DEF vars
<1> QED BY <1>1, <1>2, <1>3, <1>4, <1>5, <1>6, <1>7, <1>8 DEF Next, Stop

\* The inductive invariant of the base class: one thread at most, the joined one.
THEOREM ModuleInvariance == Spec => []MInv
<1>1. Init => MInv
  BY ModuleAssumption
     DEF Init, MInv, BaseInv, TypeOK, Starts, AllMessages, HandleNamesLast, OwnerKnows,
         ReceivesWhileLooping, RunAlive, Running
<1>2. MInv /\ [Next]_vars => MInv'
  BY ModuleInvStep
<1> QED BY <1>1, <1>2, PTL DEF Spec

\* A module of the base class may be deleted as soon as stop() has returned.
THEOREM StopLeavesNoThread == Spec => []BaseStoppedMeansStopped
<1>1. MInv => BaseStoppedMeansStopped
  BY DEF MInv, BaseInv, TypeOK, HandleNamesLast, OwnerKnows, Running,
         BaseStoppedMeansStopped, StoppedMeansStopped, Alive
<1> QED BY <1>1, ModuleInvariance, PTL

\* No message is handled between the exit message and the next start().
THEOREM ExitIsLast == Spec => NothingAfterExit
<1>1. MInv /\ [Next]_vars =>
        [class = "base" =>
           \A n \in Starts : run[n] = "get" /\ run'[n] = "message" => loop]_vars
  BY DEF MInv, BaseInv, ReceivesWhileLooping
<1> QED BY <1>1, ModuleInvariance, PTL DEF Spec, NothingAfterExit

-----------------------------------------------------------------------------
(* Both classes: stop() does not join in vain. *)

\* Once started, and as long as loop is set, there is a run thread to take the exit
\* message; no start comes between it and the join.
TakerLives == owner \in Running /\ loop => starts \in Starts /\ RunAlive(starts)

ExitInv == TypeOK /\ TakerLives /\ ExitUnderway

\* The exit message itself, wherever it is.
ExitQueued == \E k \in DOMAIN moduleQueue : moduleQueue[k] = Exit
ExitTaken == \E n \in Starts : run[n] = "message" /\ msg[n] = Exit

\* A message that is appended leaves an exit message where it was, or is one.
LEMMA AppendKeepsExit ==
  ASSUME NEW m \in AllMessages, moduleQueue \in Seq(AllMessages),
         moduleQueue' = Append(moduleQueue, m), ExitQueued \/ m = Exit
  PROVE  ExitQueued'
<1>1. /\ DOMAIN moduleQueue' = 1 .. Len(moduleQueue) + 1
      /\ moduleQueue'[Len(moduleQueue) + 1] = m
      /\ \A k \in DOMAIN moduleQueue :
           k \in DOMAIN moduleQueue' /\ moduleQueue'[k] = moduleQueue[k]
  OBVIOUS
<1>2. Len(moduleQueue) \in Nat
  OBVIOUS
<1> QED
  BY <1>1, <1>2 DEF ExitQueued

\* A message that is taken is the exit message, or leaves it in the queue.
LEMMA TailKeepsExit ==
  ASSUME moduleQueue \in Seq(AllMessages), moduleQueue # <<>>,
         moduleQueue' = Tail(moduleQueue), ExitQueued
  PROVE  Head(moduleQueue) = Exit \/ ExitQueued'
<1>1. PICK k \in 1 .. Len(moduleQueue) : moduleQueue[k] = Exit
  BY DEF ExitQueued
<1>2. CASE k = 1
  BY <1>1, <1>2
<1>3. CASE k # 1
  <2>1. k - 1 \in 1 .. Len(moduleQueue) - 1
    BY <1>3
  <2>2. DOMAIN moduleQueue' = 1 .. Len(moduleQueue) - 1 /\ moduleQueue'[k - 1] = moduleQueue[k]
    BY <2>1
  <2> QED
    BY <1>1, <2>1, <2>2 DEF ExitQueued
<1> QED
  BY <1>2, <1>3

LEMMA TakerLivesStep == ExitInv /\ [Next]_vars => TakerLives'
<1> SUFFICES ASSUME TypeOK, TakerLives, [Next]_vars PROVE TakerLives'
  BY DEF ExitInv
<1> USE DEF TakerLives, Running, RunAlive
<1>1. CASE Start
  <2>1. starts' = starts + 1 /\ starts < MaxStarts /\ run' = [run EXCEPT ![starts'] = "test"]
    BY <1>1 DEF Start
  <2>2. starts' \in Starts
    BY <2>1, ModuleAssumption DEF TypeOK, Starts
  <2> QED
    BY <2>1, <2>2 DEF TypeOK
<1>2. CASE Stop \/ Delete
  BY <1>2 DEF Stop, CallStop, TriggerExit, SendExit, Join, Delete
<1>3. ASSUME NEW m \in Messages, Send(m) PROVE TakerLives'
  BY <1>3 DEF Send
<1>4. ASSUME NEW n \in Starts, RunThread(n) PROVE TakerLives'
  <2>0. UNCHANGED <<owner, starts>>
    BY <1>4 DEF RunThread, LoopTest, Receive, ReceiveNothing, HandleMessage, HandleTimeout
  <2>1. loop' => loop
    BY <1>4, Zenon DEF RunThread, LoopTest, Receive, ReceiveNothing, HandleMessage,
                       HandleTimeout
  <2>2. loop => run'[n] \notin {"none", "ended"}
    BY <1>4 DEF RunThread, LoopTest, Receive, ReceiveNothing, HandleMessage, HandleTimeout,
                TypeOK
  <2>3. \A k \in Starts : k # n => run'[k] = run[k]
    BY <1>4 DEF RunThread, LoopTest, Receive, ReceiveNothing, HandleMessage, HandleTimeout,
                TypeOK
  <2> QED
    BY <2>0, <2>1, <2>2, <2>3
<1>5. ASSUME NEW n \in Starts, Worker(n) PROVE TakerLives'
  BY <1>5 DEF Worker, WorkerBlocks, WorkerReturns, WorkerEnds
<1>6. CASE UNCHANGED vars
  BY <1>6 DEF vars
<1> QED
  BY <1>1, <1>2, <1>3, <1>4, <1>5, <1>6 DEF Next

LEMMA ExitInvStep == ExitInv /\ [Next]_vars => ExitInv'
<1> SUFFICES ASSUME ExitInv, [Next]_vars, owner' = "joining", loop'
             PROVE  ExitQueued' \/ ExitTaken'
  BY ModuleTypeStep, TakerLivesStep DEF ExitInv, ExitUnderway, TakerLives, Running,
                                        ExitQueued, ExitTaken
<1>t. /\ moduleQueue \in Seq(AllMessages)
      /\ run \in [Starts -> {"none", "test", "get", "message", "timeout", "ended"}]
      /\ msg \in [Starts -> AllMessages]
  BY DEF ExitInv, TypeOK
<1>u. owner = "joining" /\ loop => ExitQueued \/ ExitTaken
  BY DEF ExitInv, ExitUnderway, ExitQueued, ExitTaken
<1>1. CASE SendExit
  BY <1>1, <1>t, AppendKeepsExit DEF SendExit, AllMessages
<1>2. CASE TriggerExit
  BY <1>2 DEF TriggerExit
<1>3. ASSUME NEW m \in Messages, Send(m) PROVE ExitQueued' \/ ExitTaken'
  BY <1>3, <1>t, <1>u, AppendKeepsExit DEF Send, AllMessages, ExitTaken
<1>4. ASSUME NEW n \in Starts, Receive(n) PROVE ExitQueued' \/ ExitTaken'
  <2>1. ExitQueued => Head(moduleQueue) = Exit \/ ExitQueued'
    BY <1>4, <1>t, TailKeepsExit DEF Receive
  <2>2. Head(moduleQueue) = Exit => run'[n] = "message" /\ msg'[n] = Exit
    BY <1>4, <1>t, ModuleAssumption DEF Receive
  <2>3. ExitTaken => ExitTaken'
    BY <1>4, <1>t DEF Receive, ExitTaken
  <2>4. run'[n] = "message" /\ msg'[n] = Exit => ExitTaken'
    BY DEF ExitTaken
  <2> QED
    BY <1>4, <1>u, <2>1, <2>2, <2>3, <2>4 DEF Receive
<1>5. ASSUME NEW n \in Starts, HandleMessage(n) PROVE ExitQueued' \/ ExitTaken'
  BY <1>5, <1>t, <1>u DEF HandleMessage, ExitQueued, ExitTaken
<1>6. ASSUME NEW n \in Starts, LoopTest(n) \/ ReceiveNothing(n) \/ HandleTimeout(n)
      PROVE  ExitQueued' \/ ExitTaken'
  BY <1>6, <1>t, <1>u DEF LoopTest, ReceiveNothing, HandleTimeout, ExitQueued, ExitTaken
<1>7. ASSUME NEW n \in Starts, Worker(n) PROVE ExitQueued' \/ ExitTaken'
  BY <1>7, <1>u DEF Worker, WorkerBlocks, WorkerReturns, WorkerEnds, ExitQueued, ExitTaken
<1>8. CASE Start \/ CallStop \/ Join \/ Delete
  BY <1>8 DEF Start, CallStop, Join, Delete
<1>9. CASE UNCHANGED vars
  BY <1>9, <1>u DEF vars, ExitQueued, ExitTaken
<1> QED
  BY <1>1, <1>2, <1>3, <1>4, <1>5, <1>6, <1>7, <1>8, <1>9 DEF Next, Stop, RunThread

\* While stop() waits for a thread, that thread has been told to end, or the exit
\* message is on its way and somebody is there to take it.
THEOREM JoinIsNotInVain == Spec => []ExitUnderway
<1>1. Init => ExitInv
  BY ModuleAssumption DEF Init, ExitInv, TypeOK, TakerLives, ExitUnderway, Starts,
                          AllMessages, Running
<1>2. ExitInv /\ [Next]_vars => ExitInv'
  BY ExitInvStep
<1>3. ExitInv => ExitUnderway
  BY DEF ExitInv
<1> QED
  BY <1>1, <1>2, <1>3, PTL DEF Spec

-----------------------------------------------------------------------------
(* The module and its queue. *)

InGet == [n \in Starts |-> IF run[n] = "get" THEN "get" ELSE "none"]

\* A thread that was not created yet is in no operation of the queue.
LaterStarts == \A n \in Starts : n > starts => run[n] = "none"

UInv == TypeOK /\ LaterStarts

LEMMA LaterStartsStep == UInv /\ [Next]_vars => LaterStarts'
<1> SUFFICES ASSUME UInv, [Next]_vars PROVE LaterStarts'
  OBVIOUS
<1>t. TypeOK /\ LaterStarts
  BY DEF UInv
<1>1. CASE Start
  BY <1>1, <1>t, ModuleAssumption DEF Start, TypeOK, LaterStarts, Starts
<1>2. ASSUME NEW n \in Starts, RunThread(n) PROVE LaterStarts'
  <2>1. run[n] # "none" /\ starts' = starts /\ \A k \in Starts : k # n => run'[k] = run[k]
    BY <1>2, <1>t DEF RunThread, LoopTest, Receive, ReceiveNothing, HandleMessage,
                      HandleTimeout, TypeOK
  <2>. QED
    BY <1>t, <2>1 DEF LaterStarts
<1>3. CASE UNCHANGED <<starts, run>>
  BY <1>3, <1>t DEF LaterStarts
<1>4. Start \/ (\E n \in Starts : RunThread(n)) \/ UNCHANGED <<starts, run>>
  BY DEF Next, vars, Stop, CallStop, TriggerExit, SendExit, Join, Delete, Send, Worker,
         WorkerBlocks, WorkerReturns, WorkerEnds
<1>. QED
  BY <1>1, <1>2, <1>3, <1>4

\* Only the run threads enter and leave get(), and each only its own.
LEMMA EntersGet ==
  ASSUME TypeOK, NEW n \in Starts, run' = [run EXCEPT ![n] = "get"]
  PROVE  InGet' = [InGet EXCEPT ![n] = "get"]
BY DEF TypeOK, InGet, Starts

LEMMA OutOfGet ==
  ASSUME TypeOK, NEW n \in Starts, NEW r, r # "get", run' = [run EXCEPT ![n] = r]
  PROVE  InGet' = [InGet EXCEPT ![n] = "none"]
BY DEF TypeOK, InGet, Starts

LEMMA QueueStep == UInv /\ [Next]_vars => [Queue!Next]_(Queue!queueVars)
<1> SUFFICES ASSUME UInv, [Next]_vars
             PROVE  Queue!Next \/ UNCHANGED <<moduleQueue, InGet>>
  BY DEF Queue!queueVars, InGet
<1>t. TypeOK /\ LaterStarts
  BY DEF UInv
<1>1. ASSUME NEW m \in AllMessages, moduleQueue' = Append(moduleQueue, m), UNCHANGED run
      PROVE  Queue!Put(m)
  BY <1>1 DEF Queue!Put
<1>2. CASE Start
  <2>1. starts' \in Starts /\ run[starts'] = "none" /\ UNCHANGED moduleQueue
    BY <1>2, <1>t, ModuleAssumption DEF Start, TypeOK, LaterStarts, Starts
  <2>2. InGet' = [InGet EXCEPT ![starts'] = "none"]
    <3>1. run' = [run EXCEPT ![starts'] = "test"]
      BY <1>2 DEF Start
    <3>. QED
      BY <1>t, <2>1, <3>1 DEF InGet, TypeOK, Starts
  <2>. QED
    BY <2>1, <2>2 DEF InGet
<1>3. ASSUME NEW n \in Starts, LoopTest(n)
      PROVE  Queue!Enter(n, "get") \/ UNCHANGED <<moduleQueue, InGet>>
  <2>1. InGet[n] = "none" /\ UNCHANGED moduleQueue
    BY <1>3 DEF LoopTest, InGet
  <2>2. CASE loop
    <3>1. InGet' = [InGet EXCEPT ![n] = "get"]
      BY <1>3, <1>t, <2>2, EntersGet DEF LoopTest
    <3>. QED
      BY <2>1, <3>1 DEF Queue!Enter, InGet
  <2>3. CASE ~loop
    <3>1. run' = [run EXCEPT ![n] = "ended"]
      BY <1>3, <2>3 DEF LoopTest
    <3>2. InGet' = [InGet EXCEPT ![n] = "none"]
      BY <1>t, <3>1, OutOfGet
    <3>. QED
      BY <2>1, <3>2 DEF InGet
  <2>. QED
    BY <2>2, <2>3
<1>4. ASSUME NEW n \in Starts, Receive(n) PROVE Queue!TakeFirst(n)
  <2>1. PICK r \in {"timeout", "message"} : run' = [run EXCEPT ![n] = r]
    BY <1>4 DEF Receive
  <2>2. InGet' = [InGet EXCEPT ![n] = "none"]
    BY <1>t, <2>1, OutOfGet
  <2>. QED
    BY <1>4, <2>2 DEF Receive, Queue!TakeFirst, InGet
<1>5. ASSUME NEW n \in Starts, ReceiveNothing(n) PROVE Queue!GiveUp(n)
  <2>1. run' = [run EXCEPT ![n] = "timeout"] /\ InGet[n] = "get"
    BY <1>5 DEF ReceiveNothing, InGet
  <2>2. InGet' = [InGet EXCEPT ![n] = "none"]
    BY <1>t, <2>1, OutOfGet
  <2>. QED
    BY <1>5, <2>1, <2>2 DEF ReceiveNothing, Queue!GiveUp, InGet
<1>6. ASSUME NEW n \in Starts, HandleMessage(n) \/ HandleTimeout(n)
      PROVE  UNCHANGED <<moduleQueue, InGet>>
  <2>1. run' = [run EXCEPT ![n] = "test"] /\ InGet[n] = "none"
    BY <1>6 DEF HandleMessage, HandleTimeout, InGet
  <2>2. InGet' = [InGet EXCEPT ![n] = "none"]
    BY <1>t, <2>1, OutOfGet
  <2>. QED
    BY <1>6, <2>1, <2>2 DEF HandleMessage, HandleTimeout, InGet
<1>7. CASE UNCHANGED <<moduleQueue, run>>
  BY <1>7 DEF InGet
<1>8. \/ Start
      \/ \E m \in AllMessages : moduleQueue' = Append(moduleQueue, m) /\ UNCHANGED run
      \/ \E n \in Starts : RunThread(n)
      \/ UNCHANGED <<moduleQueue, run>>
  BY DEF Next, vars, Stop, CallStop, TriggerExit, SendExit, Join, Delete, Send, Worker,
         WorkerBlocks, WorkerReturns, WorkerEnds, AllMessages
<1>. QED
  BY <1>1, <1>2, <1>3, <1>4, <1>5, <1>6, <1>7, <1>8 DEF RunThread, Queue!Next

\* What the module does with moduleQueue a queue with single steps allows.
THEOREM ModuleUsesQueue == Spec => UsesBlockingQueue
<1>1. Init => UInv /\ Queue!Init
  BY ModuleAssumption DEF Init, UInv, TypeOK, LaterStarts, Starts, AllMessages, Queue!Init
<1>2. UInv /\ [Next]_vars => UInv'
  BY ModuleTypeStep, LaterStartsStep DEF UInv
<1>3. UInv /\ [Next]_vars => [Queue!Next]_(Queue!queueVars)
  BY QueueStep
<1>. QED
  BY <1>1, <1>2, <1>3, PTL DEF Spec, UsesBlockingQueue, Queue!Spec
=============================================================================
