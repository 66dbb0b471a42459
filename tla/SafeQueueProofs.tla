--------------------------- MODULE SafeQueueProofs ---------------------------
(***************************************************************************)
(* SafeQueue for any number of consumers and any length of the queue: a      *)
(* wake-up is lost at most to a consumer that came back from get2(),         *)
(* dequeue() and get() never send a consumer away from an element, and to    *)
(* its callers every operation is a single step.                            *)
(***************************************************************************)
EXTENDS SafeQueue, FiniteSetTheorems, TLAPS

QInv == TypeOK /\ NoLostWakeup

\* Sets of consumers can be counted, and a part is never more than the whole.
LEMMA ConsumersCounted ==
  ASSUME NEW S \in SUBSET Consumers
  PROVE  /\ IsFiniteSet(S) /\ Cardinality(S) \in Nat
         /\ \A T \in SUBSET S : Cardinality(T) <= Cardinality(S)
<1>1. IsFiniteSet(S)
  BY QueueAssumption, FS_Subset
<1> QED BY <1>1, FS_CardinalityType, FS_Subset

\* What changes in Woken when one consumer's phase does.
LEMMA WokenFinite ==
  IsFiniteSet(Woken) /\ Cardinality(Woken) \in Nat
<1>1. IsFiniteSet(Woken)
  BY QueueAssumption, FS_Subset DEF Woken
<1> QED BY <1>1, FS_CardinalityType

\* A waiting consumer that is woken adds one to the woken ones.
LEMMA WakingAddsOne ==
  ASSUME TypeOK, NEW c \in Waiting, phase' = [phase EXCEPT ![c] = "woken"]
  PROVE  Cardinality(Woken') = Cardinality(Woken) + 1
<1>1. Woken' = Woken \cup {c} /\ c \notin Woken
  BY DEF TypeOK, Waiting, Woken
<1> QED BY <1>1, WokenFinite, FS_AddElement

\* A woken consumer that goes on takes one away.
LEMMA GoingOnTakesOne ==
  ASSUME TypeOK, NEW c \in Woken, phase' = [phase EXCEPT ![c] = "idle"]
  PROVE  Cardinality(Woken') = Cardinality(Woken) - 1
<1>1. Woken' = Woken \ {c}
  BY DEF TypeOK, Woken
<1> QED BY <1>1, WokenFinite, FS_RemoveElement

\* Taking an element, waiting and returning empty-handed keep the types.
LEMMA OutcomeTypes ==
  ASSUME TypeOK, NEW c \in Consumers, Take(c) \/ Wait(c) \/ ReturnEmpty(c)
  PROVE  /\ q' \in Seq(Values)
         /\ phase' \in [Consumers -> {"idle", "waiting", "woken"}]
<1>1. q' \in Seq(Values)
  <2>1. CASE Take(c)
    BY <2>1 DEF TypeOK, Take
  <2>2. CASE Wait(c) \/ ReturnEmpty(c)
    BY <2>2 DEF TypeOK, Wait, ReturnEmpty
  <2>. QED
    BY <2>1, <2>2
<1>2. phase' \in [Consumers -> {"idle", "waiting", "woken"}]
  BY DEF TypeOK, Take, Wait, ReturnEmpty
<1>. QED
  BY <1>1, <1>2

LEMMA TypeStep == TypeOK /\ [Next]_vars => TypeOK'
<1> SUFFICES ASSUME TypeOK, [Next]_vars PROVE TypeOK'
  OBVIOUS
<1>1. ASSUME NEW v \in Values, Enqueue(v) PROVE TypeOK'
  BY <1>1 DEF TypeOK, Enqueue, NotifyOne, Waiting
<1>2. ASSUME NEW c \in Consumers, NEW o \in Operations, Call(c, o) PROVE TypeOK'
  <2>1. op' \in [Consumers -> {"dequeue", "get", "get2"}]
    BY <1>2, QueueAssumption DEF TypeOK, Call
  <2>. QED
    BY <1>2, <2>1, OutcomeTypes DEF TypeOK, Call
<1>3. ASSUME NEW c \in Consumers, WakeUp(c) PROVE TypeOK'
  BY <1>3 DEF TypeOK, WakeUp
<1>4. ASSUME NEW c \in Consumers, Resume(c) PROVE TypeOK'
  <2>1. Take(c) \/ Wait(c) \/ ReturnEmpty(c)
    BY <1>4 DEF Resume, ResumeDequeue, ResumeGet, ResumeGet2
  <2>2. UNCHANGED op
    BY <1>4 DEF Resume
  <2>. QED
    BY <2>1, <2>2, OutcomeTypes DEF TypeOK
<1>5. CASE UNCHANGED vars
  BY <1>5 DEF TypeOK, vars
<1> QED BY <1>1, <1>2, <1>3, <1>4, <1>5 DEF Next

\* No step leaves a consumer waiting with an element nobody comes for, unless
\* a get2() that returns answers for it.
LEMMA WakeupStep == QInv /\ [Next]_vars => NoLostWakeup'
<1> SUFFICES ASSUME QInv, [Next]_vars, Waiting' # {}
             PROVE  Len(q') <= Cardinality(Woken') + Cardinality(BackFromGet2')
  BY DEF NoLostWakeup
<1> DEFINE W == Cardinality(Woken)
           G == Cardinality(BackFromGet2)
<1>t. TypeOK /\ NoLostWakeup
  BY DEF QInv
<1>n. W \in Nat /\ G \in Nat /\ Len(q) \in Nat
  BY <1>t, ConsumersCounted DEF TypeOK, Woken, BackFromGet2
<1>m. W' \in Nat /\ G' \in Nat
  <2>1. Woken' \in SUBSET Consumers /\ BackFromGet2' \in SUBSET Consumers
    BY DEF Woken, BackFromGet2
  <2> QED BY <2>1, ConsumersCounted
<1>e. ASSUME q' = <<>> PROVE Len(q') <= W' + G'
  BY <1>e, <1>m
<1>1. ASSUME NEW v \in Values, Enqueue(v) PROVE Len(q') <= W' + G'
  <2>1. Len(q') = Len(q) + 1
    BY <1>t, <1>1 DEF Enqueue, TypeOK
  <2>2. Waiting # {}
    BY <1>t, <1>1 DEF Enqueue, NotifyOne, Waiting
  <2>3. PICK c \in Waiting : phase' = [phase EXCEPT ![c] = "woken"]
    BY <1>t, <1>1, <2>2 DEF Enqueue, NotifyOne
  <2>4. W' = W + 1
    BY <1>t, <2>3, WakingAddsOne
  <2>5. BackFromGet2' = BackFromGet2
    BY <1>t, <1>1, <2>3 DEF Enqueue, BackFromGet2, Waiting, TypeOK
  <2> QED BY <1>t, <1>n, <2>1, <2>2, <2>4, <2>5 DEF NoLostWakeup
<1>2. ASSUME NEW c \in Consumers, NEW o \in Operations, Call(c, o)
      PROVE  Len(q') <= W' + G'
  <2>1. Woken' = Woken
    BY <1>t, <1>2 DEF Call, Take, Wait, Woken, TypeOK
  <2>2. CASE Take(c)
    <3>1. Len(q') = Len(q) - 1
      BY <1>t, <2>2 DEF Take, TypeOK
    <3>2. Waiting # {}
      BY <1>t, <2>2 DEF Take, Waiting, TypeOK
    <3>3. G - 1 <= G'
      <4>1. BackFromGet2 \ {c} \in SUBSET BackFromGet2'
        BY <1>t, <1>2, <2>2 DEF Call, Take, BackFromGet2, TypeOK
      <4>2. BackFromGet2' \in SUBSET Consumers /\ BackFromGet2 \in SUBSET Consumers
        BY DEF BackFromGet2
      <4>3. Cardinality(BackFromGet2 \ {c}) <= G'
        BY <4>1, <4>2, ConsumersCounted
      <4>4. Cardinality(BackFromGet2 \ {c}) \in {G, G - 1}
        <5>1. IsFiniteSet(BackFromGet2)
          BY <4>2, ConsumersCounted
        <5> QED BY <5>1, FS_RemoveElement
      <4> QED BY <1>n, <1>m, <4>3, <4>4
    <3> QED BY <1>t, <1>n, <1>m, <2>1, <3>1, <3>2, <3>3 DEF NoLostWakeup
  <2>3. CASE q = <<>> /\ Wait(c)
    BY <1>e, <2>3 DEF Wait
  <2> QED BY <1>2, <2>2, <2>3 DEF Call
<1>3. ASSUME NEW c \in Consumers, WakeUp(c) PROVE Len(q') <= W' + G'
  <2>1. c \in Waiting
    BY <1>3 DEF WakeUp, Waiting
  <2>2. W' = W + 1
    BY <1>t, <1>3, <2>1, WakingAddsOne DEF WakeUp
  <2>3. BackFromGet2' = BackFromGet2 /\ q' = q
    BY <1>t, <1>3 DEF WakeUp, BackFromGet2, TypeOK
  <2> QED BY <1>t, <1>n, <2>1, <2>2, <2>3 DEF NoLostWakeup
<1>4. ASSUME NEW c \in Consumers, Resume(c) PROVE Len(q') <= W' + G'
  <2>1. c \in Woken /\ op' = op
    BY <1>4 DEF Resume, Woken
  <2>2. \/ Take(c)
        \/ q = <<>> /\ q' = q
        \/ op[c] = "get2" /\ ReturnEmpty(c)
    BY <1>4 DEF Resume, ResumeDequeue, ResumeGet, ResumeGet2, Wait, ReturnEmpty
  <2>3. CASE Take(c)
    <3>1. W' = W - 1
      BY <1>t, <2>1, <2>3, GoingOnTakesOne DEF Take
    <3>2. Len(q') = Len(q) - 1
      BY <1>t, <2>3 DEF Take, TypeOK
    <3>3. Waiting # {}
      BY <1>t, <2>3 DEF Take, Waiting, TypeOK
    <3>4. G <= G'
      <4>1. BackFromGet2 \in SUBSET BackFromGet2'
        BY <1>t, <2>1, <2>3 DEF Take, BackFromGet2, Woken, TypeOK
      <4>2. BackFromGet2' \in SUBSET Consumers
        BY DEF BackFromGet2
      <4> QED BY <4>1, <4>2, ConsumersCounted
    <3> QED BY <1>t, <1>n, <1>m, <3>1, <3>2, <3>3, <3>4 DEF NoLostWakeup
  <2>4. CASE q = <<>> /\ q' = q
    BY <1>e, <2>4
  <2>5. CASE op[c] = "get2" /\ ReturnEmpty(c)
    <3>1. W' = W - 1
      BY <1>t, <2>1, <2>5, GoingOnTakesOne DEF ReturnEmpty
    <3>2. q' = q /\ Waiting # {}
      BY <1>t, <2>5 DEF ReturnEmpty, Waiting, TypeOK
    <3>3. G' = G + 1
      <4>1. BackFromGet2' = BackFromGet2 \cup {c} /\ c \notin BackFromGet2
        BY <1>t, <2>1, <2>5 DEF ReturnEmpty, BackFromGet2, Woken, TypeOK
      <4>2. IsFiniteSet(BackFromGet2)
        BY ConsumersCounted DEF BackFromGet2
      <4> QED BY <4>1, <4>2, FS_AddElement
    <3> QED BY <1>t, <1>n, <1>m, <3>1, <3>2, <3>3 DEF NoLostWakeup
  <2> QED BY <2>2, <2>3, <2>4, <2>5
<1>5. CASE UNCHANGED vars
  BY <1>t, <1>5 DEF vars, Woken, Waiting, BackFromGet2, NoLostWakeup
<1> QED BY <1>1, <1>2, <1>3, <1>4, <1>5 DEF Next

\* The inductive invariant of the queue.
THEOREM QueueInvariance == Spec => []QInv
<1>1. Init => QInv
  BY DEF Init, QInv, TypeOK, NoLostWakeup, Waiting
<1>2. QInv /\ [Next]_vars => QInv'
  BY TypeStep, WakeupStep DEF QInv
<1> QED BY <1>1, <1>2, PTL DEF Spec

\* While a consumer waits, every element has a woken consumer on its way, save
\* one for every consumer back from get2().
THEOREM WakeupsReachTheirElements == Spec => []NoLostWakeup
BY QueueInvariance, PTL DEF QInv

\* Where nobody calls get2(), as in the modules of this repository, no consumer
\* waits over an element.
THEOREM NobodySleepsOverElement ==
  ASSUME Operations \subseteq {"dequeue", "get"}
  PROVE  Spec => []NoSleepOverElement
<1> DEFINE NoGet2 == \A c \in Consumers : op[c] # "get2"
<1>1. Init => NoGet2
  BY DEF Init
<1>2. QInv /\ NoGet2 /\ [Next]_vars => NoGet2'
  BY DEF QInv, TypeOK, Next, vars, Enqueue, Call, WakeUp, Resume
<1>3. QInv /\ NoGet2 => NoSleepOverElement
  <2> SUFFICES ASSUME QInv, NoGet2 PROVE NoSleepOverElement
    OBVIOUS
  <2>1. Cardinality(BackFromGet2) = 0
    BY FS_EmptySet DEF BackFromGet2
  <2>2. Cardinality(Woken) \in Nat
    BY WokenFinite
  <2> QED BY <2>1, <2>2 DEF QInv, NoLostWakeup, NoSleepOverElement
<1> QED BY <1>1, <1>2, <1>3, QueueInvariance, PTL DEF Spec

\* dequeue() and get() come back empty-handed only from an empty queue.
THEOREM NobodyTurnedAway == Spec => EmptyHandedOnlyIfEmpty
<1>1. QInv /\ [Next]_vars =>
        [\A c \in Consumers :
            phase[c] # "idle" /\ phase'[c] = "idle" /\ op[c] # "get2" /\ q' = q
              => q = <<>>]_vars
  <2> SUFFICES ASSUME QInv, Next, NEW c \in Consumers,
                      phase[c] # "idle", phase'[c] = "idle", op[c] # "get2", q' = q
               PROVE  q = <<>>
    OBVIOUS
  <2>t. TypeOK
    BY DEF QInv
  <2>1. ASSUME NEW v \in Values, Enqueue(v) PROVE FALSE
    <3>1. Len(q') = Len(q) + 1
      BY <2>t, <2>1 DEF Enqueue, TypeOK
    <3> QED BY <2>t, <3>1 DEF TypeOK
  <2>2. ASSUME NEW d \in Consumers, NEW o \in Operations, Call(d, o) PROVE FALSE
    <3>1. d # c
      BY <2>t, <2>2 DEF Call
    <3> QED BY <2>t, <2>2, <3>1 DEF Call, Take, Wait, TypeOK
  <2>3. ASSUME NEW d \in Consumers, WakeUp(d) PROVE FALSE
    BY <2>t, <2>3 DEF WakeUp, TypeOK
  <2>4. ASSUME NEW d \in Consumers, Resume(d) PROVE q = <<>>
    <3>1. ASSUME Take(d) PROVE FALSE
      <4>1. Len(q') = Len(q) - 1
        BY <2>t, <3>1 DEF Take, TypeOK
      <4> QED BY <4>1 DEF TypeOK
    <3>2. phase'[d] = "idle" => q = <<>> \/ op[d] = "get2"
      BY <2>t, <2>4, <3>1 DEF Resume, ResumeDequeue, ResumeGet, ResumeGet2, Wait, TypeOK
    <3>3. d = c
      BY <2>t, <2>4, <3>1 DEF Resume, ResumeDequeue, ResumeGet, ResumeGet2, Wait,
                              ReturnEmpty, TypeOK
    <3> QED BY <3>2, <3>3
  <2> QED BY <2>1, <2>2, <2>3, <2>4 DEF Next
<1> QED BY <1>1, QueueInvariance, PTL DEF Spec, EmptyHandedOnlyIfEmpty

\* All consumers are never asleep over an element: nobody has come back from get2()
\* then, so NoLostWakeup has no exception.
THEOREM SomebodyIsAwake == Spec => []NotAllAsleep
<1>1. QInv => NotAllAsleep
  <2>1. SUFFICES ASSUME QInv, Consumers # {}, Waiting = Consumers
                 PROVE  q = <<>>
    BY DEF NotAllAsleep
  <2>2. Woken = {} /\ BackFromGet2 = {}
    BY <2>1 DEF Waiting, Woken, BackFromGet2
  <2>3. Cardinality(Woken) = 0 /\ Cardinality(BackFromGet2) = 0
    BY <2>2, FS_EmptySet
  <2>4. Len(q) <= 0
    BY <2>1, <2>3 DEF QInv, NoLostWakeup
  <2>. QED
    BY <2>1, <2>4 DEF QInv, TypeOK
<1>. QED
  BY <1>1, QueueInvariance, PTL

-----------------------------------------------------------------------------
(* The queue is a BlockingQueue. *)

Inside == [c \in Consumers |-> IF phase[c] = "idle" THEN "none" ELSE op[c]]

\* A consumer that changes where it is changes nobody else's operation.
LEMMA InsideChanges ==
  ASSUME TypeOK, NEW c \in Consumers, NEW f,
         phase' = [phase EXCEPT ![c] = f],
         op' = op \/ \E o \in Operations : op' = [op EXCEPT ![c] = o]
  PROVE  Inside' = [Inside EXCEPT ![c] = IF f = "idle" THEN "none" ELSE op'[c]]
BY DEF TypeOK, Inside

\* Waiting on, and being woken, are no steps of a BlockingQueue.
LEMMA StayingIsNoStep ==
  ASSUME TypeOK, NEW c \in Consumers, phase[c] # "idle", op' = op,
         \/ phase' = [phase EXCEPT ![c] = "waiting"]
         \/ phase' = [phase EXCEPT ![c] = "woken"]
  PROVE  Inside' = Inside
BY DEF TypeOK, Inside

LEMMA BlockingStep == TypeOK /\ [Next]_vars => [Blocking!Next]_(Blocking!queueVars)
<1> SUFFICES ASSUME TypeOK, [Next]_vars
             PROVE  Blocking!Next \/ UNCHANGED <<q, Inside>>
  BY DEF Blocking!queueVars, Inside
<1>1. ASSUME NEW v \in Values, Enqueue(v) PROVE Blocking!Put(v)
  <2>1. Inside' = Inside
    BY <1>1 DEF Enqueue, NotifyOne, Waiting, Inside, TypeOK
  <2>. QED
    BY <1>1, <2>1 DEF Enqueue, Blocking!Put, Inside
<1>2. ASSUME NEW c \in Consumers, NEW o \in Operations, Call(c, o)
      PROVE  Blocking!TakeFirst(c) \/ Blocking!Enter(c, o)
  <2>1. phase[c] = "idle" /\ Inside[c] = "none" /\ op'[c] = o
    BY <1>2 DEF Call, Inside, TypeOK
  <2>2. CASE Take(c)
    <3>1. Inside' = [Inside EXCEPT ![c] = "none"]
      BY <1>2, <2>2, InsideChanges DEF Call, Take
    <3>. QED
      BY <2>2, <3>1 DEF Take, Blocking!TakeFirst, Inside
  <2>3. CASE q = <<>> /\ Wait(c)
    <3>1. Inside' = [Inside EXCEPT ![c] = IF "waiting" = "idle" THEN "none" ELSE op'[c]]
      <4>1. phase' = [phase EXCEPT ![c] = "waiting"]
        BY <2>3 DEF Wait
      <4>2. \E p \in Operations : op' = [op EXCEPT ![c] = p]
        BY <1>2 DEF Call
      <4>. QED
        BY <4>1, <4>2, InsideChanges
    <3>2. Inside' = [Inside EXCEPT ![c] = o]
      BY <2>1, <3>1
    <3>. QED
      BY <2>1, <2>3, <3>2 DEF Wait, Blocking!Enter, Inside
  <2>. QED
    BY <1>2, <2>2, <2>3 DEF Call
<1>3. ASSUME NEW c \in Consumers, WakeUp(c) PROVE UNCHANGED <<q, Inside>>
  BY <1>3, StayingIsNoStep DEF WakeUp
<1>4. ASSUME NEW c \in Consumers, Resume(c)
      PROVE  Blocking!TakeFirst(c) \/ Blocking!GiveUp(c) \/ UNCHANGED <<q, Inside>>
  <2>1. phase[c] = "woken" /\ op' = op /\ Inside[c] = op[c]
    BY <1>4 DEF Resume, Inside
  <2>2. CASE Take(c)
    <3>1. Inside' = [Inside EXCEPT ![c] = "none"]
      BY <2>1, <2>2, InsideChanges DEF Take
    <3>. QED
      BY <2>2, <3>1 DEF Take, Blocking!TakeFirst, Inside
  <2>3. CASE Wait(c)
    BY <2>1, <2>3, StayingIsNoStep DEF Wait
  <2>4. CASE ReturnEmpty(c) /\ ~Take(c) /\ ~Wait(c)
    <3>1. Inside' = [Inside EXCEPT ![c] = "none"] /\ UNCHANGED q
      BY <2>1, <2>4, InsideChanges DEF ReturnEmpty
    <3>2. op[c] = "get2" \/ (op[c] = "get" /\ q = <<>>)
      BY <1>4, <2>4 DEF Resume, ResumeDequeue, ResumeGet, ResumeGet2
    <3>. QED
      BY <2>1, <3>1, <3>2 DEF Blocking!GiveUp, Inside
  <2>. QED
    BY <1>4, <2>2, <2>3, <2>4 DEF Resume, ResumeDequeue, ResumeGet, ResumeGet2
<1>5. CASE UNCHANGED vars
  BY <1>5 DEF vars, Inside
<1>. QED
  BY <1>1, <1>2, <1>3, <1>4, <1>5 DEF Next, Blocking!Next

\* Every behaviour of the queue under its mutex, with its waits and wake-ups, is one
\* of the queue with single steps.
THEOREM QueueIsBlocking == Spec => ImplementsBlockingQueue
<1>1. Init => Blocking!Init
  BY DEF Init, Blocking!Init
<1>2. QInv /\ [Next]_vars => [Blocking!Next]_(Blocking!queueVars)
  BY BlockingStep DEF QInv
<1>. QED
  BY <1>1, <1>2, QueueInvariance, PTL DEF Spec, ImplementsBlockingQueue, Blocking!Spec
=============================================================================
