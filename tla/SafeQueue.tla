------------------------------ MODULE SafeQueue ------------------------------
(***************************************************************************)
(* SafeQueue<T>, the queue every module receives its messages through: a   *)
(* std::queue under a mutex, and a condition variable on which consumers    *)
(* wait for elements.  Each operation holds the mutex except while it       *)
(* waits, so a step below is one stretch under the mutex: from the call, or *)
(* from the end of a wait, to the return or to the next wait.               *)
(***************************************************************************)
EXTENDS Integers, Sequences, FiniteSets

CONSTANTS
  Consumers,   \* the threads that take elements
  Values,      \* the elements
  Operations,  \* those of "dequeue", "get" and "get2" the consumers call
  MaxLength    \* bound of the model: enqueue() is not called on a longer queue

ASSUME QueueAssumption ==
  /\ IsFiniteSet(Consumers)
  /\ Operations \subseteq {"dequeue", "get", "get2"}
  /\ MaxLength \in Nat

VARIABLES
  q,      \* the elements
  phase,  \* per consumer: "idle", "waiting" on the condition variable, or
          \* "woken", which has left it and waits for the mutex
  op      \* the operation the consumer is in, or called last

vars == <<q, phase, op>>

Waiting == {c \in Consumers : phase[c] = "waiting"}
Woken   == {c \in Consumers : phase[c] = "woken"}

TypeOK ==
  /\ q \in Seq(Values)
  /\ phase \in [Consumers -> {"idle", "waiting", "woken"}]
  /\ op \in [Consumers -> {"dequeue", "get", "get2"}]

Init ==
  /\ q = <<>>
  /\ phase = [c \in Consumers |-> "idle"]
  /\ op = [c \in Consumers |-> "get"]

-----------------------------------------------------------------------------
\* notify_one() ends the wait of one consumer, if any consumer waits.
NotifyOne ==
  IF Waiting = {} THEN UNCHANGED phase
  ELSE \E c \in Waiting : phase' = [phase EXCEPT ![c] = "woken"]

\* Mistake: notify only when the queue was empty.
EnqueueNotifiesWhenEmpty(v) ==
  /\ Len(q) < MaxLength
  /\ q' = Append(q, v)
  /\ IF q = <<>> THEN NotifyOne ELSE UNCHANGED phase
  /\ UNCHANGED op

\* Mistake: no notify_one().
EnqueueSilently(v) ==
  /\ Len(q) < MaxLength
  /\ q' = Append(q, v)
  /\ UNCHANGED <<phase, op>>

Enqueue(v) ==
  /\ Len(q) < MaxLength
  /\ q' = Append(q, v)
  /\ NotifyOne
  /\ UNCHANGED op

\* front() and pop(), and the operation returns.
Take(c) ==
  /\ q # <<>>
  /\ q' = Tail(q)
  /\ phase' = [phase EXCEPT ![c] = "idle"]

\* The operation waits on the condition variable (again).
Wait(c) ==
  /\ phase' = [phase EXCEPT ![c] = "waiting"]
  /\ UNCHANGED q

\* The operation returns std::string().
ReturnEmpty(c) ==
  /\ phase' = [phase EXCEPT ![c] = "idle"]
  /\ UNCHANGED q

\* All three start alike: take what is there, else wait.
Call(c, o) ==
  /\ phase[c] = "idle"
  /\ op' = [op EXCEPT ![c] = o]
  /\ Take(c) \/ (q = <<>> /\ Wait(c))

\* A wait ends without notify_one(): its time is up, or it ends spuriously.
WakeUp(c) ==
  /\ phase[c] = "waiting"
  /\ phase' = [phase EXCEPT ![c] = "woken"]
  /\ UNCHANGED <<q, op>>

\* Mistake: "if" for dequeue()'s "while": one wait, then what front() is of nothing.
ResumeDequeueOnce(c) ==
  /\ op[c] = "dequeue"
  /\ Take(c) \/ (q = <<>> /\ ReturnEmpty(c))

\* dequeue() looks at the queue again and knows no deadline.
ResumeDequeue(c) ==
  /\ op[c] = "dequeue"
  /\ Take(c) \/ (q = <<>> /\ Wait(c))

\* Mistake: wait_for() without the predicate.
ResumeGetBlind(c) ==
  /\ op[c] = "get"
  /\ Take(c) \/ (q = <<>> /\ Wait(c)) \/ ReturnEmpty(c)

\* get() evaluates the predicate of wait_for() whatever ended the wait, and
\* returns empty-handed when its deadline has passed and nothing is there.
ResumeGet(c) ==
  /\ op[c] = "get"
  /\ Take(c) \/ (q = <<>> /\ (Wait(c) \/ ReturnEmpty(c)))

\* get2() trusts wait_for()'s cv_status.  The library computes it from the
\* clock after the mutex is taken again, so it may be timeout although the
\* consumer was notified, and get2() then does not look at the queue.
ResumeGet2(c) ==
  /\ op[c] = "get2"
  /\ Take(c) \/ (q = <<>> /\ Wait(c)) \/ ReturnEmpty(c)

Resume(c) ==
  /\ phase[c] = "woken"
  /\ ResumeDequeue(c) \/ ResumeGet(c) \/ ResumeGet2(c)
  /\ UNCHANGED op

Next ==
  \/ \E v \in Values : Enqueue(v)
  \/ \E c \in Consumers : \/ \E o \in Operations : Call(c, o)
                          \/ WakeUp(c)
                          \/ Resume(c)

Spec == Init /\ [][Next]_vars

\* A thread that has left the condition variable gets the mutex and goes on.
\* No timeout and no spurious wake-up is assumed ever to happen.
FairSpec == Spec /\ \A c \in Consumers : SF_vars(Resume(c))

-----------------------------------------------------------------------------
\* The consumers whose last operation was a get2() that has returned.
BackFromGet2 == {c \in Consumers : phase[c] = "idle" /\ op[c] = "get2"}

\* No wake-up is lost but by get2(): when a consumer waits, every element of the
\* queue has a woken consumer on its way to it, save one for every consumer that
\* came back from get2() and has not called again.
NoLostWakeup ==
  Waiting # {} => Len(q) <= Cardinality(Woken) + Cardinality(BackFromGet2)

\* No consumer waits while an element is there that nobody comes for: "If the
\* queue is empty, wait till a element is avaiable".
NoSleepOverElement == Waiting # {} => Len(q) <= Cardinality(Woken)

\* dequeue() and get() return without an element only when there is none: their
\* caller takes the empty string for "nothing arrived".
EmptyHandedOnlyIfEmpty ==
  [][\A c \in Consumers :
        phase[c] # "idle" /\ phase'[c] = "idle" /\ op[c] # "get2" /\ q' = q
          => q = <<>>]_vars

\* The consumers never all sleep over an element, get2() or not: what
\* SomebodyIsServed needs beside fairness.
NotAllAsleep == Consumers # {} /\ Waiting = Consumers => q = <<>>

\* Consumers do not all wait for ever while an element is there, whatever
\* operations they are in.
SomebodyIsServed ==
  (q # <<>> /\ \A c \in Consumers : phase[c] # "idle")
    ~> \E c \in Consumers : phase[c] = "idle"

\* To its callers the queue is one whose operations have their effect in single
\* steps, as get() has in ThreadedModule: waits, notifications and timeouts show in
\* nothing but when that step comes.
Blocking == INSTANCE BlockingQueue WITH
  queue   <- q,
  inside  <- [c \in Consumers |-> IF phase[c] = "idle" THEN "none" ELSE op[c]],
  Patient <- {"dequeue"},
  Hasty   <- {"get2"}

ImplementsBlockingQueue == Blocking!Spec
=============================================================================
