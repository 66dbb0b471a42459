----------------------- MODULE SupervisorShutdownProofs -----------------------
(***************************************************************************)
(* Proofs about SupervisorShutdown, for any number of processes, partners    *)
(* and signals: its variables keep their types, and no partner is left when  *)
(* stop() has returned.  The latter needs the order of stop(): it waits for   *)
(* the children only when the thread that forks them has ended.  And while it *)
(* waits, the partners do not wait for each other in a circle, although each  *)
(* may hold open what another waits to see closed: a partner holds copies     *)
(* only of what older ones use.                                              *)
(***************************************************************************)
EXTENDS SupervisorShutdown, WellFoundedInduction, TLAPS

\* Once the wait for the children has begun, nobody forks any more.
CheckerJoined == main \in {"wait", "done"} => checkerPc = "done"

IInv == TypeOK /\ CheckerJoined /\ NoPartnerLeft

-----------------------------------------------------------------------------
\* A process that runs has the fields of a partner.
LEMMA RunningIsPartner ==
  ASSUME TypeOK, NEW p \in Running
  PROVE  p \in Pids /\ partner[p] \in Partners
BY DEF TypeOK, Running, Unused, Zombie

\* A step that replaces one running partner keeps the type of all.
LEMMA ChangeOne ==
  ASSUME TypeOK, NEW p \in Pids, NEW r \in Partners \cup {Unused, Zombie},
         partner' = [partner EXCEPT ![p] = r]
  PROVE  partner' \in [Pids -> Partners \cup {Unused, Zombie}]
BY DEF TypeOK

\* So do the steps of a partner, of its connection and of its end.
LEMMA PartnerSteps ==
  ASSUME TypeOK, NEW p \in Pids,
         \/ CloseConnection(p) \/ Accept(p) \/ Echo(p) \/ Client(p) \/ StopClient(p)
         \/ Outside(p) \/ Die(p)
  PROVE  /\ p \in Running
         /\ partner' \in [Pids -> Partners \cup {Unused, Zombie}]
         /\ UNCHANGED <<mainVars, loop, serverPc, checkerVars>>
<1>1. Zombie \in Partners \cup {Unused, Zombie}
  OBVIOUS
<1>2. CASE CloseConnection(p)
  <2>1. p \in Running
    BY <1>2 DEF CloseConnection, ConnectedBy
  <2>2. [partner[p] EXCEPT !.conn = "left"] \in Partners
    BY <2>1, RunningIsPartner DEF Partners
  <2>3. partner' = [partner EXCEPT ![p] = [partner[p] EXCEPT !.conn = "left"]]
    BY <1>2 DEF CloseConnection
  <2>. QED
    BY <1>2, <2>1, <2>2, <2>3, ChangeOne DEF CloseConnection
<1>3. CASE Accept(p)
  <2>. DEFINE c == IF main \in {"test", "pausing", "paused", "closing"} THEN "listed" ELSE "late"
  <2>1. p \in Running
    BY <1>3 DEF Accept, ConnectedBy
  <2>2. [partner[p] EXCEPT !.conn = c] \in Partners
    BY <2>1, RunningIsPartner DEF Partners
  <2>3. partner' = [partner EXCEPT ![p] = [partner[p] EXCEPT !.conn = c]]
    BY <1>3 DEF Accept
  <2>. QED
    BY <1>3, <2>1, <2>2, <2>3, ChangeOne DEF Accept
<1>4. CASE Echo(p)
  <2>1. p \in Running
    BY <1>4 DEF Echo, ConnectedBy
  <2>2. [partner[p] EXCEPT !.unanswered = FALSE] \in Partners
    BY <2>1, RunningIsPartner DEF Partners
  <2>3. partner' = [partner EXCEPT ![p] = [partner[p] EXCEPT !.unanswered = FALSE]]
    BY <1>4 DEF Echo
  <2>. QED
    BY <1>4, <2>1, <2>2, <2>3, ChangeOne DEF Echo
<1>5. CASE Connect(p)
  <2>. DEFINE r == [partner[p] EXCEPT !.conn = "backlog", !.client = "send"]
  <2>1. p \in Running
    BY <1>5 DEF Connect
  <2>2. r \in Partners
    BY <2>1, RunningIsPartner DEF Partners
  <2>3. partner' = [partner EXCEPT ![p] = r]
    BY <1>5 DEF Connect
  <2>. QED
    BY <1>5, <2>1, <2>2, <2>3, ChangeOne DEF Connect
<1>6. CASE Send(p)
  <2>. DEFINE r == IF Closed(p) /\ partner[p].unanswered THEN Zombie
                   ELSE [partner[p] EXCEPT !.unanswered = TRUE, !.client = "recv"]
  <2>1. p \in Running
    BY <1>6 DEF Send
  <2>2. r \in Partners \cup {Unused, Zombie}
    BY <2>1, RunningIsPartner DEF Partners
  <2>3. partner' = [partner EXCEPT ![p] = r]
    BY <1>6 DEF Send
  <2>. QED
    BY <1>6, <2>1, <2>2, <2>3, ChangeOne DEF Send
<1>7. CASE Recv(p)
  <2>1. p \in Running
    BY <1>7 DEF Recv
  <2>2. [partner[p] EXCEPT !.client = "sleep"] \in Partners
    BY <2>1, RunningIsPartner DEF Partners
  <2>3. partner' = [partner EXCEPT ![p] = [partner[p] EXCEPT !.client = "sleep"]]
    BY <1>7 DEF Recv
  <2>. QED
    BY <1>7, <2>1, <2>2, <2>3, ChangeOne DEF Recv
<1>8. CASE TestLoop(p)
  <2>. DEFINE r == IF partner[p].told = "exit" THEN Zombie
                   ELSE [partner[p] EXCEPT !.client = "send"]
  <2>1. p \in Running
    BY <1>8 DEF TestLoop, NextRound
  <2>2. r \in Partners \cup {Unused, Zombie}
    BY <2>1, RunningIsPartner DEF Partners
  <2>3. partner' = [partner EXCEPT ![p] = r]
    BY <1>8 DEF TestLoop, NextRound
  <2>. QED
    BY <1>8, <2>1, <2>2, <2>3, ChangeOne DEF TestLoop, NextRound
<1>9. CASE GiveUp(p) \/ Die(p)
  BY <1>1, <1>9, ChangeOne DEF GiveUp, Die
<1>10. CASE StopClient(p)
  <2>1. p \in Running
    BY <1>10 DEF StopClient
  <2>2. [partner[p] EXCEPT !.told = "exit"] \in Partners
    BY <2>1, RunningIsPartner DEF Partners
  <2>3. partner' = [partner EXCEPT ![p] = [partner[p] EXCEPT !.told = "exit"]]
    BY <1>10 DEF StopClient
  <2>. QED
    BY <1>10, <2>1, <2>2, <2>3, ChangeOne DEF StopClient
<1>11. CASE ConnectElsewhere(p)
  <2>. DEFINE r == [partner[p] EXCEPT !.conn = "foreign", !.client = "send"]
  <2>1. p \in Running
    BY <1>11 DEF ConnectElsewhere
  <2>2. r \in Partners
    BY <2>1, RunningIsPartner DEF Partners
  <2>3. partner' = [partner EXCEPT ![p] = r]
    BY <1>11 DEF ConnectElsewhere
  <2>. QED
    BY <1>11, <2>1, <2>2, <2>3, ChangeOne DEF ConnectElsewhere
<1>12. CASE StrangerReacts(p)
  <2>1. p \in Running
    BY <1>12 DEF StrangerReacts, ConnectedBy
  <2>2. [partner[p] EXCEPT !.unanswered = FALSE] \in Partners
    BY <2>1, RunningIsPartner DEF Partners
  <2>3. [partner[p] EXCEPT !.conn = "left"] \in Partners
    BY <2>1, RunningIsPartner DEF Partners
  <2>4. \/ partner' = [partner EXCEPT ![p] = [partner[p] EXCEPT !.unanswered = FALSE]]
        \/ partner' = [partner EXCEPT ![p] = [partner[p] EXCEPT !.conn = "left"]]
    BY <1>12 DEF StrangerReacts
  <2>5. partner' \in [Pids -> Partners \cup {Unused, Zombie}]
    BY <2>2, <2>3, <2>4, ChangeOne
  <2>. QED
    BY <1>12, <2>1, <2>5 DEF StrangerReacts
<1>13. CASE NoSocket(p)
  <2>1. p \in Running
    BY <1>13 DEF NoSocket
  <2>2. [partner[p] EXCEPT !.client = "nosocket"] \in Partners
    BY <2>1, RunningIsPartner DEF Partners
  <2>3. partner' = [partner EXCEPT ![p] = [partner[p] EXCEPT !.client = "nosocket"]]
    BY <1>13 DEF NoSocket
  <2>. QED
    BY <1>13, <2>1, <2>2, <2>3, ChangeOne DEF NoSocket
<1>. QED
  BY <1>2, <1>3, <1>4, <1>5, <1>6, <1>7, <1>8, <1>9, <1>10, <1>11, <1>12, <1>13
  DEF Client, Outside

\* A signal kills and informs partners that run, and touches no other.
LEMMA InterruptStep ==
  ASSUME TypeOK, NEW group \in {{}, Running}, Interrupt(group)
  PROVE  /\ partner' \in [Pids -> Partners \cup {Unused, Zombie}]
         /\ Running = {} => Running' = {}
         /\ signals' \in 0 .. MaxSignals
<1>1. PICK killed \in SUBSET group, informed \in SUBSET group :
        partner' = [p \in Pids |->
          IF p \in killed THEN Zombie
          ELSE IF p \in informed /\ partner[p].told = "no" THEN [partner[p] EXCEPT !.told = "told"]
          ELSE partner[p]]
  BY DEF Interrupt
<1>2. killed \subseteq Running /\ informed \subseteq Running
  OBVIOUS
<1>3. \A p \in informed : [partner[p] EXCEPT !.told = "told"] \in Partners
  BY <1>2, RunningIsPartner DEF Partners
<1>4. partner' \in [Pids -> Partners \cup {Unused, Zombie}]
  BY <1>1, <1>3 DEF TypeOK
<1>5. Running = {} => Running' = {}
  BY <1>1, <1>2 DEF Running
<1>6. signals' \in 0 .. MaxSignals
  BY ShutdownAssumption DEF Interrupt, TypeOK
<1>. QED
  BY <1>4, <1>5, <1>6

\* A deployment kills all partners; a fork starts one, which holds copies of
\* connections of others.
LEMMA DeploySteps ==
  ASSUME TypeOK, Deploy \/ StartPartner
  PROVE  /\ partner' \in [Pids -> Partners \cup {Unused, Zombie}]
         /\ toStart' \in 0 .. NumPartners
         /\ checkerPc \in {"scan", "fork"} /\ checkerPc' = "fork"
         /\ deployed' \in BOOLEAN
         /\ UNCHANGED <<mainVars, loop, serverPc>>
<1>1. CASE Deploy
  BY <1>1, ShutdownAssumption DEF Deploy, TypeOK
<1>2. CASE StartPartner
  <2>1. toStart' \in 0 .. NumPartners
    BY <1>2, ShutdownAssumption DEF StartPartner, TypeOK
  <2>. DEFINE new == [proc |-> "running", told |-> "no", client |-> "connect",
                      conn |-> "none", unanswered |-> FALSE,
                      copies |-> ConnectedBy({"listed", "late"})]
  <2>2. new \in Partners
    BY DEF Partners, ConnectedBy, Running
  <2>3. (\E p \in Pids : partner' = [partner EXCEPT ![p] = new]) \/ partner' = partner
    BY <1>2 DEF StartPartner
  <2>4. partner' \in [Pids -> Partners \cup {Unused, Zombie}]
    BY <2>2, <2>3, ChangeOne DEF TypeOK
  <2>. QED
    BY <1>2, <2>1, <2>4 DEF StartPartner, TypeOK
<1>. QED
  BY <1>1, <1>2

-----------------------------------------------------------------------------
LEMMA InitInvariant == Init => IInv
<1>. SUFFICES ASSUME Init PROVE IInv
  OBVIOUS
<1>1. partner \in [Pids -> Partners \cup {Unused, Zombie}]
  BY DEF Init
<1>2. TypeOK
  <2>1. 0 \in 0 .. MaxSignals /\ 0 \in 0 .. NumPartners
    BY ShutdownAssumption
  <2>. QED
    BY <1>1, <2>1, Zenon DEF Init, TypeOK
<1>3. CheckerJoined /\ NoPartnerLeft
  BY DEF Init, CheckerJoined, NoPartnerLeft
<1>. QED
  BY <1>2, <1>3 DEF IInv

LEMMA NextInvariant == IInv /\ [Next]_vars => IInv'
<1>. SUFFICES ASSUME IInv, [Next]_vars PROVE IInv'
  OBVIOUS
<1>. USE DEF IInv, mainVars, checkerVars
<1>1. CASE Main /\ UNCHANGED <<signals, loop, serverPc, checkerVars, partner>>
           /\ ~ \E p \in Pids : CloseConnection(p)
  <2>1. main' \in {"pausing", "closing", "paused", "exiting", "joining", "wait", "done"}
    BY <1>1 DEF Main, TestRunning, Pause, EndOfList, JoinServer, JoinChecker,
                WaitForChildren
  <2>2. UNCHANGED interrupted
    BY <1>1 DEF Main, TestRunning, Pause, EndOfList, JoinServer, JoinChecker,
                WaitForChildren
  <2>3. TypeOK'
    BY <1>1, <2>1, <2>2 DEF TypeOK
  <2>4. CheckerJoined'
    BY <1>1 DEF CheckerJoined, Main, TestRunning, Pause, EndOfList, JoinServer, JoinChecker,
       WaitForChildren
  <2>5. NoPartnerLeft'
    BY <1>1 DEF NoPartnerLeft, Running, Main, TestRunning, Pause, EndOfList, JoinServer,
       JoinChecker, WaitForChildren
  <2>. QED
    BY <2>3, <2>4, <2>5
<1>2. CASE HandleExit \/ Bind \/ Hang \/ LeaveLoop
  BY <1>2 DEF HandleExit, Bind, Hang, LeaveLoop, TypeOK, CheckerJoined, NoPartnerLeft, Running
<1>3. CASE LoopTest \/ FindNothing \/ SsFillMap \/ ReapChild
  BY <1>3 DEF LoopTest, FindNothing, SsFillMap, ReapChild, TypeOK, CheckerJoined,
              NoPartnerLeft, Running
<1>4. CASE Deploy \/ StartPartner
  BY <1>4, DeploySteps DEF TypeOK, CheckerJoined, NoPartnerLeft
<1>5. ASSUME NEW group \in {{}, Running}, Interrupt(group) PROVE IInv'
  <2>1. TypeOK'
    BY <1>5, InterruptStep DEF Interrupt, TypeOK
  <2>2. CheckerJoined'
    BY <1>5 DEF Interrupt, CheckerJoined
  <2>3. NoPartnerLeft'
    <3>1. Running = {} => Running' = {}
      BY <1>5, InterruptStep
    <3>2. main' = "done" /\ ~interrupted' => main = "done" /\ ~interrupted
      BY <1>5 DEF Interrupt
    <3>. QED
      BY <3>1, <3>2 DEF NoPartnerLeft
  <2>. QED
    BY <2>1, <2>2, <2>3
<1>6. ASSUME NEW p \in Pids,
             \/ CloseConnection(p) \/ Accept(p) \/ Echo(p) \/ Client(p) \/ StopClient(p)
         \/ Outside(p) \/ Die(p)
      PROVE  IInv'
  BY <1>6, PartnerSteps DEF TypeOK, CheckerJoined, NoPartnerLeft
<1>7. CASE UNCHANGED vars
  BY <1>7 DEF vars, TypeOK, CheckerJoined, NoPartnerLeft, Running
<1>8. CASE Main
  BY <1>1, <1>6, <1>8 DEF Main, TestRunning, Pause, EndOfList, JoinServer, JoinChecker,
     WaitForChildren
<1>. QED
  BY <1>2, <1>3, <1>4, <1>5, <1>6, <1>7, <1>8 DEF Next, Checker

\* The invariant of the module, from which the next theorems follow.
THEOREM Invariance == Spec => []IInv
BY InitInvariant, NextInvariant, PTL DEF Spec

\* The variables keep their types, through every deployment, signal and end of a
\* partner.
THEOREM TypeCorrect == Spec => []TypeOK
<1>1. IInv => TypeOK
  BY DEF IInv
<1>. QED
  BY <1>1, Invariance, PTL

\* When stop() has returned and no signal cut its wait short, no partner runs.
THEOREM NobodyIsLeft == Spec => []NoPartnerLeft
<1>1. IInv => NoPartnerLeft
  BY DEF IInv
<1>. QED
  BY <1>1, Invariance, PTL

-----------------------------------------------------------------------------
(* No waiting circle. *)

\* stop() has not yet gone through the list.
Early == main \in {"test", "pausing", "paused", "closing"}

\* Behind the two joins.
ServerJoined == main \in {"joining", "wait", "done"} => serverPc \in {"ended", "unbound"}

\* What was accepted in time is closed.
NoneListed == ~Early => ConnectedBy({"listed"}) = {}

\* Nobody connects to the server without its listening socket, and who connects does so
\* once.
AtServer == {"backlog", "listed", "late"}
ConnectedToServer == ~Listening => \A p \in Running : partner[p].conn \notin AtServer
ConnectedOnce ==
  \A p \in Running :
    partner[p].conn = "none" <=> partner[p].client \in {"connect", "nosocket"}

\* A partner inherits from the supervisor what older partners use, and there is a last
\* one.
CopiesOfOlder == \A p \in Running : \A q \in partner[p].copies : q < p
LastOne == \E n \in Nat : \A p \in Pids : p > n => partner[p] = Unused

PartnersInv == ConnectedToServer /\ ConnectedOnce /\ CopiesOfOlder /\ LastOne
CInv == IInv /\ ServerJoined /\ NoneListed /\ PartnersInv

\* A bounded set of numbers has a largest one.
LEMMA Largest ==
  ASSUME NEW S \in SUBSET Nat, S # {}, NEW bound \in Nat, \A n \in S : n <= bound
  PROVE  \E n \in S : \A m \in S : m <= n
<1>. DEFINE Below == {bound - n : n \in S}
<1>1. Below \subseteq Nat
  <2>. SUFFICES ASSUME NEW n \in S PROVE bound - n \in Nat
    OBVIOUS
  <2>. n \in Nat /\ n <= bound
    OBVIOUS
  <2>. QED
    OBVIOUS
<1>2. Below # {}
  OBVIOUS
<1>3. PICK x \in Below : \A y \in Below : <<y, x>> \notin OpToRel(<, Nat)
  <2>. HIDE DEF Below
  <2>. QED
    BY <1>1, <1>2, NatLessThanWellFounded, WFMin
<1>4. \A y \in Below : ~ (y < x)
  <2>. SUFFICES ASSUME NEW y \in Below, y < x PROVE <<y, x>> \in OpToRel(<, Nat)
    BY <1>3
  <2>1. <<y, x>> \in Nat \X Nat /\ <<y, x>>[1] < <<y, x>>[2]
    BY <1>1
  <2>. QED
    BY <2>1 DEF OpToRel
<1>5. PICK n \in S : x = bound - n
  OBVIOUS
<1>6. \A m \in S : ~ (bound - m < bound - n)
  BY <1>4, <1>5
<1>7. \A m \in S : m \in Nat
  OBVIOUS
<1>. QED
  BY <1>6, <1>7

\* What may become of a partner in a step of its own or of its connection: it ends, or it
\* keeps its copies, connects once and to a listening socket, and comes into the list
\* only while stop() still looks at that.
Succeeds(r, p) ==
  /\ r.proc = "running"
  /\ r.copies = partner[p].copies
  /\ r.conn = "none" <=> r.client \in {"connect", "nosocket"}
  /\ r.conn \in AtServer => partner[p].conn \in AtServer \/ Listening
  /\ r.conn = "listed" => Early \/ partner[p].conn = "listed"

LEMMA PartnerSucceeds ==
  ASSUME TypeOK, ConnectedOnce, NEW p \in Pids,
         \/ CloseConnection(p) \/ Accept(p) \/ Echo(p) \/ Client(p) \/ StopClient(p)
         \/ Outside(p) \/ Die(p)
  PROVE  \E r : partner' = [partner EXCEPT ![p] = r] /\ (r = Zombie \/ Succeeds(r, p))
<1>. DEFINE old == partner[p]
<1>1. p \in Running
  BY PartnerSteps
<1>2. old \in Partners /\ (old.conn = "none" <=> old.client \in {"connect", "nosocket"})
  BY <1>1, RunningIsPartner DEF ConnectedOnce
<1>3. CASE CloseConnection(p)
  <2>. DEFINE r == [old EXCEPT !.conn = "left"]
  <2>1. partner' = [partner EXCEPT ![p] = r] /\ old.conn = "listed"
    BY <1>3 DEF CloseConnection, ConnectedBy
  <2>2. Succeeds(r, p)
    BY <1>2, <2>1 DEF Succeeds, Partners, AtServer
  <2>. QED
    BY <2>1, <2>2
<1>4. CASE Accept(p)
  <2>. DEFINE r == [old EXCEPT !.conn = IF Early THEN "listed" ELSE "late"]
  <2>1. partner' = [partner EXCEPT ![p] = r] /\ old.conn = "backlog"
    BY <1>4 DEF Accept, ConnectedBy, Early
  <2>2. Succeeds(r, p)
    BY <1>2, <2>1 DEF Succeeds, Partners, AtServer
  <2>. QED
    BY <2>1, <2>2
<1>5. CASE Echo(p)
  <2>. DEFINE r == [old EXCEPT !.unanswered = FALSE]
  <2>1. partner' = [partner EXCEPT ![p] = r]
    BY <1>5 DEF Echo
  <2>2. Succeeds(r, p)
    BY <1>2 DEF Succeeds, Partners
  <2>. QED
    BY <2>1, <2>2
<1>6. CASE Connect(p)
  <2>. DEFINE r == [old EXCEPT !.conn = "backlog", !.client = "send"]
  <2>1. partner' = [partner EXCEPT ![p] = r] /\ Listening
    BY <1>6 DEF Connect
  <2>2. Succeeds(r, p)
    BY <1>2, <2>1 DEF Succeeds, Partners, AtServer
  <2>. QED
    BY <2>1, <2>2
<1>7. CASE Send(p)
  <2>. DEFINE r == [old EXCEPT !.unanswered = TRUE, !.client = "recv"]
  <2>1. partner' = [partner EXCEPT ![p] = Zombie] \/ partner' = [partner EXCEPT ![p] = r]
    BY <1>7 DEF Send
  <2>2. old.client = "send"
    BY <1>7 DEF Send
  <2>3. Succeeds(r, p)
    BY <1>2, <2>2 DEF Succeeds, Partners, AtServer
  <2>. QED
    BY <2>1, <2>3
<1>8. CASE Recv(p)
  <2>. DEFINE r == [old EXCEPT !.client = "sleep"]
  <2>1. partner' = [partner EXCEPT ![p] = r] /\ old.client = "recv"
    BY <1>8 DEF Recv
  <2>2. Succeeds(r, p)
    BY <1>2, <2>1 DEF Succeeds, Partners, AtServer
  <2>. QED
    BY <2>1, <2>2
<1>9. CASE TestLoop(p)
  <2>. DEFINE r == [old EXCEPT !.client = "send"]
  <2>1. partner' = [partner EXCEPT ![p] = Zombie] \/ partner' = [partner EXCEPT ![p] = r]
    BY <1>9 DEF TestLoop, NextRound
  <2>2. old.client = "sleep"
    BY <1>9 DEF TestLoop, NextRound
  <2>3. Succeeds(r, p)
    BY <1>2, <2>2 DEF Succeeds, Partners, AtServer
  <2>. QED
    BY <2>1, <2>3
<1>10. CASE GiveUp(p) \/ Die(p)
  BY <1>10 DEF GiveUp, Die
<1>11. CASE StopClient(p)
  <2>. DEFINE r == [old EXCEPT !.told = "exit"]
  <2>1. partner' = [partner EXCEPT ![p] = r]
    BY <1>11 DEF StopClient
  <2>2. Succeeds(r, p)
    BY <1>2 DEF Succeeds, Partners
  <2>. QED
    BY <2>1, <2>2
<1>12. CASE ConnectElsewhere(p)
  <2>. DEFINE r == [old EXCEPT !.conn = "foreign", !.client = "send"]
  <2>1. partner' = [partner EXCEPT ![p] = r]
    BY <1>12 DEF ConnectElsewhere
  <2>2. Succeeds(r, p)
    BY <1>2 DEF Succeeds, Partners, AtServer
  <2>. QED
    BY <2>1, <2>2
<1>13. CASE StrangerReacts(p)
  <2>. DEFINE answered == [old EXCEPT !.unanswered = FALSE]
              closed == [old EXCEPT !.conn = "left"]
  <2>1. old.conn = "foreign"
    BY <1>13 DEF StrangerReacts, ConnectedBy
  <2>2. partner' = [partner EXCEPT ![p] = answered] \/ partner' = [partner EXCEPT ![p] = closed]
    BY <1>13 DEF StrangerReacts
  <2>3. Succeeds(answered, p) /\ Succeeds(closed, p)
    BY <1>2, <2>1 DEF Succeeds, Partners, AtServer
  <2>. QED
    BY <2>2, <2>3
<1>14. CASE NoSocket(p)
  <2>. DEFINE r == [old EXCEPT !.client = "nosocket"]
  <2>1. partner' = [partner EXCEPT ![p] = r] /\ old.client = "connect"
    BY <1>14 DEF NoSocket
  <2>2. Succeeds(r, p)
    BY <1>2, <2>1 DEF Succeeds, Partners, AtServer
  <2>. QED
    BY <2>1, <2>2
<1>. QED
  BY <1>3, <1>4, <1>5, <1>6, <1>7, <1>8, <1>9, <1>10, <1>11, <1>12, <1>13, <1>14
  DEF Client, Outside

\* So these steps keep what is said of all partners.
LEMMA PartnerStepsKeep ==
  ASSUME CInv, NEW p \in Pids,
         \/ CloseConnection(p) \/ Accept(p) \/ Echo(p) \/ Client(p) \/ StopClient(p)
         \/ Outside(p) \/ Die(p)
  PROVE  NoneListed' /\ PartnersInv' /\ ServerJoined'
<1>1. PICK r : partner' = [partner EXCEPT ![p] = r] /\ (r = Zombie \/ Succeeds(r, p))
  BY PartnerSucceeds DEF CInv, IInv, PartnersInv
<1>2. /\ p \in Running /\ UNCHANGED <<main, serverPc>>
  BY PartnerSteps DEF CInv, IInv, mainVars
<1>3. /\ partner'[p] = r
      /\ \A q \in Pids : q # p => partner'[q] = partner[q]
  BY <1>1 DEF CInv, IInv, TypeOK
<1>4. \A q \in Running' :
        /\ q \in Running
        /\ partner'[q].copies = partner[q].copies
        /\ partner'[q].conn = "none" <=> partner'[q].client \in {"connect", "nosocket"}
        /\ partner'[q].conn \in AtServer => partner[q].conn \in AtServer \/ Listening
        /\ partner'[q].conn = "listed" => Early \/ partner[q].conn = "listed"
  <2>. SUFFICES ASSUME NEW q \in Running'
                PROVE  /\ q \in Running
                       /\ partner'[q].copies = partner[q].copies
                       /\ partner'[q].conn = "none"
                            <=> partner'[q].client \in {"connect", "nosocket"}
                       /\ partner'[q].conn \in AtServer
                            => partner[q].conn \in AtServer \/ Listening
                       /\ partner'[q].conn = "listed" => Early \/ partner[q].conn = "listed"
    OBVIOUS
  <2>1. CASE q = p
    <3>1. r # Zombie
      BY <1>3, <2>1 DEF Running, Zombie
    <3>. QED
      BY <1>1, <1>2, <1>3, <2>1, <3>1 DEF Succeeds
  <2>2. CASE q # p
    <3>1. partner'[q] = partner[q] /\ q \in Running
      BY <1>3, <2>2 DEF Running
    <3>. QED
      BY <3>1 DEF CInv, PartnersInv, ConnectedOnce
  <2>. QED
    BY <2>1, <2>2
<1>5. NoneListed'
  BY <1>2, <1>4 DEF CInv, NoneListed, ConnectedBy, Early
<1>6. ConnectedToServer' /\ ConnectedOnce'
  BY <1>2, <1>4 DEF CInv, PartnersInv, ConnectedToServer, ConnectedOnce, Listening
<1>7. CopiesOfOlder'
  BY <1>4 DEF CInv, PartnersInv, CopiesOfOlder
<1>8. LastOne'
  <2>1. PICK n \in Nat : \A q \in Pids : q > n => partner[q] = Unused
    BY DEF CInv, PartnersInv, LastOne
  <2>2. partner[p] # Unused
    BY <1>2 DEF Running, Unused
  <2>3. \A q \in Pids : q > n => partner'[q] = Unused
    BY <1>3, <2>1, <2>2
  <2>. QED
    BY <2>1, <2>3 DEF LastOne
<1>9. ServerJoined'
  BY <1>2 DEF CInv, ServerJoined
<1>. QED
  BY <1>5, <1>6, <1>7, <1>8, <1>9 DEF PartnersInv

\* A signal changes nothing of a partner but whether it was told to end.
LEMMA InterruptKeeps ==
  ASSUME CInv, NEW group \in {{}, Running}, Interrupt(group)
  PROVE  NoneListed' /\ PartnersInv' /\ ServerJoined'
<1>1. PICK killed \in SUBSET group, informed \in SUBSET group :
        partner' = [p \in Pids |->
          IF p \in killed THEN Zombie
          ELSE IF p \in informed /\ partner[p].told = "no" THEN [partner[p] EXCEPT !.told = "told"]
          ELSE partner[p]]
  BY DEF Interrupt
<1>2. killed \subseteq Running /\ informed \subseteq Running
  OBVIOUS
<1>3. \A p \in Pids : p \notin Running => partner'[p] = partner[p]
  BY <1>1, <1>2
<1>4. \A p \in Running' :
        /\ p \in Running
        /\ partner'[p].conn = partner[p].conn
        /\ partner'[p].client = partner[p].client
        /\ partner'[p].copies = partner[p].copies
  <2>. SUFFICES ASSUME NEW p \in Running'
                PROVE  /\ p \in Running
                       /\ partner'[p].conn = partner[p].conn
                       /\ partner'[p].client = partner[p].client
                       /\ partner'[p].copies = partner[p].copies
    OBVIOUS
  <2>1. p \in Pids /\ p \in Running
    BY <1>3 DEF Running
  <2>2. partner[p] \in Partners
    BY <2>1, RunningIsPartner DEF CInv, IInv
  <2>3. partner'[p] \in {Zombie, [partner[p] EXCEPT !.told = "told"], partner[p]}
    BY <1>1, <2>1
  <2>4. partner'[p] # Zombie
    BY DEF Running, Zombie
  <2>. QED
    BY <2>1, <2>2, <2>3, <2>4 DEF Partners
<1>5. Early' = Early /\ UNCHANGED serverPc /\ (main' = main \/ main' \in {"test", "done"})
  BY DEF Interrupt, Early
<1>6. NoneListed'
  BY <1>4, <1>5 DEF CInv, NoneListed, ConnectedBy
<1>7. ConnectedToServer' /\ ConnectedOnce' /\ CopiesOfOlder'
  BY <1>4, <1>5
  DEF CInv, PartnersInv, ConnectedToServer, ConnectedOnce, CopiesOfOlder, Listening
<1>8. LastOne'
  <2>1. PICK n \in Nat : \A p \in Pids : p > n => partner[p] = Unused
    BY DEF CInv, PartnersInv, LastOne
  <2>2. \A p \in Pids : p > n => partner'[p] = Unused
    BY <1>3, <2>1 DEF Running, Unused
  <2>. QED
    BY <2>1, <2>2 DEF LastOne
<1>9. ServerJoined'
  BY DEF CInv, ServerJoined, Interrupt
<1>. QED
  BY <1>6, <1>7, <1>8, <1>9 DEF PartnersInv

\* A deployment leaves nobody; a fork starts the next process, which has copies only of
\* what those before it use.
LEMMA DeployKeeps ==
  ASSUME CInv, Deploy \/ StartPartner
  PROVE  NoneListed' /\ PartnersInv' /\ ServerJoined'
<1>1. UNCHANGED <<main, serverPc>>
  BY DeploySteps DEF CInv, IInv, mainVars
<1>2. ServerJoined'
  BY <1>1 DEF CInv, ServerJoined
<1>3. PICK n \in Nat : \A p \in Pids : p > n => partner[p] = Unused
  BY DEF CInv, PartnersInv, LastOne
<1>4. CASE Deploy
  <2>1. partner' = [p \in Pids |-> IF p \in Running THEN Zombie ELSE partner[p]]
    BY <1>4 DEF Deploy
  <2>2. Running' = {}
    BY <2>1 DEF Running, Zombie
  <2>3. \A p \in Pids : p > n => partner'[p] = Unused
    BY <1>3, <2>1 DEF Running, Unused
  <2>4. NoneListed' /\ ConnectedToServer' /\ ConnectedOnce' /\ CopiesOfOlder'
    BY <2>2 DEF NoneListed, ConnectedBy, ConnectedToServer, ConnectedOnce, CopiesOfOlder
  <2>. QED
    BY <1>2, <2>3, <2>4 DEF PartnersInv, LastOne
<1>5. CASE StartPartner /\ partner' = partner
  BY <1>1, <1>2, <1>5
  DEF CInv, PartnersInv, NoneListed, ConnectedBy, ConnectedToServer, ConnectedOnce,
      CopiesOfOlder, LastOne, Running, Early, Listening
<1>6. CASE StartPartner /\ partner' # partner
  <2>. DEFINE new == [proc |-> "running", told |-> "no", client |-> "connect",
                      conn |-> "none", unanswered |-> FALSE,
                      copies |-> ConnectedBy({"listed", "late"})]
  <2>1. PICK p \in Pids : /\ \A q \in Pids : partner[q] = Unused <=> q >= p
                          /\ partner' = [partner EXCEPT ![p] = new]
    BY <1>6 DEF StartPartner
  <2>2. /\ partner'[p] = new
        /\ \A q \in Pids : q # p => partner'[q] = partner[q]
    BY <2>1 DEF CInv, IInv, TypeOK
  <2>3. /\ new.conn = "none" /\ new.client = "connect"
        /\ new.copies \subseteq Running
    BY DEF ConnectedBy
  <2>. HIDE DEF new
  <2>4. \A q \in Running' : q = p \/ q \in Running
    BY <2>2 DEF Running
  <2>5. \A q \in Running : q \in Pids /\ q < p
    BY <2>1, ShutdownAssumption DEF Running, Unused
  <2>6. NoneListed'
    BY <1>1, <2>2, <2>3, <2>4, <2>5 DEF CInv, NoneListed, ConnectedBy, Early
  <2>7. ConnectedToServer' /\ ConnectedOnce'
    BY <1>1, <2>2, <2>3, <2>4, <2>5
    DEF CInv, PartnersInv, ConnectedToServer, AtServer, ConnectedOnce, Listening
  <2>8. CopiesOfOlder'
    BY <2>2, <2>3, <2>4, <2>5 DEF CInv, PartnersInv, CopiesOfOlder
  <2>9. LastOne'
    <3>1. p \in Nat
      BY ShutdownAssumption
    <3>2. \A q \in Pids : q > p => partner'[q] = Unused
      BY <2>1, <2>2, <3>1, ShutdownAssumption
    <3>. QED
      BY <3>1, <3>2 DEF LastOne
  <2>. QED
    BY <1>2, <2>6, <2>7, <2>8, <2>9 DEF PartnersInv
<1>. QED
  BY <1>4, <1>5, <1>6

LEMMA CInvStep == CInv /\ [Next]_vars => CInv'
<1>. SUFFICES ASSUME CInv, [Next]_vars PROVE NoneListed' /\ PartnersInv' /\ ServerJoined'
  BY NextInvariant DEF CInv
<1>. USE DEF mainVars, checkerVars
<1>1. ASSUME partner' = partner, serverPc' = serverPc \/ serverPc' \in {"unbound", "ended"},
             Listening => Listening'
      PROVE  PartnersInv'
  BY <1>1 DEF CInv, PartnersInv, ConnectedToServer, ConnectedOnce, CopiesOfOlder, LastOne,
     Running
<1>2. CASE TestRunning \/ Pause \/ JoinServer \/ JoinChecker \/ WaitForChildren
  <2>1. UNCHANGED <<partner, serverPc>> /\ Early' = Early
    BY <1>2 DEF TestRunning, Pause, JoinServer, JoinChecker, WaitForChildren, Early
  <2>2. NoneListed'
    BY <2>1 DEF CInv, NoneListed, ConnectedBy, Running
  <2>3. ServerJoined'
    BY <1>2 DEF CInv, ServerJoined, TestRunning, Pause, JoinServer, JoinChecker,
                WaitForChildren
  <2>. QED
    BY <1>1, <2>1, <2>2, <2>3 DEF Listening
<1>3. CASE EndOfList
  <2>1. UNCHANGED <<partner, serverPc>>
    BY <1>3 DEF EndOfList
  <2>2. NoneListed' /\ ServerJoined'
    BY <1>3 DEF EndOfList, NoneListed, ServerJoined, ConnectedBy, Running
  <2>. QED
    BY <1>1, <2>1, <2>2 DEF Listening
<1>4. CASE HandleExit \/ LoopTest \/ FindNothing \/ SsFillMap \/ ReapChild \/ UNCHANGED vars
  <2>1. UNCHANGED <<partner, serverPc, main>>
    BY <1>4 DEF HandleExit, LoopTest, FindNothing, SsFillMap, ReapChild, vars
  <2>2. NoneListed' /\ ServerJoined'
    BY <2>1 DEF CInv, NoneListed, ServerJoined, ConnectedBy, Running, Early
  <2>. QED
    BY <1>1, <2>1, <2>2 DEF Listening
<1>5. CASE Bind \/ Hang \/ LeaveLoop
  <2>1. UNCHANGED <<partner, main>> /\ (Listening => Listening')
    BY <1>5 DEF Bind, Hang, LeaveLoop, Listening
  <2>2. NoneListed' /\ ServerJoined'
    BY <1>5, <2>1 DEF Bind, Hang, LeaveLoop, CInv, NoneListed, ServerJoined, ConnectedBy,
                      Running, Early
  <2>3. PartnersInv'
    BY <2>1
    DEF CInv, PartnersInv, ConnectedToServer, ConnectedOnce, CopiesOfOlder, LastOne, Running
  <2>. QED
    BY <2>2, <2>3
<1>6. CASE Deploy \/ StartPartner
  BY <1>6, DeployKeeps
<1>7. ASSUME NEW group \in {{}, Running}, Interrupt(group)
      PROVE  NoneListed' /\ PartnersInv' /\ ServerJoined'
  BY <1>7, InterruptKeeps
<1>8. ASSUME NEW p \in Pids,
             \/ CloseConnection(p) \/ Accept(p) \/ Echo(p) \/ Client(p) \/ StopClient(p)
         \/ Outside(p) \/ Die(p)
      PROVE  NoneListed' /\ PartnersInv' /\ ServerJoined'
  BY <1>8, PartnerStepsKeep
<1>. QED
  BY <1>2, <1>3, <1>4, <1>5, <1>6, <1>7, <1>8 DEF Next, Main, Checker

\* The youngest partner that runs is held up by nobody's copies.
LEMMA YoungestGoesOn ==
  ASSUME CInv, main = "wait", Running # {}
  PROVE  \E p \in Running : MayGoOn(p) \/ Stranded(p)
<1>1. PICK n \in Nat : \A p \in Pids : p > n => partner[p] = Unused
  BY DEF CInv, PartnersInv, LastOne
<1>2. Running \in SUBSET Nat /\ \A p \in Running : p <= n
  <2>. SUFFICES ASSUME NEW p \in Running PROVE p \in Nat /\ p <= n
    OBVIOUS
  <2>1. p \in Pids /\ p \in Nat
    BY ShutdownAssumption DEF Running
  <2>2. partner[p] # Unused
    BY DEF Running, Unused
  <2>. QED
    BY <1>1, <2>1, <2>2
<1>3. PICK p \in Running : \A q \in Running : q <= p
  BY <1>2, Largest
<1>4. serverPc \in {"ended", "unbound"}
  BY DEF CInv, ServerJoined
<1>5. /\ partner[p].client \in {"connect", "nosocket", "send", "recv", "sleep"}
      /\ partner[p].conn \in {"none", "backlog", "listed", "late", "left", "foreign"}
      /\ partner[p].unanswered \in BOOLEAN
  BY RunningIsPartner DEF CInv, IInv, Partners
<1>6. CASE partner[p].client \in {"send", "sleep"}
  BY <1>6 DEF MayGoOn
<1>7. CASE partner[p].client \in {"connect", "nosocket"}
  BY <1>4, <1>7 DEF MayGoOn, Stranded, Listening
<1>8. CASE partner[p].client = "recv" /\ partner[p].unanswered
  <2>1. partner[p].conn \notin {"none", "listed"}
    BY <1>8 DEF CInv, PartnersInv, ConnectedOnce, NoneListed, ConnectedBy, Early
  <2>2. CASE partner[p].conn = "foreign"
    BY <1>8, <2>2 DEF Stranded
  <2>3. CASE partner[p].conn \in {"backlog", "late"}
    <3>1. Listening
      BY <2>3 DEF CInv, PartnersInv, ConnectedToServer, ConnectedBy, AtServer
    <3>2. serverPc = "ended"
      BY <1>4, <3>1 DEF Listening
    <3>. QED
      BY <1>8, <2>3, <3>2 DEF Stranded
  <2>4. CASE partner[p].conn = "left"
    <3>1. \A q \in Running : p \notin partner[q].copies
      BY <1>2, <1>3 DEF CInv, PartnersInv, CopiesOfOlder
    <3>. QED
      BY <1>8, <2>4, <3>1 DEF MayGoOn, Closed
  <2>. QED
    BY <1>5, <2>1, <2>2, <2>3, <2>4
<1>9. CASE partner[p].client = "recv" /\ ~partner[p].unanswered
  BY <1>9 DEF MayGoOn
<1>. QED
  BY <1>5, <1>6, <1>7, <1>8, <1>9

\* While stop() waits for its children they do not all wait for each other.
THEOREM NoPartnersInACircle == Spec => []NoWaitingCircle
<1>1. Init => CInv
  <2>. SUFFICES ASSUME Init PROVE CInv
    OBVIOUS
  <2>1. Running = {} /\ \A p \in Pids : p > 0 => partner[p] = Unused
    BY DEF Init, Running, Unused
  <2>2. PartnersInv
    BY <2>1 DEF PartnersInv, ConnectedToServer, ConnectedOnce, CopiesOfOlder, LastOne
  <2>. QED
    BY <2>1, <2>2, InitInvariant DEF CInv, ServerJoined, NoneListed, ConnectedBy, Init,
                                     Early
<1>2. CInv => NoWaitingCircle
  BY YoungestGoesOn DEF NoWaitingCircle
<1>. QED
  BY <1>1, <1>2, CInvStep, PTL DEF Spec
=============================================================================
