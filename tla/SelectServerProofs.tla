-------------------------- MODULE SelectServerProofs --------------------------
(***************************************************************************)
(* Proofs about SelectServer, for any number of clients and descriptors.   *)
(***************************************************************************)
EXTENDS SelectServer, SequenceTheorems, TLAPS

\* What erase() leaves: the elements behind the erased one move up by one.
LEMMA RemoveAtFacts ==
  ASSUME NEW S, NEW list \in Seq(S), NEW i \in 1 .. Len(list)
  PROVE  /\ RemoveAt(list, i) \in Seq(S)
         /\ Len(RemoveAt(list, i)) = Len(list) - 1
         /\ \A j \in 1 .. Len(list) - 1 :
              RemoveAt(list, i)[j] = IF j < i THEN list[j] ELSE list[j + 1]
<1> DEFINE front == SubSeq(list, 1, i - 1)
           back == SubSeq(list, i + 1, Len(list))
<1>1. /\ front \in Seq(S)
      /\ Len(front) = i - 1
      /\ \A j \in 1 .. i - 1 : front[j] = list[j]
  BY SubSeqProperties
<1>2. /\ back \in Seq(S)
      /\ Len(back) = Len(list) - i
      /\ \A j \in 1 .. Len(list) - i : back[j] = list[i + j]
  BY SubSeqProperties
<1>3. /\ front \o back \in Seq(S)
      /\ Len(front \o back) = Len(list) - 1
      /\ \A j \in 1 .. Len(list) - 1 :
           (front \o back)[j] = IF j < i THEN front[j] ELSE back[j - (i - 1)]
  <2> HIDE DEF front, back
  <2>1. /\ front \o back \in Seq(S)
        /\ Len(front \o back) = Len(front) + Len(back)
        /\ \A j \in 1 .. Len(front) + Len(back) :
             (front \o back)[j] =
               IF j <= Len(front) THEN front[j] ELSE back[j - Len(front)]
    BY <1>1, <1>2, ConcatProperties
  <2>2. Len(front) = i - 1 /\ Len(front) + Len(back) = Len(list) - 1
    BY <1>1, <1>2
  <2>3. Len(front \o back) = Len(list) - 1
    BY <2>1, <2>2
  <2>4. ASSUME NEW j \in 1 .. Len(list) - 1
        PROVE  (front \o back)[j] = IF j < i THEN front[j] ELSE back[j - (i - 1)]
    <3>1. j \in 1 .. Len(front) + Len(back)
      BY <2>2
    <3>2. (front \o back)[j] = IF j <= i - 1 THEN front[j] ELSE back[j - (i - 1)]
      BY <2>1, <2>2, <3>1
    <3>3. j <= i - 1 <=> j < i
      OBVIOUS
    <3> QED
      BY <3>2, <3>3
  <2> QED
    BY <2>1, <2>3, <2>4
<1>4. ASSUME NEW j \in 1 .. Len(list) - 1, ~(j < i)
      PROVE  back[j - (i - 1)] = list[j + 1]
  <2>1. j - (i - 1) \in 1 .. Len(list) - i
    BY <1>4
  <2> QED
    BY <1>2, <2>1
<1>5. RemoveAt(list, i) = front \o back
  BY DEF RemoveAt
<1> HIDE DEF front, back
<1> QED
  BY <1>1, <1>3, <1>4, <1>5

LEMMA AppendFacts ==
  ASSUME NEW S, NEW list \in Seq(S), NEW e \in S
  PROVE  /\ Append(list, e) \in Seq(S)
         /\ Len(Append(list, e)) = Len(list) + 1
         /\ \A j \in 1 .. Len(list) : Append(list, e)[j] = list[j]
         /\ Append(list, e)[Len(list) + 1] = e
OBVIOUS

LEMMA RangeFacts ==
  ASSUME NEW S, NEW list \in Seq(S)
  PROVE  Range(list) = {list[j] : j \in 1 .. Len(list)}
BY DEF Range
-----------------------------------------------------------------------------
(* The inductive invariant. *)

\* Inside a round it2 is at an element, whose descriptor was reported.
AtElement ==
  /\ serverPc \in {"recv", "getpeername", "handle"} => it2 \in 1 .. Len(fds)
  /\ serverPc = "recv" => fds[it2] \in read_fds

\* While the server runs, the round works on the client that the element under
\* it2 stands for.
OneClientAtATime ==
  main = "running" /\ serverPc \in {"recv", "getpeername", "handle"} =>
    reading \in Clients /\ sock[fds[it2]] = reading

\* select() reported open descriptors with input, which only recv() takes away:
\* until the iterator has gone past end(), those from it2 on still have theirs.
InputAhead ==
  main = "running" =>
    /\ serverPc = "select" => Master \notin read_fds
    /\ serverPc = "accept" =>
         \A fd \in Fds \cap read_fds : sock[fd] # NoClient /\ HasInput(sock[fd])
    /\ serverPc \in {"round", "recv", "getpeername", "handle"} /\ ~wrapped =>
         \A j \in 1 .. Len(fds) :
           fds[j] \in read_fds
             /\ (j > it2 \/ (j = it2 /\ serverPc \in {"round", "recv"})) =>
               HasInput(sock[fds[j]])

\* A client has one connection, accepted or not yet.
OneConnection ==
  /\ \A c \in backlog : ~Accepted(c)
  /\ \A fd, gd \in Fds : sock[fd] = sock[gd] /\ sock[fd] # NoClient => fd = gd

IInv == /\ TypeOK
        /\ AtElement
        /\ OneConnection
        /\ ListIsOpenClients
        /\ OneClientAtATime
        /\ InputAhead
        /\ HandledUnderItsPort
        /\ BlockedOnlyPastEnd

LEMMA TypeInit == Init => TypeOK
<1> SUFFICES ASSUME Init PROVE TypeOK
  OBVIOUS
<1>1. fds \in Seq(Fds) /\ it2 \in 1 .. Len(fds) + 1
  BY DEF Init
<1>2. closeIt \in Nat /\ sock \in [Fds -> Clients \cup {NoClient}]
  BY DEF Init
<1> QED
  BY <1>1, <1>2 DEF Init, TypeOK

LEMMA TypeStep == TypeOK /\ AtElement /\ [Next]_vars => TypeOK'
<1> SUFFICES ASSUME TypeOK, AtElement, [Next]_vars PROVE TypeOK'
  OBVIOUS
<1> USE SelectAssumption
    DEF TypeOK, roundVars, clientVars, mainVars, ownerVars, listVars, resultVars
<1> fds \in Seq(Fds) /\ Len(fds) \in Nat /\ \A j \in 1 .. Len(fds) : fds[j] \in Fds
  OBVIOUS
<1>1. CASE LoopTest
  BY <1>1, RangeFacts DEF LoopTest
<1>2. CASE SelectReturnsNone
  BY <1>2 DEF SelectReturnsNone
<1>3. CASE SelectReturns
  <2>1. Ready \subseteq Fds \cup {Master}
    BY DEF Ready
  <2> QED
    BY <1>3, <2>1 DEF SelectReturns
<1>4. CASE AcceptNobody
  BY <1>4 DEF AcceptNobody, StartRound
<1>5. ASSUME NEW c \in Clients, Accept(c) PROVE TypeOK'
  <2>1. PICK newSocket \in Fds :
          fds' = Append(fds, newSocket) /\ sock' = [sock EXCEPT ![newSocket] = c]
    BY <1>5 DEF Accept
  <2>2. fds' \in Seq(Fds) /\ Len(fds') = Len(fds) + 1
    BY <2>1, AppendFacts
  <2> QED
    BY <1>5, <2>1, <2>2 DEF Accept, StartRound
<1>6. CASE EndRound
  <2>1. it2' \in 1 .. Len(fds') + 1
    BY <1>6 DEF EndRound
  <2> QED
    BY <1>6, <2>1 DEF EndRound
<1>7. CASE PassOver
  BY <1>7 DEF PassOver
<1>8. CASE CallRecv
  BY <1>8 DEF CallRecv
<1>9. ASSUME NEW result \in {"data", "0", "-1"}, RecvReturns(result) PROVE TypeOK'
  BY <1>9 DEF RecvReturns
<1>10. CASE Getpeername
  BY <1>10 DEF Getpeername, PeerOf, AtElement
<1>11. CASE Disconnected
  <2>1. it2 \in 1 .. Len(fds)
    BY <1>11 DEF Disconnected, DropAndMoveTo, AtElement
  <2>2. fds' \in Seq(Fds) /\ Len(fds') = Len(fds) - 1
    BY <1>11, <2>1, RemoveAtFacts DEF Disconnected, DropAndMoveTo
  <2>3. it2' = IF it2 = Len(fds) THEN 1 ELSE it2 + 1
    BY <1>11 DEF Disconnected, DropAndMoveTo
  <2>4. it2' \in 1 .. Len(fds') + 1
    BY <2>1, <2>2, <2>3
  <2>5. closeIt' \in Nat
    <3>1. closeIt' = IF main # "closing" \/ closeIt < it2 THEN closeIt
                     ELSE IF closeIt = it2 THEN 0 ELSE closeIt - 1
      BY <1>11 DEF Disconnected, DropAndMoveTo, CloseItAfterErase
    <3> QED
      BY <2>1, <3>1
  <2>6. /\ sock' \in [Fds -> Clients \cup {NoClient}]
        /\ wrapped' \in BOOLEAN
        /\ serverPc' = "round"
        /\ reading' = NoClient /\ bytesRecv' = "data"
        /\ UNCHANGED <<loop, main, process, read_fds, addr, clientVars>>
    BY <1>11 DEF Disconnected, DropAndMoveTo, ForgetResult
  <2> QED
    BY <2>2, <2>4, <2>5, <2>6
<1>12. CASE HandleAndEcho
  BY <1>12 DEF HandleAndEcho, HandleAndMoveTo, ForgetResult, AtElement
<1>13. CASE CallStop
  BY <1>13 DEF CallStop
<1>14. CASE CloseNext
  BY <1>14 DEF CloseNext
<1>15. CASE CloseDangling
  BY <1>15 DEF CloseDangling
<1>16. CASE SendExit
  BY <1>16 DEF SendExit
<1>17. CASE Join
  BY <1>17 DEF Join
<1>18. CASE HandleExit
  BY <1>18 DEF HandleExit
<1>19. ASSUME NEW c \in Clients, Connect(c) PROVE TypeOK'
  BY <1>19 DEF Connect
<1>20. ASSUME NEW c \in Clients, SendText(c) PROVE TypeOK'
  BY <1>20 DEF SendText
<1>21. ASSUME NEW c \in Clients, End(c) PROVE TypeOK'
  BY <1>21 DEF End
<1>22. CASE UNCHANGED vars
  BY <1>22 DEF vars
<1> QED
  BY <1>1, <1>2, <1>3, <1>4, <1>5, <1>6, <1>7, <1>8, <1>9, <1>10, <1>11, <1>12,
     <1>13, <1>14, <1>15, <1>16, <1>17, <1>18, <1>19, <1>20, <1>21, <1>22
  DEF Next, ServerThread, Owner

LEMMA IInvInit == Init => IInv
<1> SUFFICES ASSUME Init PROVE IInv
  OBVIOUS
<1>1. TypeOK
  BY TypeInit
<1>2. ListIsOpenClients
  BY RangeFacts DEF Init, ListIsOpenClients, NoDuplicates, Range
<1> QED
  BY <1>1, <1>2 DEF Init, IInv, AtElement, OneConnection, OneClientAtATime, InputAhead,
     HandledUnderItsPort, BlockedOnlyPastEnd, Blocked, Accepted

LEMMA IInvStep == IInv /\ [Next]_vars => IInv'
<1> SUFFICES ASSUME IInv, [Next]_vars PROVE IInv'
  OBVIOUS
<1> USE SelectAssumption
    DEF IInv, AtElement, OneConnection, OneClientAtATime, InputAhead, HandledUnderItsPort,
        BlockedOnlyPastEnd, Blocked, HasInput, Accepted, roundVars, clientVars, mainVars,
        ownerVars, listVars, resultVars
<1> TypeOK'
  BY TypeStep
<1> fds \in Seq(Fds) /\ Len(fds) \in Nat /\ \A j \in 1 .. Len(fds) : fds[j] \in Fds
  BY DEF TypeOK
<1> Range(fds) = {fds[j] : j \in 1 .. Len(fds)}
  BY RangeFacts
<1> Master \notin Fds
  BY DEF Fds
<1>1. CASE LoopTest
  BY <1>1 DEF LoopTest, TypeOK, ListIsOpenClients
<1>2. CASE SelectReturnsNone
  BY <1>2 DEF SelectReturnsNone, TypeOK, ListIsOpenClients
<1>3. CASE SelectReturns
  BY <1>3 DEF SelectReturns, Ready, TypeOK, ListIsOpenClients
<1>4. CASE AcceptNobody
  BY <1>4 DEF AcceptNobody, StartRound, TypeOK, ListIsOpenClients
<1>5. ASSUME NEW c \in Clients, Accept(c) PROVE IInv'
  <2>1. PICK newSocket \in Fds :
          /\ sock[newSocket] = NoClient
          /\ fds' = Append(fds, newSocket)
          /\ sock' = [sock EXCEPT ![newSocket] = c]
    BY <1>5 DEF Accept, LowestFree
  <2>2. /\ fds' \in Seq(Fds) /\ Len(fds') = Len(fds) + 1
        /\ \A j \in 1 .. Len(fds) : fds'[j] = fds[j]
        /\ fds'[Len(fds) + 1] = newSocket
    BY <2>1, AppendFacts
  <2>3. /\ serverPc = "accept" /\ serverPc' = "round" /\ it2' = 1
        /\ c \in backlog /\ backlog' = backlog \ {c}
        /\ UNCHANGED <<main, read_fds, wrapped, unread, ending>>
    BY <1>5 DEF Accept, StartRound
  <2>4. /\ sock'[newSocket] = c
        /\ \A fd \in Fds \ {newSocket} : sock'[fd] = sock[fd]
    BY <2>1 DEF TypeOK
  <2>5. OneConnection'
    BY <2>3, <2>4 DEF TypeOK
  <2>6. CASE main = "running"
    <3>1. \A j \in 1 .. Len(fds) : fds[j] # newSocket
      BY <2>1, <2>6 DEF ListIsOpenClients
    <3>2. NoDuplicates(fds)
      BY <2>6 DEF ListIsOpenClients
    <3>3. NoDuplicates(fds')
      BY <2>2, <3>1, <3>2 DEF NoDuplicates
    <3>4. Range(fds') = {fds'[j] : j \in 1 .. Len(fds')}
      BY <2>2, RangeFacts
    <3>5. Range(fds') = {fd \in Fds : sock'[fd] # NoClient}
      BY <2>2, <2>4, <2>6, <3>4 DEF ListIsOpenClients
    <3>6. newSocket \notin read_fds
      BY <2>1, <2>3, <2>6
    <3>7. InputAhead'
      BY <2>2, <2>3, <2>4, <2>6, <3>1, <3>6
    <3> QED
      BY <2>3, <2>5, <3>3, <3>5, <3>7 DEF ListIsOpenClients
  <2>7. CASE main # "running"
    BY <2>3, <2>5, <2>7 DEF ListIsOpenClients
  <2> QED
    BY <2>6, <2>7
<1>6. CASE EndRound
  BY <1>6 DEF EndRound, TypeOK, ListIsOpenClients
<1>7. CASE PassOver
  BY <1>7 DEF PassOver, TypeOK, ListIsOpenClients
<1>8. CASE CallRecv
  BY <1>8 DEF CallRecv, TypeOK, ListIsOpenClients
<1>9. ASSUME NEW result \in {"data", "0", "-1"}, RecvReturns(result) PROVE IInv'
  <2>1. /\ serverPc = "recv" /\ serverPc' = "getpeername"
        /\ unread' = unread \ {reading}
        /\ UNCHANGED <<main, fds, sock, read_fds, it2, wrapped, reading, addr,
                       backlog, ending>>
    BY <1>9 DEF RecvReturns
  <2>2. InputAhead'
    <3> SUFFICES ASSUME main = "running", ~wrapped, NEW j \in 1 .. Len(fds),
                        fds[j] \in read_fds, j > it2
                 PROVE  HasInput(sock[fds[j]])'
      BY <2>1
    <3>1. fds[j] # fds[it2]
      BY <2>1 DEF ListIsOpenClients, NoDuplicates
    <3>2. sock[fds[j]] # reading
      BY <2>1, <3>1 DEF ListIsOpenClients
    <3>3. HasInput(sock[fds[j]])
      BY <2>1
    <3> QED
      BY <2>1, <3>2, <3>3
  <2> QED
    BY <2>1, <2>2 DEF ListIsOpenClients
<1>10. CASE Getpeername
  BY <1>10 DEF Getpeername, PeerOf, TypeOK, ListIsOpenClients
<1>11. CASE Disconnected
  <2>1. /\ serverPc = "handle" /\ serverPc' = "round"
        /\ sock' = [sock EXCEPT ![fds[it2]] = NoClient]
        /\ fds' = RemoveAt(fds, it2)
        /\ it2' = IF it2 = Len(fds) THEN 1 ELSE it2 + 1
        /\ wrapped' = (wrapped \/ it2 = Len(fds))
        /\ UNCHANGED <<main, read_fds, backlog, unread, ending>>
    BY <1>11 DEF Disconnected, DropAndMoveTo
  <2>2. it2 \in 1 .. Len(fds)
    BY <2>1
  <2>3. /\ fds' \in Seq(Fds) /\ Len(fds') = Len(fds) - 1
        /\ \A j \in 1 .. Len(fds) - 1 :
             fds'[j] = IF j < it2 THEN fds[j] ELSE fds[j + 1]
    BY <2>1, <2>2, RemoveAtFacts
  <2>4. /\ sock'[fds[it2]] = NoClient
        /\ \A fd \in Fds : fd # fds[it2] => sock'[fd] = sock[fd]
    BY <2>1, <2>2 DEF TypeOK
  <2>5. OneConnection'
    <3>1. \A fd \in Fds : sock'[fd] # NoClient => sock'[fd] = sock[fd]
      BY <2>4
    <3>2. \A c \in backlog : c # NoClient
      BY SelectAssumption DEF TypeOK
    <3>3. \A fd, gd \in Fds : sock'[fd] = sock'[gd] => fd = gd \/ sock'[fd] = NoClient
      BY <3>1
    <3>4. \A fd \in Fds : sock'[fd] \notin backlog'
      BY <2>1, <3>1, <3>2
    <3> QED
      BY <3>3, <3>4
  <2>6. CASE main = "running"
    <3>1. \A i, j \in 1 .. Len(fds) : fds[i] = fds[j] => i = j
      BY <2>6 DEF ListIsOpenClients, NoDuplicates
    <3>2. NoDuplicates(fds')
      BY <2>2, <2>3, <3>1 DEF NoDuplicates
    <3>3. Range(fds') = {fds'[j] : j \in 1 .. Len(fds')}
      BY <2>3, RangeFacts
    <3>4. \A fd \in Fds : fd \in Range(fds') <=> fd \in Range(fds) /\ fd # fds[it2]
      <4>1. ASSUME NEW j \in 1 .. Len(fds')
            PROVE  fds'[j] \in Range(fds) /\ fds'[j] # fds[it2]
        BY <2>2, <2>3, <3>1
      <4>2. ASSUME NEW i \in 1 .. Len(fds), i # it2
            PROVE  \E j \in 1 .. Len(fds') : fds'[j] = fds[i]
        <5>1. CASE i < it2
          BY <2>2, <2>3, <5>1
        <5>2. CASE i > it2
          <6>1. i - 1 \in 1 .. Len(fds') /\ ~(i - 1 < it2) /\ (i - 1) + 1 = i
            BY <2>2, <2>3, <5>2
          <6> QED
            BY <2>3, <6>1
        <5> QED
          BY <2>2, <4>2, <5>1, <5>2
      <4>3. Range(fds) = {fds[i] : i \in 1 .. Len(fds)}
        BY RangeFacts
      <4>4. ASSUME NEW fd \in Fds, fd \in Range(fds')
            PROVE  fd \in Range(fds) /\ fd # fds[it2]
        BY <3>3, <4>1, <4>4
      <4>5. ASSUME NEW fd \in Fds, fd \in Range(fds), fd # fds[it2]
            PROVE  fd \in Range(fds')
        <5>1. PICK i \in 1 .. Len(fds) : fds[i] = fd
          BY <4>3, <4>5
        <5>2. i # it2
          BY <4>5, <5>1
        <5> QED
          BY <3>3, <4>2, <5>1, <5>2
      <4> QED
        BY <4>4, <4>5
    <3>5. Range(fds') = {fd \in Fds : sock'[fd] # NoClient}
      <4>1. Range(fds') \subseteq Fds
        BY <2>3, <3>3
      <4> QED
        BY <2>4, <2>6, <3>4, <4>1 DEF ListIsOpenClients
    <3>6. InputAhead'
      <4> SUFFICES ASSUME ~wrapped', NEW j \in 1 .. Len(fds'), fds'[j] \in read_fds,
                          j >= it2'
                   PROVE  HasInput(sock[fds[j]])'
        BY <2>1, <2>2, <2>3, <2>6
      <4>1. ~wrapped /\ it2' = it2 + 1
        BY <2>1 DEF TypeOK
      <4>2. j + 1 \in 1 .. Len(fds) /\ j + 1 > it2 /\ fds'[j] = fds[j + 1]
        BY <2>2, <2>3, <4>1
      <4>3. HasInput(sock[fds[j + 1]]) /\ fds[j + 1] # fds[it2]
        BY <2>1, <2>2, <2>6, <3>1, <4>1, <4>2
      <4> QED
        BY <2>1, <2>4, <4>2, <4>3
    <3> QED
      BY <2>1, <2>5, <2>6, <3>2, <3>5, <3>6 DEF ListIsOpenClients
  <2>7. CASE main # "running"
    BY <2>1, <2>5, <2>7 DEF ListIsOpenClients
  <2> QED
    BY <2>6, <2>7
<1>12. CASE HandleAndEcho
  BY <1>12 DEF HandleAndEcho, HandleAndMoveTo, ForgetResult, TypeOK, ListIsOpenClients
<1>13. CASE CallStop
  BY <1>13 DEF CallStop, TypeOK, ListIsOpenClients
<1>14. CASE CloseNext
  BY <1>14 DEF CloseNext, TypeOK, ListIsOpenClients
<1>15. CASE CloseDangling
  BY <1>15 DEF CloseDangling, TypeOK, ListIsOpenClients
<1>16. CASE SendExit
  BY <1>16 DEF SendExit, TypeOK, ListIsOpenClients
<1>17. CASE Join
  BY <1>17 DEF Join, TypeOK, ListIsOpenClients
<1>18. CASE HandleExit
  BY <1>18 DEF HandleExit, TypeOK, ListIsOpenClients
<1>19. ASSUME NEW c \in Clients, Connect(c) PROVE IInv'
  BY <1>19 DEF Connect, TypeOK, ListIsOpenClients
<1>20. ASSUME NEW c \in Clients, SendText(c) PROVE IInv'
  BY <1>20 DEF SendText, Connected, TypeOK, ListIsOpenClients
<1>21. ASSUME NEW c \in Clients, End(c) PROVE IInv'
  BY <1>21 DEF End, Connected, TypeOK, ListIsOpenClients
<1>22. CASE UNCHANGED vars
  BY <1>22 DEF vars, TypeOK, ListIsOpenClients
<1> QED
  BY <1>1, <1>2, <1>3, <1>4, <1>5, <1>6, <1>7, <1>8, <1>9, <1>10, <1>11, <1>12,
     <1>13, <1>14, <1>15, <1>16, <1>17, <1>18, <1>19, <1>20, <1>21, <1>22
  DEF Next, ServerThread, Owner

\* The inductive invariant.
THEOREM Invariance == Spec => []IInv
<1>1. IInv => TypeOK /\ AtElement
  BY DEF IInv
<1> QED
  BY <1>1, IInvInit, IInvStep, PTL DEF Spec

-----------------------------------------------------------------------------
(* What follows from it. *)

\* The variables keep their types; in particular the iterator stays in the list.
THEOREM TypeCorrect == Spec => []TypeOK
<1>1. IInv => TypeOK
  BY DEF IInv
<1> QED
  BY <1>1, Invariance, PTL

\* Each open client descriptor is in the list once, and no closed one is.
THEOREM ListAgrees == Spec => []ListIsOpenClients
<1>1. IInv => ListIsOpenClients
  BY DEF IInv
<1> QED
  BY <1>1, Invariance, PTL

\* The server thread waits in recv() only after the iterator passed end().
THEOREM RecvHasInput == Spec => []BlockedOnlyPastEnd
<1>1. IInv => BlockedOnlyPastEnd
  BY DEF IInv
<1> QED
  BY <1>1, Invariance, PTL

\* The handler is given the port of the client that sent the text.
THEOREM PortIsTheSenders == Spec => []HandledUnderItsPort
<1>1. IInv => HandledUnderItsPort
  BY DEF IInv
<1> QED
  BY <1>1, Invariance, PTL
=============================================================================
