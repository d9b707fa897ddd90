--------------------------- MODULE TcpServerProofs ---------------------------
(***************************************************************************)
(* Theorems about TcpServer for any set of peers and any MAX_CLIENT_NUM:   *)
(* the accounting of sessions, descriptors and slots.                      *)
(***************************************************************************)
EXTENDS TcpServer, FiniteSetTheorems, SequenceTheorems, TLAPS

-----------------------------------------------------------------------------
(* What holds between the phases of the loop.                               *)

(* A slot is cleared or in use, and a session in use is active or dead. *)
SlotsClean ==
  \A i \in Slot : IF Used(i) THEN client[i].bIsActive \in {1, -1} ELSE client[i] = Cleared

(* Until the sessions are reaped, what select reported is still what the    *)
(* descriptors stand for; a newcomer it reported is still in the backlog.   *)
SelectStillHolds ==
  /\ pc \in {"accept", "serve"} => \A f \in readSet \ {MySocket} : conn[f] \in reported
  /\ pc = "accept" /\ MySocket \in readSet => backlog # << >>

(* No dead session is left behind by the reaping loop. *)
ReapedSoFar ==
  /\ pc \in {"select", "accept"} => \A i \in Slot : ~Dead(i)
  /\ pc = "serve" => \A i \in Slot : i >= slot => ~Dead(i)
  /\ pc = "reap" => \A i \in Slot : i < slot => ~Dead(i)

ServerInv ==
  /\ TypeOK /\ SlotsClean /\ SelectStillHolds /\ ReapedSoFar
  /\ SessionsCounted /\ SocketsOwned

-----------------------------------------------------------------------------
LEMMA SlotFacts ==
  /\ IsFiniteSet(Slot) /\ Cardinality(Slot) = MaxClientNum
  /\ MySocket \notin Fd /\ NoSock \notin Fd
  /\ 1 \in Slot
  /\ \A i \in Slot : i < MaxClientNum => i + 1 \in Slot
BY FS_Interval, MaxClientNumAssumption DEF Slot, Fd, MySocket, NoSock

LEMMA UsedSlotsFinite ==
  /\ IsFiniteSet(UsedSlots)
  /\ Cardinality(UsedSlots) \in Nat /\ Cardinality(UsedSlots) <= MaxClientNum
<1>1. UsedSlots \in SUBSET Slot
  BY DEF UsedSlots
<1> QED
  BY <1>1, SlotFacts, FS_Subset, FS_CardinalityType

LEMMA ServerInit == Init => ServerInv
<1> SUFFICES ASSUME Init PROVE ServerInv
  OBVIOUS
<1> USE DEF Init
<1>1. UsedSlots = {} /\ \A i \in Slot : client[i] = Cleared
  BY DEF UsedSlots, Used, Cleared
<1>2. TypeOK
  <2>1. Cleared \in [sock : Fd \cup {NoSock}, bUse : {0, 1}, bIsActive : {-1, 0, 1}]
    BY DEF Cleared
  <2>2. client \in [Slot -> [sock : Fd \cup {NoSock}, bUse : {0, 1}, bIsActive : {-1, 0, 1}]]
    BY <2>1
  <2>3. clientNum \in 0 .. MaxClientNum /\ slot \in Slot
    BY SlotFacts, MaxClientNumAssumption
  <2>4. backlog \in Seq(Peer)
    OBVIOUS
  <2>5. /\ conn \in [Fd -> Peer \cup {NoPeer}]
        /\ unread \in [Peer -> BOOLEAN] /\ ended \in [Peer -> {"no", "eof", "reset"}]
    OBVIOUS
  <2>6. /\ readSet \subseteq Fd \cup {MySocket} /\ reported \subseteq Peer
        /\ unanswered \subseteq Peer /\ interrupted \in BOOLEAN
        /\ pc \in {"select", "accept", "serve", "reap"} /\ errno \in {"retry", "other"}
    OBVIOUS
  <2> QED
    BY <2>2, <2>3, <2>4, <2>5, <2>6, Zenon DEF TypeOK
<1>3. SessionsCounted
  BY <1>1, FS_EmptySet DEF SessionsCounted
<1>4. SocketsOwned
  BY <1>1 DEF SocketsOwned
<1>5. SlotsClean /\ SelectStillHolds /\ ReapedSoFar
  BY <1>1 DEF SlotsClean, SelectStillHolds, ReapedSoFar, Used, Cleared, Dead
<1> QED
  BY <1>2, <1>3, <1>4, <1>5 DEF ServerInv

(* The peers touch nothing the accounting is about. *)
LEMMA PeersKeep == ServerInv /\ Peers => ServerInv'
<1> SUFFICES ASSUME ServerInv, NEW p \in Peer,
                    Connect(p) \/ Send(p) \/ Finish(p) \/ Reset(p)
             PROVE  ServerInv'
  BY DEF Peers
<1> USE DEF ServerInv
<1>1. /\ client' = client /\ clientNum' = clientNum /\ conn' = conn
      /\ readSet' = readSet /\ pc' = pc /\ slot' = slot /\ reported' = reported
  BY DEF Connect, Send, Finish, Reset, server, loop
<1>2. backlog' = backlog \/ backlog' = Append(backlog, p)
  BY DEF Connect, Send, Finish, Reset
<1>3. backlog' \in Seq(Peer) /\ (backlog # << >> => backlog' # << >>)
  BY <1>2 DEF TypeOK
<1>4. TypeOK'
  BY <1>1, <1>3 DEF Connect, Send, Finish, Reset, TypeOK, errors, loop, server
<1>5. SlotsClean' /\ SessionsCounted' /\ SocketsOwned' /\ ReapedSoFar' /\ SelectStillHolds'
  BY <1>1, <1>3 DEF SlotsClean, SessionsCounted, SocketsOwned, ReapedSoFar, SelectStillHolds,
       Used, UsedSlots, Dead
<1> QED
  BY <1>4, <1>5

-----------------------------------------------------------------------------
(* The main loop, phase by phase *)

LEMMA SelectKeeps == ServerInv /\ (SelectReturns \/ SelectFails) => ServerInv'
<1> SUFFICES ASSUME ServerInv, SelectReturns \/ SelectFails PROVE ServerInv'
  OBVIOUS
<1> USE DEF ServerInv
<1>1. CASE SelectReturns
  <2>1. \A f \in Watched \ {MySocket} : f \in Fd /\ conn[f] \in Peer
    BY SlotFacts DEF Watched, UsedSlots, SocketsOwned, TypeOK
  <2>2. readSet' \subseteq Watched /\ reported' = {conn[f] : f \in readSet' \ {MySocket}}
    BY <1>1 DEF SelectReturns
  <2>3. TypeOK'
    BY <1>1, <2>1, <2>2 DEF SelectReturns, TypeOK, server, kernel, errors
  <2>4. SelectStillHolds'
    BY <1>1, <2>2 DEF SelectReturns, SelectStillHolds, Readable, kernel
  <2>5. SlotsClean' /\ SessionsCounted' /\ SocketsOwned' /\ ReapedSoFar'
    BY <1>1 DEF SelectReturns, SlotsClean, SessionsCounted, SocketsOwned, ReapedSoFar, Used,
         UsedSlots, Dead, server, kernel
  <2> QED
    BY <2>3, <2>4, <2>5
<1>2. CASE SelectFails
  <2>1. TypeOK'
    BY <1>2 DEF SelectFails, SetErrno, TypeOK, server, kernel, loop
  <2>2. /\ SlotsClean' /\ SessionsCounted' /\ SocketsOwned' /\ ReapedSoFar'
        /\ SelectStillHolds'
    BY <1>2 DEF SelectFails, SlotsClean, SessionsCounted, SocketsOwned, ReapedSoFar,
         SelectStillHolds, Used, UsedSlots, Dead, server, kernel, loop
  <2> QED
    BY <2>1, <2>2
<1> QED
  BY <1>1, <1>2

(* A newcomer that gets no session changes only the backlog. *)
LEMMA TurnedAwayKeeps == ServerInv /\ (NoNewcomer \/ AcceptFails \/ Refuse) => ServerInv'
<1> SUFFICES ASSUME ServerInv, NoNewcomer \/ AcceptFails \/ Refuse PROVE ServerInv'
  OBVIOUS
<1> USE DEF ServerInv
<1>1. /\ client' = client /\ clientNum' = clientNum /\ conn' = conn
      /\ unread' = unread /\ ended' = ended /\ unanswered' = unanswered
      /\ readSet' = readSet /\ reported' = reported
      /\ pc = "accept" /\ pc' = "serve" /\ slot' = 1
  BY DEF NoNewcomer, AcceptFails, Refuse, ThenServe, server, kernel
<1>2. backlog' \in Seq(Peer)
  <2>1. backlog \in Seq(Peer)
    BY DEF TypeOK
  <2>2. CASE NoNewcomer
    BY <2>1, <2>2 DEF NoNewcomer, kernel
  <2>3. CASE AcceptFails \/ Refuse
    <3>1. backlog' = Tail(backlog) /\ pc = "accept" /\ MySocket \in readSet
      BY <2>3 DEF AcceptFails, Refuse
    <3>2. backlog # << >>
      BY <3>1 DEF SelectStillHolds
    <3> QED
      BY <2>1, <3>1, <3>2, HeadTailProperties
  <2> QED
    BY <2>2, <2>3
<1>3. errno' \in {"retry", "other"} /\ interrupted' \in BOOLEAN
  BY DEF NoNewcomer, AcceptFails, Refuse, SetErrno, errors, TypeOK
<1>4. TypeOK'
  BY <1>1, <1>2, <1>3, SlotFacts DEF TypeOK
<1>5. SlotsClean' /\ SessionsCounted' /\ SocketsOwned' /\ ReapedSoFar' /\ SelectStillHolds'
  BY <1>1 DEF SlotsClean, SessionsCounted, SocketsOwned, ReapedSoFar, SelectStillHolds, Used,
       UsedSlots, Dead
<1> QED
  BY <1>4, <1>5

LEMMA SessionKeeps == ServerInv /\ AcceptSession => ServerInv'
<1> SUFFICES ASSUME ServerInv, AcceptSession PROVE ServerInv'
  OBVIOUS
<1> USE DEF ServerInv
<1>1. PICK i \in Slot, f \in Fd :
        /\ ~Used(i) /\ conn[f] = NoPeer
        /\ conn' = [conn EXCEPT ![f] = Head(backlog)]
        /\ client' = [client EXCEPT ![i] = [sock |-> f, bUse |-> 1, bIsActive |-> 1]]
  BY DEF AcceptSession, FirstFree, LowestFree
<1>2. /\ readSet' = readSet /\ reported' = reported /\ clientNum' = clientNum + 1
      /\ pc = "accept" /\ pc' = "serve" /\ slot' = 1 /\ backlog # << >>
  BY DEF AcceptSession, ThenServe, SelectStillHolds
<1>3. Head(backlog) \in Peer /\ Head(backlog) # NoPeer /\ backlog' \in Seq(Peer)
  BY <1>2, NoPeerAssumption DEF AcceptSession, TypeOK
<1>4. UsedSlots' = UsedSlots \cup {i} /\ i \notin UsedSlots
  BY <1>1 DEF UsedSlots, Used, TypeOK
<1>5. SessionsCounted'
  BY <1>2, <1>4, UsedSlotsFinite, FS_AddElement DEF SessionsCounted
<1>6. clientNum' \in 0 .. MaxClientNum
  <2>1. UsedSlots' \in SUBSET Slot
    BY DEF UsedSlots
  <2>2. Cardinality(UsedSlots') \in Nat /\ Cardinality(UsedSlots') <= MaxClientNum
    BY <2>1, SlotFacts, FS_Subset, FS_CardinalityType
  <2> QED
    BY <1>5, <2>2, MaxClientNumAssumption DEF SessionsCounted
<1>7. TypeOK'
  <2>1. client' \in [Slot -> [sock : Fd \cup {NoSock}, bUse : {0, 1}, bIsActive : {-1, 0, 1}]]
    BY <1>1 DEF TypeOK
  <2>2. conn' \in [Fd -> Peer \cup {NoPeer}]
    BY <1>1, <1>3 DEF TypeOK
  <2> QED
    BY <1>2, <1>3, <1>6, <2>1, <2>2, SlotFacts DEF AcceptSession, TypeOK, errors
<1>8. \A j \in UsedSlots : client[j].sock \in Fd /\ client[j].sock # f /\ j # i
  BY <1>1 DEF SocketsOwned, UsedSlots
<1>9. \A j \in Slot : client'[j] = IF j = i THEN [sock |-> f, bUse |-> 1, bIsActive |-> 1]
                                             ELSE client[j]
  BY <1>1 DEF TypeOK
<1>10. SocketsOwned'
  <2>1. \A j \in UsedSlots' : client'[j].sock \in Fd /\ conn'[client'[j].sock] # NoPeer
    BY <1>1, <1>3, <1>4, <1>8, <1>9 DEF SocketsOwned, UsedSlots, TypeOK
  <2>2. \A j, k \in UsedSlots' : client'[j].sock = client'[k].sock => j = k
    BY <1>4, <1>8, <1>9 DEF SocketsOwned, UsedSlots
  <2>3. \A g \in Fd : conn'[g] # NoPeer => \E j \in UsedSlots' : client'[j].sock = g
    <3> SUFFICES ASSUME NEW g \in Fd, conn'[g] # NoPeer
                 PROVE  \E j \in UsedSlots' : client'[j].sock = g
      OBVIOUS
    <3>1. CASE g = f
      BY <1>4, <1>9, <3>1
    <3>2. CASE g # f
      <4>1. PICK j \in UsedSlots : client[j].sock = g
        BY <1>1, <3>2 DEF SocketsOwned, TypeOK
      <4> QED
        BY <1>4, <1>8, <1>9, <4>1 DEF UsedSlots
    <3> QED
      BY <3>1, <3>2
  <2> QED
    BY <2>1, <2>2, <2>3 DEF SocketsOwned
<1>11. SelectStillHolds'
  <2>1. \A g \in readSet \ {MySocket} : g \in Fd /\ g # f /\ conn[g] \in reported
    BY <1>1, <1>2, NoPeerAssumption DEF SelectStillHolds, TypeOK
  <2>2. \A g \in readSet \ {MySocket} : conn'[g] \in reported
    BY <1>1, <2>1 DEF TypeOK
  <2> QED
    BY <1>2, <2>2 DEF SelectStillHolds
<1>12. SlotsClean' /\ ReapedSoFar'
  BY <1>2, <1>9 DEF SlotsClean, ReapedSoFar, Used, Dead
<1> QED
  BY <1>5, <1>7, <1>10, <1>11, <1>12

LEMMA ServeKeeps ==
  ServerInv /\ (SkipSlot \/ incomingConnectionHandlerClient) => ServerInv'
<1> SUFFICES ASSUME ServerInv, SkipSlot \/ incomingConnectionHandlerClient PROVE ServerInv'
  OBVIOUS
<1> USE DEF ServerInv
<1>1. /\ clientNum' = clientNum /\ conn' = conn /\ ended' = ended /\ backlog' = backlog
      /\ pc = "serve" /\ readSet' = readSet /\ reported' = reported
      /\ slot' \in Slot /\ pc' \in {"serve", "reap"}
      /\ pc' = "serve" => slot' = slot + 1
      /\ pc' = "reap" => slot' = 1
      /\ Reported(slot) \/ client' = client
  BY SlotFacts DEF SkipSlot, incomingConnectionHandlerClient, RecvRetry, RecvEnds, Answer,
       AnswerFails, ThenNextSlot, server, kernel, TypeOK
<1>2. client' = client \/ client' = [client EXCEPT ![slot].bIsActive = -1]
  BY DEF SkipSlot, incomingConnectionHandlerClient, RecvRetry, RecvEnds, Answer, AnswerFails,
       MarkDead, server, TypeOK
<1>3. /\ \A i \in Slot : /\ client'[i].sock = client[i].sock
                         /\ client'[i].bUse = client[i].bUse
                         /\ i # slot => client'[i] = client[i]
      /\ client'[slot] = client[slot] \/ (Used(slot) /\ client'[slot].bIsActive = -1)
  <2>1. slot \in Slot
    BY DEF TypeOK
  <2>2. CASE client' = client
    BY <2>1, <2>2
  <2>3. CASE client' # client
    <3>1. client' = [client EXCEPT ![slot].bIsActive = -1] /\ Used(slot)
      BY <1>1, <1>2, <2>3 DEF Reported
    <3>2. client \in [Slot -> [sock : Fd \cup {NoSock}, bUse : {0, 1}, bIsActive : {-1, 0, 1}]]
      BY DEF TypeOK
    <3> QED
      BY <2>1, <3>1, <3>2
  <2> QED
    BY <2>2, <2>3
<1>4. UsedSlots' = UsedSlots
  BY <1>3 DEF UsedSlots, Used
<1>5. TypeOK'
  <2>1. client' \in [Slot -> [sock : Fd \cup {NoSock}, bUse : {0, 1}, bIsActive : {-1, 0, 1}]]
    BY <1>2 DEF TypeOK
  <2>2. unread' \in [Peer -> BOOLEAN]
    BY DEF SkipSlot, incomingConnectionHandlerClient, RecvRetry, RecvEnds, Answer, AnswerFails,
         kernel, TypeOK
  <2>3. errno' \in {"retry", "other"} /\ interrupted' \in BOOLEAN
    BY DEF SkipSlot, incomingConnectionHandlerClient, RecvRetry, RecvEnds, Answer, AnswerFails,
         SetErrno, errors, TypeOK
  <2>4. unanswered' \subseteq Peer
    <3>1. Reported(slot) => Caller \in Peer
      BY DEF Reported, UsedSlots, SocketsOwned, TypeOK, Caller
    <3> QED
      BY <3>1 DEF SkipSlot, incomingConnectionHandlerClient, RecvRetry, RecvEnds, Answer,
           AnswerFails, TypeOK
  <2> QED
    BY <1>1, <2>1, <2>2, <2>3, <2>4 DEF TypeOK
<1>6. SessionsCounted' /\ SocketsOwned'
  <2>1. \A i \in UsedSlots : client'[i].sock = client[i].sock
    BY <1>3 DEF UsedSlots
  <2>2. SessionsCounted'
    BY <1>1, <1>4 DEF SessionsCounted
  <2>3. SocketsOwned'
    BY <1>1, <1>4, <2>1 DEF SocketsOwned
  <2> QED
    BY <2>2, <2>3
<1>7. SlotsClean' /\ SelectStillHolds'
  BY <1>1, <1>3 DEF SlotsClean, SelectStillHolds, Used
<1>8. ReapedSoFar'
  <2>1. slot \in Int /\ \A i \in Slot : i \in Int /\ i >= 1
    BY DEF TypeOK, Slot
  <2> QED
    BY <1>1, <1>3, <2>1 DEF ReapedSoFar, Dead
<1> QED
  BY <1>5, <1>6, <1>7, <1>8

LEMMA ReapKeeps == ServerInv /\ (KeepSession \/ DestroyClientSession) => ServerInv'
<1> SUFFICES ASSUME ServerInv, KeepSession \/ DestroyClientSession PROVE ServerInv'
  OBVIOUS
<1> USE DEF ServerInv
<1>1. /\ pc = "reap" /\ readSet' = readSet /\ reported' = reported
      /\ backlog' = backlog /\ unread' = unread /\ ended' = ended
      /\ errno' = errno /\ interrupted' = interrupted
      /\ slot \in Slot /\ slot' \in Slot /\ pc' \in {"select", "reap"}
      /\ pc' = "reap" => slot' = slot + 1
      /\ pc' = "select" => slot = MaxClientNum
  BY SlotFacts, MaxClientNumAssumption
     DEF KeepSession, DestroyClientSession, ThenNextReap, kernel, errors, TypeOK, Slot
<1>2. \A i \in Slot : i \in Int /\ i <= MaxClientNum
  BY MaxClientNumAssumption DEF Slot
<1>3. CASE KeepSession
  <2>1. client' = client /\ clientNum' = clientNum /\ conn' = conn /\ unanswered' = unanswered
    BY <1>3 DEF KeepSession, server, kernel
  <2>2. TypeOK'
    BY <1>1, <2>1 DEF TypeOK
  <2>3. ReapedSoFar'
    BY <1>1, <1>2, <1>3, <2>1, MaxClientNumAssumption DEF ReapedSoFar, Dead, KeepSession
  <2>4. SlotsClean' /\ SessionsCounted' /\ SocketsOwned' /\ SelectStillHolds'
    BY <1>1, <2>1 DEF SlotsClean, SessionsCounted, SocketsOwned, SelectStillHolds, Used,
         UsedSlots
  <2> QED
    BY <2>2, <2>3, <2>4
<1>4. CASE DestroyClientSession
  <2>1. /\ Used(slot) /\ slot \in UsedSlots
        /\ client' = [client EXCEPT ![slot] = Cleared]
        /\ conn' = [conn EXCEPT ![client[slot].sock] = NoPeer]
    BY <1>1, <1>4 DEF DestroyClientSession, UsedSlots
  <2>2. UsedSlots' = UsedSlots \ {slot}
    BY <2>1 DEF UsedSlots, Used, Cleared, TypeOK
  <2>3. Cardinality(UsedSlots) \in Nat /\ Cardinality(UsedSlots) # 0
    BY <2>1, UsedSlotsFinite, FS_EmptySet
  <2>4. SessionsCounted' /\ clientNum' \in 0 .. MaxClientNum
    <3>1. Cardinality(UsedSlots') = Cardinality(UsedSlots) - 1
      BY <2>1, <2>2, UsedSlotsFinite, FS_RemoveElement
    <3>2. clientNum' = clientNum - 1
      BY <1>4, <2>3 DEF DestroyClientSession, SessionsCounted
    <3> QED
      BY <2>3, <3>1, <3>2, MaxClientNumAssumption DEF SessionsCounted, TypeOK
  <2>5. TypeOK'
    <3>1. Cleared \in [sock : Fd \cup {NoSock}, bUse : {0, 1}, bIsActive : {-1, 0, 1}]
      BY DEF Cleared
    <3>2. client' \in [Slot -> [sock : Fd \cup {NoSock}, bUse : {0, 1}, bIsActive : {-1, 0, 1}]]
      BY <2>1, <3>1 DEF TypeOK
    <3>3. conn' \in [Fd -> Peer \cup {NoPeer}]
      BY <2>1 DEF TypeOK
    <3>4. unanswered' \subseteq Peer
      BY <1>4 DEF DestroyClientSession, TypeOK
    <3> QED
      BY <1>1, <2>4, <3>2, <3>3, <3>4 DEF TypeOK
  <2>6. \A j \in Slot : client'[j] = IF j = slot THEN Cleared ELSE client[j]
    BY <2>1 DEF TypeOK
  <2>7. SocketsOwned'
    <3>1. \A j \in UsedSlots' : /\ j \in UsedSlots /\ j # slot /\ client'[j] = client[j]
                                /\ client[j].sock # client[slot].sock
      BY <2>1, <2>2, <2>6 DEF SocketsOwned, UsedSlots
    <3>2. \A j \in UsedSlots' : client'[j].sock \in Fd /\ conn'[client'[j].sock] # NoPeer
      BY <2>1, <3>1 DEF SocketsOwned, TypeOK
    <3>3. \A g \in Fd : conn'[g] # NoPeer => conn[g] # NoPeer /\ g # client[slot].sock
      BY <2>1 DEF SocketsOwned, TypeOK
    <3>4. \A g \in Fd : conn'[g] # NoPeer => \E j \in UsedSlots' : client'[j].sock = g
      <4> SUFFICES ASSUME NEW g \in Fd, conn'[g] # NoPeer
                   PROVE  \E j \in UsedSlots' : client'[j].sock = g
        OBVIOUS
      <4>1. PICK j \in UsedSlots : client[j].sock = g
        BY <3>3 DEF SocketsOwned
      <4>2. j \in UsedSlots'
        BY <2>2, <3>3, <4>1
      <4> QED
        BY <3>1, <4>1, <4>2
    <3>5. \A j, k \in UsedSlots' : client'[j].sock = client'[k].sock => j = k
      BY <3>1 DEF SocketsOwned
    <3> QED
      BY <3>2, <3>4, <3>5 DEF SocketsOwned
  <2>8. SlotsClean' /\ SelectStillHolds'
    BY <1>1, <2>6 DEF SlotsClean, SelectStillHolds, Used, Cleared
  <2>9. ReapedSoFar'
    <3>1. \A j \in Slot : Dead(j)' => Dead(j) /\ j # slot
      BY <2>6 DEF Dead, Cleared
    <3> QED
      BY <1>1, <1>2, <3>1, MaxClientNumAssumption DEF ReapedSoFar
  <2> QED
    BY <2>4, <2>5, <2>7, <2>8, <2>9
<1> QED
  BY <1>3, <1>4

LEMMA ServerInvariant == Spec => []ServerInv
<1>1. ServerInv /\ [Next]_vars => ServerInv'
  <2>1. ServerInv /\ UNCHANGED vars => ServerInv'
    BY DEF ServerInv, TypeOK, SlotsClean, SelectStillHolds, ReapedSoFar, SessionsCounted,
         SocketsOwned, Used, UsedSlots, Dead, vars
  <2> QED
    BY <2>1, PeersKeep, SelectKeeps, TurnedAwayKeeps, SessionKeeps, ServeKeeps, ReapKeeps
       DEF Next, Server, incomingConnectionHandler
<1> QED
  BY <1>1, ServerInit, PTL DEF Spec

(* Every variable of the server and of the kernel keeps its type. *)
THEOREM TypeCorrect == Spec => []TypeOK
<1>1. ServerInv => TypeOK
  BY DEF ServerInv
<1> QED
  BY <1>1, ServerInvariant, PTL

(* clientNum always is the number of sessions in use. *)
THEOREM CountIsExact == Spec => []SessionsCounted
<1>1. ServerInv => SessionsCounted
  BY DEF ServerInv
<1> QED
  BY <1>1, ServerInvariant, PTL

(* Sessions and open connections are in one-to-one correspondence. *)
THEOREM NoSocketLeaks == Spec => []SocketsOwned
<1>1. ServerInv => SocketsOwned
  BY DEF ServerInv
<1> QED
  BY <1>1, ServerInvariant, PTL

(* The handler only reads from sessions that select has reported. *)
THEOREM ReadinessIsCurrent == Spec => []ServesReported
<1>1. ServerInv => ServesReported
  BY SlotFacts DEF ServerInv, ServesReported, SelectStillHolds, SocketsOwned, Reported, UsedSlots
<1> QED
  BY <1>1, ServerInvariant, PTL

(* No dead session survives the pass that found it dead. *)
THEOREM DeadAreReaped == Spec => []NoneDeadAtSelect
<1>1. ServerInv => NoneDeadAtSelect
  BY DEF ServerInv, NoneDeadAtSelect, ReapedSoFar, SlotsClean, Used, Dead, Cleared
<1> QED
  BY <1>1, ServerInvariant, PTL

-----------------------------------------------------------------------------
(* What errno holds when comm_tcp_write has timed out is some call's         *)
ErrnoInv ==
  /\ errno = "retry" => interrupted
  /\ AnsweredUnlessInterrupted

LEMMA ErrnoKept == ErrnoInv /\ [Next]_vars => ErrnoInv'
<1> SUFFICES ASSUME ErrnoInv, [Next]_vars PROVE ErrnoInv'
  OBVIOUS
<1> USE DEF ErrnoInv, AnsweredUnlessInterrupted
<1>1. CASE Peers
  BY <1>1 DEF Peers, Connect, Send, Finish, Reset, errors
<1>2. CASE SelectReturns \/ SelectFails
  BY <1>2 DEF SelectReturns, SelectFails, SetErrno, errors
<1>3. CASE NoNewcomer \/ incomingConnectionHandler
  BY <1>3 DEF NoNewcomer, incomingConnectionHandler, AcceptFails, Refuse, AcceptSession,
              SetErrno, errors
<1>4. CASE SkipSlot \/ RecvRetry \/ RecvEnds
  BY <1>4 DEF SkipSlot, RecvRetry, RecvEnds, SetErrno, errors
<1>5. CASE Answer
  BY <1>5 DEF Answer, errors
<1>6. CASE AnswerFails
  <2>1. (errno' = "retry" => interrupted') /\ (interrupted => interrupted')
    <3>1. CASE UNCHANGED errors
      BY <3>1 DEF errors
    <3>2. ASSUME NEW e \in {"retry", "other"}, SetErrno(e)
          PROVE  (errno' = "retry" => interrupted') /\ (interrupted => interrupted')
      BY <3>2 DEF SetErrno
    <3> QED BY <1>6, <3>1, <3>2 DEF AnswerFails
  <2>2. CASE errno' = "retry"
    BY <2>1, <2>2
  <2>3. CASE errno' # "retry"
    BY <1>6, <2>1, <2>3 DEF AnswerFails
  <2> QED BY <2>2, <2>3
<1>7. CASE KeepSession \/ DestroyClientSession
  BY <1>7 DEF KeepSession, DestroyClientSession, errors
<1>8. CASE UNCHANGED vars
  BY <1>8 DEF vars
<1> QED BY <1>1, <1>2, <1>3, <1>4, <1>5, <1>6, <1>7, <1>8
        DEF Next, Server, incomingConnectionHandlerClient

(* A request gets no reply on a session that is kept only after some call   *)
(* has been interrupted: the time-out of comm_tcp_write sets no errno, so   *)
(* the value its caller looks at is one that SetErrno has left.             *)
THEOREM AnswersGoMissingOnlyAfterRetry == Spec => []AnsweredUnlessInterrupted
<1>1. Init => ErrnoInv
  BY DEF Init, ErrnoInv, AnsweredUnlessInterrupted
<1>2. ErrnoInv => AnsweredUnlessInterrupted
  BY DEF ErrnoInv
<1> QED
  BY <1>1, <1>2, ErrnoKept, PTL DEF Spec

=============================================================================
