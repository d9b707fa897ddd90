------------------------------- MODULE TcpServer -------------------------------
(***************************************************************************)
(* server/tcp/tcp_server.cpp: one thread that selects over the listening   *)
(* socket and at most MAX_CLIENT_NUM sessions, accepts one newcomer, echoes *)
(* one read of every session select reported, and then destroys the        *)
(* sessions marked dead.  Peers connect, send, finish and reset at any      *)
(* time.  A descriptor is a number the kernel gives out again once closed. *)
(***************************************************************************)
EXTENDS Integers, Sequences, FiniteSets

CONSTANTS Peer,           \* remote ends, one connection at a time each
          Idlers,         \* bound: peers that connect and then do nothing
          MaxClientNum,   \* sessions the server keeps
          NoPeer          \* a descriptor that is not open

ASSUME MaxClientNumAssumption == MaxClientNum \in Nat \ {0}
ASSUME NoPeerAssumption == NoPeer \notin Peer

Slot == 1 .. MaxClientNum
MySocket == 1                       \* the listening descriptor
Fd == 2 .. MaxClientNum + 2         \* one more than the sessions: a newcomer has one too
NoSock == 0                         \* what memset leaves in sock

VARIABLES client,       \* the sessions: sock, bUse and bIsActive of each slot
          clientNum,    \* how many the server believes are in use
          readSet,      \* descriptors select reported readable
          pc, slot,     \* where the main loop is
          errno,        \* "retry" for EINTR or EAGAIN, "other" for anything else
          conn,         \* kernel: the peer behind each open descriptor
          backlog,      \* kernel: connections not accepted yet, oldest first
          unread,       \* kernel: bytes of the peer the server has not read
          ended,        \* kernel: the peer has finished ("eof") or "reset"
          reported,     \* history: the peers behind readSet when select returned
          interrupted,  \* history: some call has failed with EINTR or EAGAIN
          unanswered    \* history: peers whose last request got no reply

server == << client, clientNum >>
loop == << readSet, pc, slot, reported >>
kernel == << conn, backlog, unread, ended >>
errors == << errno, interrupted >>
vars == << client, clientNum, readSet, pc, slot, errno, conn, backlog, unread, ended,
           reported, interrupted, unanswered >>

Cleared == [sock |-> NoSock, bUse |-> 0, bIsActive |-> 0]

Used(i) == client[i].bUse = 1
UsedSlots == {i \in Slot : Used(i)}
Dead(i) == client[i].bIsActive = -1

Queued(p) == \E i \in 1 .. Len(backlog) : backlog[i] = p
Open(p) == \E f \in Fd : conn[f] = p

(* The kernel hands out the lowest free descriptor. *)
LowestFree(f) == conn[f] = NoPeer /\ \A g \in Fd : conn[g] = NoPeer => f <= g

Readable(f) == IF f = MySocket THEN backlog # << >>
               ELSE unread[conn[f]] \/ ended[conn[f]] # "no"

SetErrno(e) == /\ errno' = e
               /\ interrupted' = (interrupted \/ e = "retry")

-----------------------------------------------------------------------------
(* The peers *)

Connect(p) ==
  /\ ~Queued(p) /\ ~Open(p)
  /\ backlog' = Append(backlog, p)
  /\ unread' = [unread EXCEPT ![p] = FALSE]
  /\ ended' = [ended EXCEPT ![p] = "no"]
  /\ UNCHANGED << server, loop, errors, conn, unanswered >>

Send(p) ==
  /\ Queued(p) \/ Open(p)
  /\ p \notin Idlers
  /\ ended[p] = "no" /\ ~unread[p]
  /\ unread' = [unread EXCEPT ![p] = TRUE]
  /\ UNCHANGED << server, loop, errors, conn, backlog, ended, unanswered >>

Finish(p) ==
  /\ Queued(p) \/ Open(p)
  /\ p \notin Idlers
  /\ ended[p] = "no"
  /\ ended' = [ended EXCEPT ![p] = "eof"]
  /\ UNCHANGED << server, loop, errors, conn, backlog, unread, unanswered >>

Reset(p) ==
  /\ Queued(p) \/ Open(p)
  /\ p \notin Idlers
  /\ ended[p] # "reset"
  /\ ended' = [ended EXCEPT ![p] = "reset"]
  /\ UNCHANGED << server, loop, errors, conn, backlog, unread, unanswered >>

-----------------------------------------------------------------------------
(* main: select over the listening socket and the sessions in use *)

Watched == {MySocket} \cup {client[i].sock : i \in UsedSlots}

(* FD_ZERO is missing: sessions that an earlier round reported are still set *)
SelectKeepsOldSet ==
  /\ pc = "select"
  /\ readSet' = (readSet \ {MySocket}) \cup {f \in Watched : Readable(f)}
  /\ \E f \in Watched : Readable(f)
  /\ reported' = {conn[f] : f \in {g \in Watched : Readable(g)} \ {MySocket}}
  /\ pc' = "accept"
  /\ UNCHANGED << server, kernel, errors, slot, unanswered >>

SelectReturns ==
  /\ pc = "select"
  /\ readSet' = {f \in Watched : Readable(f)}
  /\ readSet' # {}
  /\ reported' = {conn[f] : f \in readSet' \ {MySocket}}
  /\ pc' = "accept"
  /\ UNCHANGED << server, kernel, errors, slot, unanswered >>

(* select fails, or is interrupted: the loop tries again *)
SelectFails ==
  /\ pc = "select"
  /\ \E e \in {"retry", "other"} : SetErrno(e)
  /\ UNCHANGED << server, kernel, loop, unanswered >>

-----------------------------------------------------------------------------
(* incomingConnectionHandler *)

ThenServe == /\ pc' = "serve"
             /\ slot' = 1
             /\ UNCHANGED << readSet, reported >>

NoNewcomer ==
  /\ pc = "accept" /\ MySocket \notin readSet
  /\ ThenServe
  /\ UNCHANGED << server, kernel, errors, unanswered >>

(* accept fails, the connection is gone *)
AcceptFails ==
  /\ pc = "accept" /\ MySocket \in readSet
  /\ ended[Head(backlog)] = "reset"
  /\ backlog' = Tail(backlog)
  /\ \E e \in {"retry", "other"} : SetErrno(e)
  /\ ThenServe
  /\ UNCHANGED << server, conn, unread, ended, unanswered >>

(* The slots are looked at before accept: the newcomer stays where it is *)
RefuseUnaccepted ==
  /\ pc = "accept" /\ MySocket \in readSet
  /\ UsedSlots = Slot
  /\ ThenServe
  /\ UNCHANGED << server, errors, kernel, unanswered >>

(* Every slot is in use: the newcomer's descriptor is opened and closed *)
Refuse ==
  /\ pc = "accept" /\ MySocket \in readSet
  /\ UsedSlots = Slot
  /\ backlog' = Tail(backlog)
  /\ ThenServe
  /\ UNCHANGED << server, errors, conn, unread, ended, unanswered >>

(* The session takes the first free slot. *)
FirstFree(i) == ~Used(i) /\ \A j \in Slot : ~Used(j) => i <= j

AcceptSession ==
  /\ pc = "accept" /\ MySocket \in readSet
  /\ \E i \in Slot, f \in Fd :
       /\ FirstFree(i) /\ LowestFree(f)
       /\ conn' = [conn EXCEPT ![f] = Head(backlog)]
       /\ client' = [client EXCEPT ![i] = [sock |-> f, bUse |-> 1, bIsActive |-> 1]]
  /\ backlog' = Tail(backlog)
  /\ clientNum' = clientNum + 1
  /\ ThenServe
  /\ UNCHANGED << errors, unread, ended, unanswered >>

incomingConnectionHandler == AcceptFails \/ Refuse \/ AcceptSession

-----------------------------------------------------------------------------
(* incomingConnectionHandlerClient, for the sessions select reported *)

Reported(i) == Used(i) /\ client[i].sock \in readSet

(* The last slot is never served *)
ThenNextSlotShort ==
  /\ IF slot < MaxClientNum - 1 THEN pc' = "serve" /\ slot' = slot + 1
                                ELSE pc' = "reap" /\ slot' = 1
  /\ UNCHANGED << readSet, reported >>

ThenNextSlot ==
  /\ IF slot < MaxClientNum THEN pc' = "serve" /\ slot' = slot + 1
                            ELSE pc' = "reap" /\ slot' = 1
  /\ UNCHANGED << readSet, reported >>

Caller == conn[client[slot].sock]

MarkDead == client' = [client EXCEPT ![slot].bIsActive = -1]

SkipSlot ==
  /\ pc = "serve" /\ ~Reported(slot)
  /\ ThenNextSlot
  /\ UNCHANGED << server, kernel, errors, unanswered >>

(* recv fails with EINTR or EAGAIN: the session waits for the next round *)
RecvRetry ==
  /\ pc = "serve" /\ Reported(slot)
  /\ SetErrno("retry")
  /\ ThenNextSlot
  /\ UNCHANGED << server, kernel, unanswered >>

(* A finished connection is left to the next round *)
RecvEndsIgnored ==
  /\ pc = "serve" /\ Reported(slot)
  /\ \/ ended[Caller] = "eof" /\ ~unread[Caller] /\ UNCHANGED errors
     \/ ended[Caller] = "reset" /\ SetErrno("other")
  /\ ThenNextSlot
  /\ UNCHANGED << server, kernel, unanswered >>

RecvEnds ==
  /\ pc = "serve" /\ Reported(slot)
  /\ \/ ended[Caller] = "eof" /\ ~unread[Caller] /\ UNCHANGED errors
     \/ ended[Caller] = "reset" /\ SetErrno("other")
  /\ MarkDead
  /\ ThenNextSlot
  /\ UNCHANGED << clientNum, kernel, unanswered >>

(* comm_tcp_write sends the whole reply *)
Answer ==
  /\ pc = "serve" /\ Reported(slot) /\ unread[Caller]
  /\ unread' = [unread EXCEPT ![Caller] = FALSE]
  /\ unanswered' = unanswered \ {Caller}
  /\ ThenNextSlot
  /\ UNCHANGED << server, errors, conn, backlog, ended >>

(* A reply that could not be sent never costs the session *)
AnswerFailsUnnoticed ==
  /\ pc = "serve" /\ Reported(slot) /\ unread[Caller]
  /\ unread' = [unread EXCEPT ![Caller] = FALSE]
  /\ UNCHANGED errors \/ \E e \in {"retry", "other"} : SetErrno(e)
  /\ unanswered' = unanswered \cup {Caller}
  /\ ThenNextSlot
  /\ UNCHANGED << server, conn, backlog, ended >>

(* comm_tcp_write gives up: its select times out and errno is what an       *)
(* earlier call left there, or a call of its own fails.  The session dies   *)
(* unless errno says to try again, and then nobody tries again.             *)
AnswerFails ==
  /\ pc = "serve" /\ Reported(slot) /\ unread[Caller]
  /\ unread' = [unread EXCEPT ![Caller] = FALSE]
  /\ UNCHANGED errors \/ \E e \in {"retry", "other"} : SetErrno(e)
  /\ IF errno' = "retry"
     THEN /\ unanswered' = unanswered \cup {Caller}
          /\ UNCHANGED client
     ELSE /\ MarkDead
          /\ UNCHANGED unanswered
  /\ ThenNextSlot
  /\ UNCHANGED << clientNum, conn, backlog, ended >>

incomingConnectionHandlerClient ==
  RecvRetry \/ RecvEnds \/ Answer \/ AnswerFails

-----------------------------------------------------------------------------
(* main: the sessions marked dead are destroyed *)

ThenNextReap ==
  /\ IF slot < MaxClientNum THEN pc' = "reap" /\ slot' = slot + 1
                            ELSE pc' = "select" /\ slot' = 1
  /\ UNCHANGED << readSet, reported >>

KeepSession ==
  /\ pc = "reap" /\ ~Dead(slot)
  /\ ThenNextReap
  /\ UNCHANGED << server, kernel, errors, unanswered >>

(* The session is cleared before its socket is closed: nothing closes it *)
DestroyForgetsSocket ==
  /\ pc = "reap" /\ Dead(slot)
  /\ client' = [client EXCEPT ![slot] = Cleared]
  /\ clientNum' = clientNum - 1
  /\ unanswered' = unanswered \ {conn[client[slot].sock]}
  /\ ThenNextReap
  /\ UNCHANGED << kernel, errors >>

(* The count is kept when a session goes *)
DestroyForgetsCount ==
  /\ pc = "reap" /\ Dead(slot)
  /\ conn' = [conn EXCEPT ![client[slot].sock] = NoPeer]
  /\ client' = [client EXCEPT ![slot] = Cleared]
  /\ unanswered' = unanswered \ {conn[client[slot].sock]}
  /\ ThenNextReap
  /\ UNCHANGED << clientNum, backlog, unread, ended, errors >>

DestroyClientSession ==
  /\ pc = "reap" /\ Dead(slot) /\ Used(slot)
  /\ conn' = [conn EXCEPT ![client[slot].sock] = NoPeer]
  /\ client' = [client EXCEPT ![slot] = Cleared]
  /\ clientNum' = IF clientNum > 0 THEN clientNum - 1 ELSE 0
  /\ unanswered' = unanswered \ {conn[client[slot].sock]}
  /\ ThenNextReap
  /\ UNCHANGED << backlog, unread, ended, errors >>

-----------------------------------------------------------------------------
Init ==
  /\ client = [i \in Slot |-> Cleared]
  /\ clientNum = 0
  /\ readSet = {}
  /\ pc = "select"
  /\ slot = 1
  /\ errno = "other"
  /\ conn = [f \in Fd |-> NoPeer]
  /\ backlog = << >>
  /\ unread = [p \in Peer |-> FALSE]
  /\ ended = [p \in Peer |-> "no"]
  /\ reported = {}
  /\ interrupted = FALSE
  /\ unanswered = {}

Peers == \E p \in Peer : Connect(p) \/ Send(p) \/ Finish(p) \/ Reset(p)

Server ==
  \/ SelectReturns
  \/ NoNewcomer
  \/ incomingConnectionHandler
  \/ SkipSlot
  \/ incomingConnectionHandlerClient
  \/ KeepSession
  \/ DestroyClientSession

Next == Peers \/ Server \/ SelectFails

Spec == Init /\ [][Next]_vars

(* The loop keeps running, and recv is not interrupted for ever in a slot.  *)
FairSpec ==
  /\ Spec
  /\ WF_vars(Server)
  /\ \A i \in Slot : SF_vars(slot = i /\ (RecvEnds \/ Answer \/ AnswerFails))

-----------------------------------------------------------------------------
TypeOK ==
  /\ client \in [Slot -> [sock : Fd \cup {NoSock}, bUse : {0, 1}, bIsActive : {-1, 0, 1}]]
  /\ clientNum \in 0 .. MaxClientNum
  /\ readSet \subseteq Fd \cup {MySocket}
  /\ pc \in {"select", "accept", "serve", "reap"}
  /\ slot \in Slot
  /\ errno \in {"retry", "other"}
  /\ conn \in [Fd -> Peer \cup {NoPeer}]
  /\ backlog \in Seq(Peer)
  /\ unread \in [Peer -> BOOLEAN]
  /\ ended \in [Peer -> {"no", "eof", "reset"}]
  /\ reported \subseteq Peer
  /\ interrupted \in BOOLEAN
  /\ unanswered \subseteq Peer

(* clientNum, kept by hand on two paths, is the number of slots in use. *)
SessionsCounted == clientNum = Cardinality(UsedSlots)

(* Every session in use has an open descriptor of its own, and every open   *)
(* connection belongs to a session: none leaks, none is closed twice, and a *)
(* descriptor the kernel gives out again is never still in a slot.          *)
SocketsOwned ==
  /\ \A i \in UsedSlots : client[i].sock \in Fd /\ conn[client[i].sock] # NoPeer
  /\ \A i, j \in UsedSlots : client[i].sock = client[j].sock => i = j
  /\ \A f \in Fd : conn[f] # NoPeer => \E i \in UsedSlots : client[i].sock = f

(* readSet is read after accept and other handlers have run: a session      *)
(* served because of it is still one that select saw, never a newcomer that *)
(* came by the same descriptor or slot.                                     *)
ServesReported ==
  pc = "serve" => \A i \in Slot : i >= slot /\ Reported(i) => conn[client[i].sock] \in reported

(* A session marked dead is destroyed before the loop selects again. *)
NoneDeadAtSelect ==
  pc = "select" => \A i \in Slot : client[i].bIsActive = client[i].bUse

(* A request is read and gets no reply on a session that is kept only after *)
(* some call has been interrupted or would have blocked: comm_tcp_write     *)
(* times out without setting errno and its caller goes by what is left in   *)
(* it.                                                                      *)
AnsweredUnlessInterrupted == unanswered # {} => interrupted

(* A connection does not stay in the backlog: it gets a session or is       *)
(* turned away.                                                             *)
NewcomersHandled == \A p \in Peer : Queued(p) ~> ~Queued(p)

(* The session of a peer that has finished or reset is given up. *)
EndedSessionsFreed == \A p \in Peer : (Open(p) /\ ended[p] # "no") ~> ~Open(p)

(* What a connected peer sends is read, or its session is given up. *)
RequestsRead == \A p \in Peer : (Open(p) /\ unread[p]) ~> (~Open(p) \/ ~unread[p])
=============================================================================
