--------------------------- MODULE GatewayProofs ---------------------------
(***************************************************************************)
(* Gateway's safety, proved for every set of clients and connections, for  *)
(* both variants of ClientClose and every choice of the active-test        *)
(* parameters.  IInv is inductive: each property the runs check needs the  *)
(* others, and needs to know where the accept thread is (AcceptInv) and    *)
(* that the threads of a connection run only once it has a session         *)
(* (ThreadsInv).                                                           *)
(***************************************************************************)
EXTENDS Gateway, SequenceTheorems, TLAPS

\* The connections waiting in the backlog are waiting once, and do nothing else.
BacklogInv ==
  /\ \A i \in 1 .. Len(backlog) : sock[backlog[i]] = "backlog"
  /\ \A i, j \in 1 .. Len(backlog) : i # j => backlog[i] # backlog[j]

\* What the accept thread holds at each point of its loop.  Only it inserts into
\* the table, so what CheckClient has removed stays removed until it inserts.
AcceptInv ==
  /\ accPc # "accept" => accConn \in Conns
  /\ accPc \in {"read", "check", "start"} => sock[accConn] = "login"
  /\ accPc \notin {"accept", "read"} => accKey \in Keys
  /\ accPc \in {"start", "put"} => objClientTable[accKey] = None
  /\ accPc = "put" => sock[accConn] = "session" /\ mClientKey[accConn] = accKey

\* A connection has threads only after its login, and then has a key.
ThreadsInv ==
  \A c \in Conns :
    /\ sock[c] \in {"backlog", "login", "dropped"} =>
         recv[c] = "off" /\ send[c] = "off" /\ mon[c] = "off"
    /\ recv[c] # "off" \/ send[c] # "off" \/ mon[c] # "off" => mClientKey[c] \in Keys
    /\ sock[c] = "closed" => peer[c] = "gone"

IInv == /\ TypeOK /\ BacklogInv /\ AcceptInv /\ ThreadsInv
        /\ RegisteredIsOpen /\ OpenIsRegistered /\ WatchdogAlive /\ LiveSessionServed

-----------------------------------------------------------------------------
\* What a call of ClientClose may do, whoever makes it: it ends the session the
\* key has, if it has one, and touches nothing else.
LEMMA ClientCloseEffect ==
  ASSUME IInv, NEW k \in Keys, ClientClose(k)
  PROVE  /\ sock' \in [Conns -> SockState]
         /\ peer' \in [Conns -> PeerState]
         /\ objClientTable' \in [Keys -> Conns \union {None}]
         /\ recvMsgList' \in Seq(Message)
         /\ objClientTable'[k] = None
         /\ \A j \in Keys : j # k => objClientTable'[j] = objClientTable[j]
         /\ \A c \in Conns : \/ sock'[c] = sock[c] /\ peer'[c] = peer[c]
                             \/ /\ objClientTable[k] = c
                                /\ sock[c] = "session"
                                /\ sock'[c] = "closed" /\ peer'[c] = "gone"
         /\ \A c \in Conns : sock'[c] = "session" => objClientTable[k] # c
<1>1. CASE objClientTable[k] = None
  BY <1>1, GatewayAssumption DEF ClientClose, IInv, TypeOK, tableVars
<1>2. CASE objClientTable[k] # None
  <2> DEFINE c == objClientTable[k]
  <2>1. c \in Conns /\ sock[c] = "session"
    BY <1>2 DEF IInv, TypeOK, RegisteredIsOpen
  <2>2. /\ sock' = [sock EXCEPT ![c] = "closed"]
        /\ peer' = [peer EXCEPT ![c] = "gone"]
        /\ objClientTable' = [objClientTable EXCEPT ![k] = None]
        /\ recvMsgList' = CloseNotice(k, c)
    BY <1>2 DEF ClientClose, CloseSocket
  <2>3. CloseNotice(k, c) \in Seq(Message)
    <3>1. Notice("OFFLINE", k) \in Message
      BY DEF Notice, Message
    <3> QED
      BY <3>1 DEF CloseNotice, IInv, TypeOK
  <2> QED
    BY <2>1, <2>2, <2>3 DEF IInv, TypeOK, SockState, PeerState
<1> QED
  BY <1>1, <1>2

LEMMA InitInv == Init => IInv
<1> SUFFICES ASSUME Init PROVE IInv
  OBVIOUS
<1>1. TypeOK
  BY GatewayAssumption DEF Init, TypeOK, SockState, PeerState, AcceptState, RecvState, SendState, MonState
<1>2. BacklogInv /\ AcceptInv /\ ThreadsInv
  BY DEF Init, BacklogInv, AcceptInv, ThreadsInv
<1>3. RegisteredIsOpen /\ OpenIsRegistered /\ WatchdogAlive /\ LiveSessionServed
  BY DEF Init, RegisteredIsOpen, OpenIsRegistered, WatchdogAlive, LiveSessionServed
<1> QED
  BY <1>1, <1>2, <1>3 DEF IInv

\* The session of an open socket has a key: its monitor is running.
LEMMA SessionHasKey ==
  ASSUME IInv, NEW c \in Conns, sock[c] = "session"
  PROVE  mClientKey[c] \in Keys
BY DEF IInv, WatchdogAlive, ThreadsInv

\* ClientClose keeps the table and the open sessions in agreement.
LEMMA ClosingKeepsTable ==
  ASSUME IInv, NEW k \in Keys, ClientClose(k), mClientKey' = mClientKey
  PROVE  /\ RegisteredIsOpen'
         /\ \A c \in Conns : sock'[c] = "session" =>
              \/ objClientTable'[mClientKey'[c]] = c
              \/ accPc = "put" /\ accConn = c /\ mClientKey'[c] = accKey
<1>1. RegisteredIsOpen'
  <2> SUFFICES ASSUME NEW j \in Keys, objClientTable'[j] # None
               PROVE  sock'[objClientTable'[j]] = "session" /\ mClientKey'[objClientTable'[j]] = j
    BY DEF RegisteredIsOpen
  <2>1. j # k /\ objClientTable'[j] = objClientTable[j]
    BY ClientCloseEffect
  <2>2. /\ objClientTable[j] \in Conns
        /\ sock[objClientTable[j]] = "session" /\ mClientKey[objClientTable[j]] = j
    BY <2>1 DEF IInv, TypeOK, RegisteredIsOpen
  <2>3. objClientTable[k] # objClientTable[j]
    BY <2>1, <2>2, GatewayAssumption DEF IInv, RegisteredIsOpen
  <2> QED
    BY <2>1, <2>2, <2>3, ClientCloseEffect
<1>2. ASSUME NEW c \in Conns, sock'[c] = "session"
      PROVE  \/ objClientTable'[mClientKey'[c]] = c
             \/ accPc = "put" /\ accConn = c /\ mClientKey'[c] = accKey
  <2>1. sock[c] = "session" /\ objClientTable[k] # c
    BY <1>2, ClientCloseEffect
  <2>2. mClientKey[c] \in Keys
    BY <2>1, SessionHasKey
  <2>3. \/ objClientTable[mClientKey[c]] = c
        \/ accPc = "put" /\ accConn = c /\ mClientKey[c] = accKey
    BY <2>1 DEF IInv, OpenIsRegistered
  <2> QED
    BY <2>1, <2>2, <2>3, ClientCloseEffect
<1> QED
  BY <1>1, <1>2

\* Nobody can close the session that the accept thread is about to register.
LEMMA ClosesAnother ==
  ASSUME IInv, NEW k \in Keys
  PROVE  accPc = "put" => objClientTable[k] # accConn
<1> SUFFICES ASSUME accPc = "put", objClientTable[k] = accConn PROVE FALSE
  OBVIOUS
<1>1. /\ accConn \in Conns /\ accKey \in Keys
      /\ objClientTable[accKey] = None /\ mClientKey[accConn] = accKey
  BY DEF IInv, AcceptInv
<1>2. mClientKey[accConn] = k
  BY <1>1, GatewayAssumption DEF IInv, RegisteredIsOpen
<1> QED
  BY <1>1, <1>2, GatewayAssumption

\* ClientClose, called by a session's own thread, keeps every conjunct that does
\* not speak of the thread itself.
LEMMA ThreadCloses ==
  ASSUME IInv, NEW k \in Keys, ClientClose(k), UNCHANGED <<acceptVars, mClientKey>>
  PROVE  BacklogInv' /\ AcceptInv' /\ RegisteredIsOpen' /\ OpenIsRegistered'
<1>1. BacklogInv'
  BY ClientCloseEffect DEF IInv, TypeOK, BacklogInv, acceptVars
<1>2. AcceptInv'
  <2>1. accPc = "put" => objClientTable[k] # accConn
    BY ClosesAnother
  <2>2. accPc \in {"read", "check", "start"} => sock'[accConn] = "login"
    BY ClientCloseEffect DEF IInv, AcceptInv
  <2>3. accPc = "put" => sock'[accConn] = "session"
    BY <2>1, ClientCloseEffect DEF IInv, AcceptInv
  <2>4. accPc \in {"start", "put"} => objClientTable'[accKey] = None
    BY ClientCloseEffect DEF IInv, AcceptInv
  <2> QED
    BY <2>2, <2>3, <2>4 DEF IInv, AcceptInv, acceptVars
<1>3. RegisteredIsOpen' /\ OpenIsRegistered'
  BY ClosingKeepsTable DEF OpenIsRegistered, acceptVars
<1> QED
  BY <1>1, <1>2, <1>3

\* The main induction step, one case per action.
LEMMA NextInv == IInv /\ [Next]_vars => IInv'
<1> SUFFICES ASSUME IInv, [Next]_vars PROVE IInv'
  OBVIOUS
<1> USE GatewayAssumption DEF IInv, TypeOK, acceptVars, threadVars, tableVars
<1>1. ASSUME Accept PROVE IInv'
  <2>1. Head(backlog) \in Conns /\ backlog[1] = Head(backlog) /\ Len(backlog) \in Nat /\ Len(backlog) >= 1
    BY <1>1 DEF Accept
  <2>2. Tail(backlog) \in Seq(Conns) /\ Len(Tail(backlog)) = Len(backlog) - 1 /\ \A i \in 1 .. Len(Tail(backlog)) : Tail(backlog)[i] = backlog[i + 1]
    BY <1>1, HeadTailProperties DEF Accept
  <2>3. sock[Head(backlog)] = "backlog"
    BY <1>1, <2>1 DEF BacklogInv
  <2>4. TypeOK'
    BY <1>1, <2>1, <2>2, <2>3 DEF Accept, SockState, AcceptState
  <2>5. BacklogInv'
    BY <1>1, <2>1, <2>2, <2>3 DEF Accept, BacklogInv
  <2>6. AcceptInv'
    BY <1>1, <2>1, <2>2, <2>3 DEF Accept, AcceptInv
  <2>7. ThreadsInv'
    BY <1>1, <2>1, <2>2, <2>3 DEF Accept, ThreadsInv
  <2>8. RegisteredIsOpen' /\ OpenIsRegistered'
    BY <1>1, <2>1, <2>2, <2>3 DEF Accept, RegisteredIsOpen, OpenIsRegistered
  <2>9. WatchdogAlive' /\ LiveSessionServed'
    BY <1>1, <2>1, <2>2, <2>3 DEF Accept, WatchdogAlive, LiveSessionServed
  <2> QED
    BY <2>4, <2>5, <2>6, <2>7, <2>8, <2>9
<1>2. ASSUME ReadLogin PROVE IInv'
  <2>1. accConn \in Conns /\ sock[accConn] = "login"
    BY <1>2 DEF ReadLogin, AcceptInv
  <2>2. TypeOK'
    BY <1>2, <2>1 DEF ReadLogin, CloseSocket, GiveUp, SockState, PeerState, AcceptState
  <2>3. BacklogInv'
    BY <1>2, <2>1 DEF ReadLogin, CloseSocket, GiveUp, BacklogInv
  <2>4. AcceptInv'
    BY <1>2, <2>1 DEF ReadLogin, CloseSocket, GiveUp, AcceptInv
  <2>5. ThreadsInv'
    BY <1>2, <2>1 DEF ReadLogin, CloseSocket, GiveUp, ThreadsInv
  <2>6. RegisteredIsOpen' /\ OpenIsRegistered'
    BY <1>2, <2>1 DEF ReadLogin, CloseSocket, GiveUp, RegisteredIsOpen, OpenIsRegistered
  <2>7. WatchdogAlive' /\ LiveSessionServed'
    BY <1>2, <2>1 DEF ReadLogin, CloseSocket, GiveUp, WatchdogAlive, LiveSessionServed
  <2> QED
    BY <2>2, <2>3, <2>4, <2>5, <2>6, <2>7
<1>3. ASSUME CheckClient PROVE IInv'
  <2>1. accKey \in Keys /\ accConn \in Conns /\ sock[accConn] = "login" /\ ClientClose(accKey)
    BY <1>3 DEF CheckClient, AcceptInv
  <2>2. TypeOK'
    BY <1>3, <2>1, ClientCloseEffect DEF CheckClient, AcceptState
  <2>3. BacklogInv'
    BY <1>3, <2>1, ClientCloseEffect DEF CheckClient, BacklogInv
  <2>4. AcceptInv'
    BY <1>3, <2>1, ClientCloseEffect DEF CheckClient, AcceptInv
  <2>5. ThreadsInv'
    BY <1>3, <2>1, ClientCloseEffect DEF CheckClient, ThreadsInv
  <2>6. RegisteredIsOpen' /\ OpenIsRegistered'
    BY <1>3, <2>1, ClosingKeepsTable DEF CheckClient, OpenIsRegistered
  <2>7. WatchdogAlive' /\ LiveSessionServed'
    BY <1>3, <2>1, ClientCloseEffect DEF CheckClient, WatchdogAlive, LiveSessionServed
  <2> QED
    BY <2>2, <2>3, <2>4, <2>5, <2>6, <2>7
<1>4. ASSUME InitSession PROVE IInv'
  <2>1. accConn \in Conns /\ accKey \in Keys /\ sock[accConn] = "login" /\ objClientTable[accKey] = None
    BY <1>4 DEF InitSession, AcceptInv
  <2>2. TypeOK'
    BY <1>4, <2>1 DEF InitSession, SockState, AcceptState, RecvState, SendState, MonState
  <2>3. BacklogInv'
    BY <1>4, <2>1 DEF InitSession, BacklogInv
  <2>4. AcceptInv'
    BY <1>4, <2>1 DEF InitSession, AcceptInv
  <2>5. ThreadsInv'
    BY <1>4, <2>1 DEF InitSession, ThreadsInv
  <2>6. RegisteredIsOpen' /\ OpenIsRegistered'
    BY <1>4, <2>1 DEF InitSession, RegisteredIsOpen, OpenIsRegistered
  <2>7. WatchdogAlive' /\ LiveSessionServed'
    BY <1>4, <2>1 DEF InitSession, WatchdogAlive, LiveSessionServed
  <2> QED
    BY <2>2, <2>3, <2>4, <2>5, <2>6, <2>7
<1>5. ASSUME PutSession PROVE IInv'
  <2>1. accConn \in Conns /\ accKey \in Keys /\ objClientTable[accKey] = None /\ sock[accConn] = "session" /\ mClientKey[accConn] = accKey
    BY <1>5 DEF PutSession, AcceptInv
  <2>2. TypeOK'
    BY <1>5, <2>1 DEF PutSession, AcceptState
  <2>3. BacklogInv'
    BY <1>5, <2>1 DEF PutSession, BacklogInv
  <2>4. AcceptInv'
    BY <1>5, <2>1 DEF PutSession, AcceptInv
  <2>5. ThreadsInv'
    BY <1>5, <2>1 DEF PutSession, ThreadsInv
  <2>6. RegisteredIsOpen' /\ OpenIsRegistered'
    BY <1>5, <2>1 DEF PutSession, RegisteredIsOpen, OpenIsRegistered
  <2>7. WatchdogAlive' /\ LiveSessionServed'
    BY <1>5, <2>1 DEF PutSession, WatchdogAlive, LiveSessionServed
  <2> QED
    BY <2>2, <2>3, <2>4, <2>5, <2>6, <2>7
<1>6. ASSUME LoginReply PROVE IInv'
  <2>1. TypeOK'
    BY <1>6 DEF LoginReply, GiveUp, AcceptState
  <2>2. BacklogInv'
    BY <1>6 DEF LoginReply, GiveUp, BacklogInv
  <2>3. AcceptInv'
    BY <1>6 DEF LoginReply, GiveUp, AcceptInv
  <2>4. ThreadsInv'
    BY <1>6 DEF LoginReply, GiveUp, ThreadsInv
  <2>5. RegisteredIsOpen' /\ OpenIsRegistered'
    BY <1>6 DEF LoginReply, GiveUp, RegisteredIsOpen, OpenIsRegistered
  <2>6. WatchdogAlive' /\ LiveSessionServed'
    BY <1>6 DEF LoginReply, GiveUp, WatchdogAlive, LiveSessionServed
  <2> QED
    BY <2>1, <2>2, <2>3, <2>4, <2>5, <2>6
<1>7. ASSUME NotifyOnline PROVE IInv'
  <2>1. Notice("ONLINE", accKey) \in Message
    BY <1>7 DEF NotifyOnline, AcceptInv, Notice, Message
  <2>2. TypeOK'
    BY <1>7, <2>1 DEF NotifyOnline, GiveUp, AcceptState
  <2>3. BacklogInv'
    BY <1>7, <2>1 DEF NotifyOnline, GiveUp, BacklogInv
  <2>4. AcceptInv'
    BY <1>7, <2>1 DEF NotifyOnline, GiveUp, AcceptInv
  <2>5. ThreadsInv'
    BY <1>7, <2>1 DEF NotifyOnline, GiveUp, ThreadsInv
  <2>6. RegisteredIsOpen' /\ OpenIsRegistered'
    BY <1>7, <2>1 DEF NotifyOnline, GiveUp, RegisteredIsOpen, OpenIsRegistered
  <2>7. WatchdogAlive' /\ LiveSessionServed'
    BY <1>7, <2>1 DEF NotifyOnline, GiveUp, WatchdogAlive, LiveSessionServed
  <2> QED
    BY <2>2, <2>3, <2>4, <2>5, <2>6, <2>7
<1>8. ASSUME MsgCtrl PROVE IInv'
  <2>1. Head(recvMsgList) \in Message /\ Tail(recvMsgList) \in Seq(Message)
    BY <1>8 DEF MsgCtrl
  <2>2. Head(recvMsgList).key \in Keys
    BY <2>1 DEF Message
  <2>3. TypeOK'
    BY <1>8, <2>1, <2>2 DEF MsgCtrl, Message
  <2>4. BacklogInv'
    BY <1>8, <2>1, <2>2 DEF MsgCtrl, BacklogInv
  <2>5. AcceptInv'
    BY <1>8, <2>1, <2>2 DEF MsgCtrl, AcceptInv
  <2>6. ThreadsInv'
    BY <1>8, <2>1, <2>2 DEF MsgCtrl, ThreadsInv
  <2>7. RegisteredIsOpen' /\ OpenIsRegistered'
    BY <1>8, <2>1, <2>2 DEF MsgCtrl, RegisteredIsOpen, OpenIsRegistered
  <2>8. WatchdogAlive' /\ LiveSessionServed'
    BY <1>8, <2>1, <2>2 DEF MsgCtrl, WatchdogAlive, LiveSessionServed
  <2> QED
    BY <2>3, <2>4, <2>5, <2>6, <2>7, <2>8
<1>9. ASSUME NEW k \in Keys, DisPatch(k) PROVE IInv'
  <2>0. objClientTable[k] \in Conns /\ sendMsgList \in [Conns -> Nat]
    BY <1>9 DEF DisPatch
  <2>a. sendMsgList' \in [Conns -> Nat]
    BY <1>9, <2>0 DEF DisPatch
  <2>1. TypeOK'
    BY <1>9, <2>a DEF DisPatch
  <2>2. BacklogInv'
    BY <1>9 DEF DisPatch, BacklogInv
  <2>3. AcceptInv'
    BY <1>9 DEF DisPatch, AcceptInv
  <2>4. ThreadsInv'
    BY <1>9 DEF DisPatch, ThreadsInv
  <2>5. RegisteredIsOpen' /\ OpenIsRegistered'
    BY <1>9 DEF DisPatch, RegisteredIsOpen, OpenIsRegistered
  <2>6. WatchdogAlive' /\ LiveSessionServed'
    BY <1>9 DEF DisPatch, WatchdogAlive, LiveSessionServed
  <2> QED
    BY <2>1, <2>2, <2>3, <2>4, <2>5, <2>6
<1>10. ASSUME NEW c \in Conns, Connect(c) PROVE IInv'
  <2>1. TypeOK'
    BY <1>10 DEF Connect, Free, SockState, PeerState
  <2>2. BacklogInv'
    <3>0. sock[c] = "closed" /\ sock' = [sock EXCEPT ![c] = "backlog"]
      BY <1>10 DEF Connect, Free
    <3>a. \A i \in 1 .. Len(backlog) : backlog[i] \in Conns
      OBVIOUS
    <3>b. \A i \in 1 .. Len(backlog) : sock[backlog[i]] = "backlog"
      BY DEF BacklogInv
    <3>1. \A i \in 1 .. Len(backlog) : backlog[i] \in Conns /\ backlog[i] # c
      BY <3>0, <3>a, <3>b
    <3>2. /\ Len(backlog) \in Nat /\ Len(backlog') = Len(backlog) + 1
          /\ \A i \in 1 .. Len(backlog) : backlog'[i] = backlog[i]
          /\ backlog'[Len(backlog) + 1] = c
      BY <1>10 DEF Connect
    <3>3. \A i \in 1 .. Len(backlog') : i \in 1 .. Len(backlog) \/ i = Len(backlog) + 1
      BY <3>2
    <3>4. \A i \in 1 .. Len(backlog') : sock'[backlog'[i]] = "backlog"
      <4>1. ASSUME NEW i \in 1 .. Len(backlog) PROVE sock'[backlog'[i]] = "backlog"
        BY <3>0, <3>1, <3>2, <3>b
      <4>2. sock'[backlog'[Len(backlog) + 1]] = "backlog"
        BY <3>0, <3>2
      <4> QED
        BY <3>3, <4>1, <4>2
    <3>5. \A i, j \in 1 .. Len(backlog') : i # j => backlog'[i] # backlog'[j]
      <4> SUFFICES ASSUME NEW i \in 1 .. Len(backlog'), NEW j \in 1 .. Len(backlog'), i # j
                   PROVE  backlog'[i] # backlog'[j]
        OBVIOUS
      <4>1. CASE i \in 1 .. Len(backlog) /\ j \in 1 .. Len(backlog)
        BY <3>2, <4>1 DEF BacklogInv
      <4>2. CASE i = Len(backlog) + 1 \/ j = Len(backlog) + 1
        BY <3>1, <3>2, <3>3, <4>2
      <4> QED
        BY <3>3, <4>1, <4>2
    <3> QED
      BY <3>4, <3>5 DEF BacklogInv
  <2>3. AcceptInv'
    BY <1>10 DEF Connect, Free, AcceptInv
  <2>4. ThreadsInv'
    BY <1>10 DEF Connect, Free, ThreadsInv
  <2>5. RegisteredIsOpen' /\ OpenIsRegistered'
    BY <1>10 DEF Connect, Free, RegisteredIsOpen, OpenIsRegistered
  <2>6. WatchdogAlive' /\ LiveSessionServed'
    BY <1>10 DEF Connect, Free, WatchdogAlive, LiveSessionServed
  <2> QED
    BY <2>1, <2>2, <2>3, <2>4, <2>5, <2>6
<1>11. ASSUME NEW c \in Conns, NEW how, PeerLost(c, how) PROVE IInv'
  <2>1. TypeOK'
    BY <1>11 DEF PeerLost, PeerState
  <2>2. BacklogInv'
    BY <1>11 DEF PeerLost, BacklogInv
  <2>3. AcceptInv'
    BY <1>11 DEF PeerLost, AcceptInv
  <2>4. ThreadsInv'
    BY <1>11 DEF PeerLost, ThreadsInv
  <2>5. RegisteredIsOpen' /\ OpenIsRegistered'
    BY <1>11 DEF PeerLost, RegisteredIsOpen, OpenIsRegistered
  <2>6. WatchdogAlive' /\ LiveSessionServed'
    BY <1>11 DEF PeerLost, WatchdogAlive, LiveSessionServed
  <2> QED
    BY <2>1, <2>2, <2>3, <2>4, <2>5, <2>6
<1>12. ASSUME NEW c \in Conns, Finalize(c) PROVE IInv'
  <2>1. TypeOK'
    BY <1>12 DEF Finalize, CloseSocket, SockState, PeerState
  <2>2. BacklogInv'
    BY <1>12 DEF Finalize, CloseSocket, BacklogInv
  <2>3. AcceptInv'
    BY <1>12 DEF Finalize, CloseSocket, AcceptInv
  <2>4. ThreadsInv'
    BY <1>12 DEF Finalize, CloseSocket, ThreadsInv
  <2>5. RegisteredIsOpen' /\ OpenIsRegistered'
    BY <1>12 DEF Finalize, CloseSocket, RegisteredIsOpen, OpenIsRegistered
  <2>6. WatchdogAlive' /\ LiveSessionServed'
    BY <1>12 DEF Finalize, CloseSocket, WatchdogAlive, LiveSessionServed
  <2> QED
    BY <2>1, <2>2, <2>3, <2>4, <2>5, <2>6
<1>13. ASSUME NEW c \in Conns, RecvFrame(c) PROVE IInv'
  <2>1. Notice("DATA", mClientKey[c]) \in Message
    BY <1>13 DEF RecvFrame, ThreadsInv, Notice, Message
  <2>2. TypeOK'
    <3>1. testSta' \in [Conns -> 0 .. ACTIVE_TEST_END + 1]
      BY <1>13 DEF RecvFrame
    <3>2. sendMsgList' \in [Conns -> Nat]
      BY <1>13 DEF RecvFrame
    <3>3. recvMsgList' = recvMsgList \/ recvMsgList' = Append(recvMsgList, Notice("DATA", mClientKey[c]))
      BY <1>13 DEF RecvFrame
    <3>4. Append(recvMsgList, Notice("DATA", mClientKey[c])) \in Seq(Message)
      BY <2>1, AppendProperties
    <3>5. recvMsgList' \in Seq(Message)
      BY <3>3, <3>4
    <3> QED
      BY <1>13, <3>1, <3>2, <3>5 DEF RecvFrame
  <2>3. BacklogInv'
    BY <1>13, <2>1 DEF RecvFrame, BacklogInv
  <2>4. AcceptInv'
    BY <1>13, <2>1 DEF RecvFrame, AcceptInv
  <2>5. ThreadsInv'
    BY <1>13, <2>1 DEF RecvFrame, ThreadsInv
  <2>6. RegisteredIsOpen' /\ OpenIsRegistered'
    BY <1>13, <2>1 DEF RecvFrame, RegisteredIsOpen, OpenIsRegistered
  <2>7. WatchdogAlive' /\ LiveSessionServed'
    BY <1>13, <2>1 DEF RecvFrame, WatchdogAlive, LiveSessionServed
  <2> QED
    BY <2>2, <2>3, <2>4, <2>5, <2>6, <2>7
<1>14. ASSUME NEW c \in Conns, RecvEnd(c) PROVE IInv'
  <2>1. TypeOK'
    BY <1>14 DEF RecvEnd, RecvState
  <2>2. BacklogInv'
    BY <1>14 DEF RecvEnd, BacklogInv
  <2>3. AcceptInv'
    BY <1>14 DEF RecvEnd, AcceptInv
  <2>4. ThreadsInv'
    BY <1>14 DEF RecvEnd, ThreadsInv
  <2>5. RegisteredIsOpen' /\ OpenIsRegistered'
    BY <1>14 DEF RecvEnd, RegisteredIsOpen, OpenIsRegistered
  <2>6. WatchdogAlive' /\ LiveSessionServed'
    BY <1>14 DEF RecvEnd, WatchdogAlive, LiveSessionServed
  <2> QED
    BY <2>1, <2>2, <2>3, <2>4, <2>5, <2>6
<1>15. ASSUME NEW c \in Conns, RecvClose(c) PROVE IInv'
  <2>1. mClientKey[c] \in Keys /\ ClientClose(mClientKey[c])
    BY <1>15 DEF RecvClose, ThreadsInv
  <2>2. TypeOK'
    BY <1>15, <2>1, ClientCloseEffect DEF RecvClose, RecvState
  <2>3. BacklogInv' /\ AcceptInv' /\ RegisteredIsOpen' /\ OpenIsRegistered'
    BY <1>15, <2>1, ThreadCloses DEF RecvClose
  <2>4. ThreadsInv'
    BY <1>15, <2>1, ClientCloseEffect DEF RecvClose, ThreadsInv
  <2>5. WatchdogAlive' /\ LiveSessionServed'
    BY <1>15, <2>1, ClientCloseEffect DEF RecvClose, WatchdogAlive, LiveSessionServed
  <2> QED
    BY <2>2, <2>3, <2>4, <2>5
<1>16. ASSUME NEW c \in Conns, SendTake(c) PROVE IInv'
  <2>1. TypeOK'
    BY <1>16 DEF SendTake, SendState
  <2>2. BacklogInv'
    BY <1>16 DEF SendTake, BacklogInv
  <2>3. AcceptInv'
    BY <1>16 DEF SendTake, AcceptInv
  <2>4. ThreadsInv'
    BY <1>16 DEF SendTake, ThreadsInv
  <2>5. RegisteredIsOpen' /\ OpenIsRegistered'
    BY <1>16 DEF SendTake, RegisteredIsOpen, OpenIsRegistered
  <2>6. WatchdogAlive' /\ LiveSessionServed'
    BY <1>16 DEF SendTake, WatchdogAlive, LiveSessionServed
  <2> QED
    BY <2>1, <2>2, <2>3, <2>4, <2>5, <2>6
<1>17. ASSUME NEW c \in Conns, SendWrite(c) PROVE IInv'
  <2>1. TypeOK'
    BY <1>17 DEF SendWrite, SendState
  <2>2. BacklogInv'
    BY <1>17 DEF SendWrite, BacklogInv
  <2>3. AcceptInv'
    BY <1>17 DEF SendWrite, AcceptInv
  <2>4. ThreadsInv'
    BY <1>17 DEF SendWrite, ThreadsInv
  <2>5. RegisteredIsOpen' /\ OpenIsRegistered'
    BY <1>17 DEF SendWrite, RegisteredIsOpen, OpenIsRegistered
  <2>6. WatchdogAlive' /\ LiveSessionServed'
    BY <1>17 DEF SendWrite, WatchdogAlive, LiveSessionServed
  <2> QED
    BY <2>1, <2>2, <2>3, <2>4, <2>5, <2>6
<1>18. ASSUME NEW c \in Conns, SendEnd(c) PROVE IInv'
  <2>1. TypeOK'
    BY <1>18 DEF SendEnd, SendState
  <2>2. BacklogInv'
    BY <1>18 DEF SendEnd, BacklogInv
  <2>3. AcceptInv'
    BY <1>18 DEF SendEnd, AcceptInv
  <2>4. ThreadsInv'
    BY <1>18 DEF SendEnd, ThreadsInv
  <2>5. RegisteredIsOpen' /\ OpenIsRegistered'
    BY <1>18 DEF SendEnd, RegisteredIsOpen, OpenIsRegistered
  <2>6. WatchdogAlive' /\ LiveSessionServed'
    BY <1>18 DEF SendEnd, WatchdogAlive, LiveSessionServed
  <2> QED
    BY <2>1, <2>2, <2>3, <2>4, <2>5, <2>6
<1>19. ASSUME NEW c \in Conns, SendClose(c) PROVE IInv'
  <2>1. mClientKey[c] \in Keys /\ ClientClose(mClientKey[c])
    BY <1>19 DEF SendClose, ThreadsInv
  <2>2. TypeOK'
    BY <1>19, <2>1, ClientCloseEffect DEF SendClose, SendState
  <2>3. BacklogInv' /\ AcceptInv' /\ RegisteredIsOpen' /\ OpenIsRegistered'
    BY <1>19, <2>1, ThreadCloses DEF SendClose
  <2>4. ThreadsInv'
    BY <1>19, <2>1, ClientCloseEffect DEF SendClose, ThreadsInv
  <2>5. WatchdogAlive' /\ LiveSessionServed'
    BY <1>19, <2>1, ClientCloseEffect DEF SendClose, WatchdogAlive, LiveSessionServed
  <2> QED
    BY <2>2, <2>3, <2>4, <2>5
<1>20. ASSUME NEW c \in Conns, MonTick(c) PROVE IInv'
  <2>1. TypeOK'
    BY <1>20 DEF MonTick, MonState
  <2>2. BacklogInv'
    BY <1>20 DEF MonTick, BacklogInv
  <2>3. AcceptInv'
    BY <1>20 DEF MonTick, AcceptInv
  <2>4. ThreadsInv'
    BY <1>20 DEF MonTick, ThreadsInv
  <2>5. RegisteredIsOpen' /\ OpenIsRegistered'
    BY <1>20 DEF MonTick, RegisteredIsOpen, OpenIsRegistered
  <2>6. WatchdogAlive' /\ LiveSessionServed'
    BY <1>20 DEF MonTick, WatchdogAlive, LiveSessionServed
  <2> QED
    BY <2>1, <2>2, <2>3, <2>4, <2>5, <2>6
<1>21. ASSUME NEW c \in Conns, MonCount(c) PROVE IInv'
  <2>1. TypeOK'
    <3>1. testSta[c] \in 0 .. ACTIVE_TEST_END + 1
      OBVIOUS
    <3>2. testSta' \in [Conns -> 0 .. ACTIVE_TEST_END + 1]
      BY <1>21, <3>1 DEF MonCount
    <3>3. sendMsgList' \in [Conns -> Nat]
      BY <1>21 DEF MonCount
    <3>4. mon' \in [Conns -> MonState]
      BY <1>21 DEF MonCount, MonState
    <3> QED
      BY <1>21, <3>2, <3>3, <3>4 DEF MonCount
  <2>2. BacklogInv'
    BY <1>21 DEF MonCount, BacklogInv
  <2>3. AcceptInv'
    BY <1>21 DEF MonCount, AcceptInv
  <2>4. ThreadsInv'
    BY <1>21 DEF MonCount, ThreadsInv
  <2>5. RegisteredIsOpen' /\ OpenIsRegistered'
    BY <1>21 DEF MonCount, RegisteredIsOpen, OpenIsRegistered
  <2>6. WatchdogAlive' /\ LiveSessionServed'
    BY <1>21 DEF MonCount, WatchdogAlive, LiveSessionServed
  <2> QED
    BY <2>1, <2>2, <2>3, <2>4, <2>5, <2>6
<1>22. ASSUME NEW c \in Conns, MonExpire(c) PROVE IInv'
  <2>1. mClientKey[c] \in Keys /\ ClientClose(mClientKey[c])
    BY <1>22 DEF MonExpire, ThreadsInv
  <2>2. TypeOK'
    BY <1>22, <2>1, ClientCloseEffect DEF MonExpire, MonState
  <2>3. BacklogInv' /\ AcceptInv' /\ RegisteredIsOpen' /\ OpenIsRegistered'
    BY <1>22, <2>1, ThreadCloses DEF MonExpire
  <2>4. ThreadsInv'
    BY <1>22, <2>1, ClientCloseEffect DEF MonExpire, ThreadsInv
  <2>5. WatchdogAlive'
    BY <1>22, <2>1, ClientCloseEffect DEF MonExpire, WatchdogAlive
  <2>6. LiveSessionServed'
    BY <1>22, <2>1, ClientCloseEffect DEF MonExpire, LiveSessionServed
  <2> QED
    BY <2>2, <2>3, <2>4, <2>5, <2>6
<1>23. ASSUME NEW c \in Conns, MonEnd(c) PROVE IInv'
  <2>1. TypeOK'
    BY <1>23 DEF MonEnd, MonState
  <2>2. BacklogInv'
    BY <1>23 DEF MonEnd, BacklogInv
  <2>3. AcceptInv'
    BY <1>23 DEF MonEnd, AcceptInv
  <2>4. ThreadsInv'
    BY <1>23 DEF MonEnd, ThreadsInv
  <2>5. RegisteredIsOpen' /\ OpenIsRegistered'
    BY <1>23 DEF MonEnd, RegisteredIsOpen, OpenIsRegistered
  <2>6. WatchdogAlive' /\ LiveSessionServed'
    BY <1>23 DEF MonEnd, WatchdogAlive, LiveSessionServed
  <2> QED
    BY <2>1, <2>2, <2>3, <2>4, <2>5, <2>6
<1>24. ASSUME NEW c \in Conns, MonLeave(c) PROVE IInv'
  <2>1. mClientKey[c] \in Keys /\ ClientClose(mClientKey[c])
    BY <1>24 DEF MonLeave, ThreadsInv
  <2>2. TypeOK'
    BY <1>24, <2>1, ClientCloseEffect DEF MonLeave, MonState
  <2>3. BacklogInv' /\ AcceptInv' /\ RegisteredIsOpen' /\ OpenIsRegistered'
    BY <1>24, <2>1, ThreadCloses DEF MonLeave
  <2>4. ThreadsInv'
    BY <1>24, <2>1, ClientCloseEffect DEF MonLeave, ThreadsInv
  <2>5. WatchdogAlive' /\ LiveSessionServed'
    BY <1>24, <2>1, ClientCloseEffect DEF MonLeave, WatchdogAlive, LiveSessionServed
  <2> QED
    BY <2>2, <2>3, <2>4, <2>5
<1>25. ASSUME UNCHANGED vars PROVE IInv'
  BY <1>25 DEF BacklogInv, AcceptInv, ThreadsInv, RegisteredIsOpen, OpenIsRegistered, WatchdogAlive, LiveSessionServed, vars
<1> QED
  BY <1>1, <1>2, <1>3, <1>4, <1>5, <1>6, <1>7, <1>8, <1>9, <1>10, <1>11, <1>12, <1>13, <1>14, <1>15, <1>16, <1>17, <1>18, <1>19, <1>20, <1>21, <1>22, <1>23, <1>24, <1>25
     DEF Next, AcceptThread, Environment, RecvThrd, SendThrd, Monitor

-----------------------------------------------------------------------------
LEMMA Invariant == Spec => []IInv
BY InitInv, NextInv, PTL DEF Spec

\* Every variable keeps its type; in particular every notice that reaches
\* MsgCtrl names a client, and the monitor's count never leaves its range.
THEOREM TypeCorrect == Spec => []TypeOK
<1>1. IInv => TypeOK
  BY DEF IInv
<1> QED
  BY <1>1, Invariant, PTL

\* DisPatch never queues a command for a session that is over or that belongs
\* to another client: the table holds open sessions of the right client only.
THEOREM TableHoldsOpenSessions == Spec => []RegisteredIsOpen
<1>1. IInv => RegisteredIsOpen
  BY DEF IInv
<1> QED
  BY <1>1, Invariant, PTL

\* However logins, hang-ups and expiries interleave, no session whose socket is
\* open drops out of the table, so none is leaked beyond ClientClose's reach.
THEOREM NoSessionLeaks == Spec => []OpenIsRegistered
<1>1. IInv => OpenIsRegistered
  BY DEF IInv
<1> QED
  BY <1>1, Invariant, PTL

\* Whatever ended a session's other threads, and whoever else called ClientClose,
\* the monitor of an open session is still in its loop.
THEOREM WatchdogNeverStops == Spec => []WatchdogAlive
<1>1. IInv => WatchdogAlive
  BY DEF IInv
<1> QED
  BY <1>1, Invariant, PTL

\* The receive and send threads of an open session give up only when its client
\* is no longer there.
THEOREM OpenSessionsAreServed == Spec => []LiveSessionServed
<1>1. IInv => LiveSessionServed
  BY DEF IInv
<1> QED
  BY <1>1, Invariant, PTL

-----------------------------------------------------------------------------
(* Gateway implements Sessions *)

Live == {c \in Conns : sock[c] = "session" /\ ~(accPc = "put" /\ accConn = c)}

\* ClientClose is a Logout of its key, or changes nothing.
LEMMA CloseIsLogout ==
  ASSUME IInv, NEW k \in Keys, ClientClose(k), UNCHANGED accConn,
         accPc' = "put" <=> accPc = "put",
         accPc = "put" => objClientTable[k] # accConn
  PROVE  [Abstract!Next]_(Abstract!vars)
<1>1. CASE objClientTable[k] = None
  BY <1>1, GatewayAssumption DEF ClientClose, IInv, TypeOK, tableVars, Abstract!vars
<1>2. CASE objClientTable[k] # None
  <2> DEFINE c == objClientTable[k]
  <2>1. c \in Conns /\ sock[c] = "session"
    BY <1>2 DEF IInv, TypeOK, RegisteredIsOpen
  <2>2. objClientTable' = [objClientTable EXCEPT ![k] = None] /\ sock' = [sock EXCEPT ![c] = "closed"]
    BY <1>2 DEF ClientClose, CloseSocket
  <2>3. Live' = Live \ {c}
    BY <2>1, <2>2 DEF Live, IInv, TypeOK
  <2>4. Abstract!Logout(k)
    BY <1>2, <2>2, <2>3 DEF Abstract!Logout, Live
  <2> QED
    BY <2>4 DEF Abstract!Next
<1> QED
  BY <1>1, <1>2

\* A step that leaves the table and the set of live sessions alone stutters.
LEMMA QuietStep ==
  ASSUME objClientTable' = objClientTable, Live' = Live
  PROVE  [Abstract!Next]_(Abstract!vars)
BY DEF Live, Abstract!vars

LEMMA StepRefines == IInv /\ [Next]_vars => [Abstract!Next]_(Abstract!vars)
<1> SUFFICES ASSUME IInv, [Next]_vars PROVE [Abstract!Next]_(Abstract!vars)
  OBVIOUS
<1> USE DEF IInv, TypeOK
<1>1. CASE PutSession
  <2>1. /\ accConn \in Conns /\ accKey \in Keys /\ objClientTable[accKey] = None
        /\ sock[accConn] = "session" /\ accPc = "put"
    BY <1>1 DEF PutSession, AcceptInv
  <2>2. objClientTable' = [objClientTable EXCEPT ![accKey] = accConn]
    BY <1>1 DEF PutSession
  <2>3. accConn \notin Live /\ Live' = Live \union {accConn}
    BY <1>1, <2>1 DEF PutSession, Live
  <2>4. \E c \in Conns : Abstract!Login(accKey, c)
    BY <2>1, <2>2, <2>3 DEF Abstract!Login, Live
  <2> QED
    BY <2>1, <2>4 DEF Abstract!Next
<1>2. CASE CheckClient
  <2>1. accKey \in Keys /\ ClientClose(accKey) /\ UNCHANGED accConn /\ accPc = "check" /\ accPc' = "start"
    BY <1>2 DEF CheckClient, AcceptInv
  <2> QED
    BY <2>1, CloseIsLogout
<1>3. ASSUME NEW c \in Conns, RecvClose(c) \/ SendClose(c) \/ MonExpire(c) \/ MonLeave(c)
      PROVE  [Abstract!Next]_(Abstract!vars)
  <2> DEFINE k == mClientKey[c]
  <2>1. k \in Keys /\ ClientClose(k) /\ UNCHANGED <<accConn, accPc>>
    BY <1>3 DEF RecvClose, SendClose, MonExpire, MonLeave, ThreadsInv, acceptVars
  <2>2. accPc = "put" => objClientTable[k] # accConn
    BY <2>1, ClosesAnother
  <2> QED
    BY <2>1, <2>2, CloseIsLogout
<1>4. CASE Accept
  <2>1. Head(backlog) \in Conns /\ sock[Head(backlog)] = "backlog"
    BY <1>4 DEF Accept, BacklogInv
  <2> QED
    BY <1>4, <2>1, QuietStep DEF Accept, Live
<1>5. CASE ReadLogin
  <2>1. accConn \in Conns /\ sock[accConn] = "login"
    BY <1>5 DEF ReadLogin, AcceptInv
  <2> QED
    BY <1>5, <2>1, QuietStep DEF ReadLogin, CloseSocket, GiveUp, Live
<1>6. CASE InitSession
  <2>1. accConn \in Conns /\ sock[accConn] = "login"
    BY <1>6 DEF InitSession, AcceptInv
  <2> QED
    BY <1>6, <2>1, QuietStep DEF InitSession, Live
<1>7. CASE LoginReply \/ NotifyOnline
  BY <1>7, QuietStep DEF LoginReply, NotifyOnline, GiveUp, Live, tableVars
<1>8. ASSUME NEW c \in Conns, Connect(c) \/ Finalize(c)
      PROVE  [Abstract!Next]_(Abstract!vars)
  BY <1>8, QuietStep DEF Connect, Finalize, Free, CloseSocket, Live, acceptVars
<1>9. ASSUME UNCHANGED <<objClientTable, sock, accPc, accConn>>
      PROVE  [Abstract!Next]_(Abstract!vars)
  BY <1>9, QuietStep DEF Live
<1>10. CASE UNCHANGED vars \/ MsgCtrl
  BY <1>9, <1>10 DEF vars, MsgCtrl, acceptVars, tableVars
<1>11. ASSUME NEW k \in Keys, DisPatch(k) PROVE [Abstract!Next]_(Abstract!vars)
  BY <1>9, <1>11 DEF DisPatch, acceptVars, tableVars
<1>12. ASSUME NEW c \in Conns,
              PeerLost(c, "gone") \/ PeerLost(c, "mute") \/ RecvFrame(c) \/ RecvEnd(c)
       PROVE  [Abstract!Next]_(Abstract!vars)
  BY <1>9, <1>12 DEF PeerLost, RecvFrame, RecvEnd, acceptVars, tableVars
<1>13. ASSUME NEW c \in Conns, SendTake(c) \/ SendWrite(c) \/ SendEnd(c)
       PROVE  [Abstract!Next]_(Abstract!vars)
  BY <1>9, <1>13 DEF SendTake, SendWrite, SendEnd, acceptVars, tableVars
<1>14. ASSUME NEW c \in Conns, MonTick(c) \/ MonCount(c) \/ MonEnd(c)
       PROVE  [Abstract!Next]_(Abstract!vars)
  BY <1>9, <1>14 DEF MonTick, MonCount, MonEnd, acceptVars, tableVars
<1> QED
  BY <1>1, <1>2, <1>3, <1>4, <1>5, <1>6, <1>7, <1>8, <1>10, <1>11, <1>12, <1>13, <1>14
     DEF Next, AcceptThread, Environment, RecvThrd, SendThrd, Monitor

\* The gateway implements Sessions: every behaviour of the table, under any
\* interleaving of the threads that insert and remove, is one of logins and
\* logouts that happen at once.
THEOREM Refinement == Spec => ImplementsSessions
<1>1. Init => Abstract!Init
  BY DEF Init, Abstract!Init
<1>2. IInv /\ [Next]_vars => [Abstract!Next]_(Abstract!vars)
  BY StepRefines
<1> QED
  BY <1>1, <1>2, Invariant, PTL DEF Spec, ImplementsSessions, Abstract!Spec

-----------------------------------------------------------------------------
(* A client that is logged in is shown online once its notices are handled.   *)

\* The accept thread holds no connection while it waits for one, and the session
\* it starts keeps the key it has read.
LoginInv ==
  /\ accPc = "accept" => accConn = None
  /\ accPc \in {"put", "reply", "notify"} => mClientKey[accConn] = accKey

\* What the notices in q make of onoff[k] = o: the last one about k is ONLINE, or
\* there is none left and k is shown online.
Told(q, o, k) ==
  \/ o = "0" /\ \A j \in 1 .. Len(q) : q[j] # Notice("OFFLINE", k)
  \/ \E i \in 1 .. Len(q) :
       /\ q[i] = Notice("ONLINE", k)
       /\ \A j \in 1 .. Len(q) : j > i => q[j] # Notice("OFFLINE", k)

NoticeInv ==
  ~DbMayFail => \A k \in Keys : LoggedIn(k) => Told(recvMsgList, onoff[k], k)

\* A message that is not its OFFLINE notice leaves a client as it is told of.
LEMMA AppendKeepsTold ==
  ASSUME NEW q \in Seq(Message), NEW m \in Message, NEW o, NEW k,
         Told(q, o, k), m # Notice("OFFLINE", k)
  PROVE  Told(Append(q, m), o, k)
<1>1. /\ Len(q) \in Nat /\ Len(Append(q, m)) = Len(q) + 1
      /\ \A j \in 1 .. Len(q) : Append(q, m)[j] = q[j]
      /\ Append(q, m)[Len(q) + 1] = m
  OBVIOUS
<1>2. \A j \in 1 .. Len(q) + 1 : j \in 1 .. Len(q) \/ j = Len(q) + 1
  BY <1>1
<1>3. CASE o = "0" /\ \A j \in 1 .. Len(q) : q[j] # Notice("OFFLINE", k)
  BY <1>1, <1>2, <1>3 DEF Told
<1>4. CASE \E i \in 1 .. Len(q) : /\ q[i] = Notice("ONLINE", k)
                                  /\ \A j \in 1 .. Len(q) : j > i => q[j] # Notice("OFFLINE", k)
  <2>1. PICK i \in 1 .. Len(q) : /\ q[i] = Notice("ONLINE", k)
                                 /\ \A j \in 1 .. Len(q) : j > i => q[j] # Notice("OFFLINE", k)
    BY <1>4
  <2>2. i \in 1 .. Len(q) + 1
    BY <1>1
  <2> QED
    BY <1>1, <1>2, <2>1, <2>2 DEF Told
<1> QED
  BY <1>3, <1>4 DEF Told

\* After an ONLINE notice there is nothing that takes it back.
LEMMA OnlineTells ==
  ASSUME NEW q \in Seq(Message), NEW o, NEW k \in Keys
  PROVE  Told(Append(q, Notice("ONLINE", k)), o, k)
<1>1. Notice("ONLINE", k) \in Message /\ Notice("ONLINE", k) # Notice("OFFLINE", k)
  BY DEF Notice, Message
<1>2. /\ Len(q) \in Nat /\ Len(Append(q, Notice("ONLINE", k))) = Len(q) + 1
      /\ Append(q, Notice("ONLINE", k))[Len(q) + 1] = Notice("ONLINE", k)
  BY <1>1
<1> QED
  BY <1>2 DEF Told

\* MsgCtrl takes the oldest message: what it writes is what the rest builds on.
LEMMA HandlingKeepsTold ==
  ASSUME NEW q \in Seq(Message), q # <<>>, NEW k \in Keys, NEW o, NEW p,
         Told(q, o, k),
         Head(q) = Notice("ONLINE", k) => p = "0",
         Head(q) \notin AboutKey(k) => p = o
  PROVE  Told(Tail(q), p, k)
<1>1. /\ Len(q) \in Nat \ {0} /\ Head(q) = q[1]
      /\ Len(Tail(q)) = Len(q) - 1 /\ \A j \in 1 .. Len(q) - 1 : Tail(q)[j] = q[j + 1]
  BY HeadTailProperties, EmptySeq
<1>2. Notice("ONLINE", k) # Notice("OFFLINE", k)
  BY DEF Notice
<1>3. CASE \A j \in 1 .. Len(q) : q[j] # Notice("OFFLINE", k)
  <2>1. p = "0" \/ o # "0"
    BY <1>1, <1>3 DEF AboutKey
  <2>2. \A j \in 1 .. Len(q) - 1 : Tail(q)[j] # Notice("OFFLINE", k)
    BY <1>1, <1>3
  <2>3. CASE p = "0"
    BY <1>1, <2>2, <2>3 DEF Told
  <2>4. CASE p # "0"
    <3>1. PICK i \in 1 .. Len(q) : q[i] = Notice("ONLINE", k)
      BY <2>1, <2>4 DEF Told
    <3>2. i # 1 /\ i - 1 \in 1 .. Len(q) - 1 /\ Tail(q)[i - 1] = Notice("ONLINE", k)
      BY <1>1, <2>4, <3>1
    <3> QED
      BY <1>1, <2>2, <3>2 DEF Told
  <2> QED
    BY <2>3, <2>4
<1>4. CASE ~\A j \in 1 .. Len(q) : q[j] # Notice("OFFLINE", k)
  <2>1. PICK i \in 1 .. Len(q) : /\ q[i] = Notice("ONLINE", k)
                                 /\ \A j \in 1 .. Len(q) : j > i => q[j] # Notice("OFFLINE", k)
    BY <1>4 DEF Told
  <2>2. CASE i = 1
    <3>1. p = "0"
      BY <1>1, <2>1, <2>2
    <3>2. \A j \in 1 .. Len(q) - 1 : Tail(q)[j] # Notice("OFFLINE", k)
      BY <1>1, <2>1, <2>2
    <3> QED
      BY <1>1, <3>1, <3>2 DEF Told
  <2>3. CASE i # 1
    <3>1. i - 1 \in 1 .. Len(q) - 1 /\ Tail(q)[i - 1] = Notice("ONLINE", k)
      BY <1>1, <2>1, <2>3
    <3>2. \A j \in 1 .. Len(q) - 1 : j > i - 1 => Tail(q)[j] # Notice("OFFLINE", k)
      BY <1>1, <2>1
    <3> QED
      BY <1>1, <3>1, <3>2 DEF Told
  <2> QED
    BY <2>2, <2>3
<1> QED
  BY <1>3, <1>4

\* Only the client of a session whose accept thread is done with it is logged in.
LEMMA LoginInvStep == IInv /\ LoginInv /\ [Next]_vars => LoginInv'
<1> SUFFICES ASSUME IInv, LoginInv, [Next]_vars PROVE LoginInv'
  OBVIOUS
<1> USE DEF IInv, TypeOK, LoginInv
<1>1. CASE AcceptThread
  BY <1>1 DEF AcceptThread, Accept, ReadLogin, CheckClient, InitSession, PutSession, LoginReply,
              NotifyOnline, GiveUp, AcceptInv
<1>2. ASSUME UNCHANGED <<accPc, accConn, accKey, mClientKey>> PROVE LoginInv'
  BY <1>2
<1>3. CASE MsgCtrl \/ UNCHANGED vars
  BY <1>2, <1>3 DEF MsgCtrl, acceptVars, vars
<1>4. ASSUME NEW k \in Keys, DisPatch(k) PROVE LoginInv'
  BY <1>2, <1>4 DEF DisPatch, acceptVars
<1>5. ASSUME NEW c \in Conns, Environment(c) PROVE LoginInv'
  BY <1>2, <1>5 DEF Environment, Connect, PeerLost, Finalize, acceptVars
<1>6. ASSUME NEW c \in Conns, RecvThrd(c) PROVE LoginInv'
  BY <1>2, <1>6 DEF RecvThrd, RecvFrame, RecvEnd, RecvClose, acceptVars
<1>7. ASSUME NEW c \in Conns, SendThrd(c) PROVE LoginInv'
  BY <1>2, <1>7 DEF SendThrd, SendTake, SendWrite, SendEnd, SendClose, acceptVars
<1>8. ASSUME NEW c \in Conns, Monitor(c) PROVE LoginInv'
  BY <1>2, <1>8 DEF Monitor, MonTick, MonCount, MonExpire, MonEnd, MonLeave, acceptVars
<1> QED
  BY <1>1, <1>3, <1>4, <1>5, <1>6, <1>7, <1>8 DEF Next

\* What is registered is in session.
LEMMA RegisteredIsInSession ==
  ASSUME IInv, NEW k \in Keys, NEW c \in Conns, sock[c] # "session"
  PROVE  objClientTable[k] # c
<1> SUFFICES ASSUME objClientTable[k] = c PROVE FALSE
  OBVIOUS
<1>1. objClientTable[k] # None
  BY GatewayAssumption
<1> QED
  BY <1>1 DEF IInv, RegisteredIsOpen

\* A step keeps NoticeInv if nobody is newly logged in by it and it queues at most
\* a message that is not an OFFLINE notice of a client still logged in.
LEMMA QuietNotices ==
  ASSUME IInv, NoticeInv, onoff' = onoff,
         \A k \in Keys : LoggedIn(k)' => LoggedIn(k),
         \/ recvMsgList' = recvMsgList
         \/ \E m \in Message : /\ recvMsgList' = Append(recvMsgList, m)
                               /\ \A k \in Keys : LoggedIn(k)' => m # Notice("OFFLINE", k)
  PROVE  NoticeInv'
<1> SUFFICES ASSUME ~DbMayFail, NEW k \in Keys, LoggedIn(k)'
             PROVE  Told(recvMsgList', onoff'[k], k)
  BY DEF NoticeInv, Told
<1>1. Told(recvMsgList, onoff[k], k)
  BY DEF NoticeInv
<1>2. CASE recvMsgList' = recvMsgList
  BY <1>1, <1>2
<1>3. ASSUME NEW m \in Message, recvMsgList' = Append(recvMsgList, m), m # Notice("OFFLINE", k)
      PROVE  Told(recvMsgList', onoff'[k], k)
  BY <1>1, <1>3, AppendKeepsTold DEF IInv, TypeOK
<1> QED
  BY <1>2, <1>3

\* The OFFLINE notice ClientClose queues is that of the client whose session it
\* has just removed.
LEMMA ClosingKeepsNotices ==
  ASSUME IInv, NoticeInv, NEW k \in Keys, ClientClose(k), onoff' = onoff, accConn' = accConn
  PROVE  NoticeInv'
<1>1. \A j \in Keys : LoggedIn(j)' => j # k /\ objClientTable'[j] = objClientTable[j]
  BY ClientCloseEffect DEF LoggedIn
<1>2. ASSUME NEW j \in Keys, LoggedIn(j)' PROVE LoggedIn(j)
  <2>1. objClientTable[j] # None /\ objClientTable[j] \in Conns
    BY <1>1, <1>2 DEF LoggedIn, IInv, TypeOK
  <2> QED
    BY <1>1, <1>2, <2>1, ClientCloseEffect DEF LoggedIn
<1>3. \/ recvMsgList' = recvMsgList
      \/ recvMsgList' = Append(recvMsgList, Notice("OFFLINE", k))
  BY DEF ClientClose, CloseNotice, tableVars
<1>4. Notice("OFFLINE", k) \in Message /\ \A j \in Keys : j # k => Notice("OFFLINE", k) # Notice("OFFLINE", j)
  BY DEF Notice, Message
<1> QED
  BY <1>1, <1>2, <1>3, <1>4, QuietNotices

LEMMA NoticeInvStep == IInv /\ LoginInv /\ NoticeInv /\ [Next]_vars => NoticeInv'
<1> SUFFICES ASSUME IInv, LoginInv, NoticeInv, [Next]_vars PROVE NoticeInv'
  OBVIOUS
<1> USE GatewayAssumption DEF IInv, TypeOK
<1>1. ASSUME UNCHANGED <<objClientTable, peer, accConn, recvMsgList, onoff>> PROVE NoticeInv'
  BY <1>1 DEF NoticeInv, LoggedIn
<1>2. CASE Accept
  <2>1. Head(backlog) \in Conns /\ sock[Head(backlog)] = "backlog" /\ accConn = None
    BY <1>2 DEF Accept, BacklogInv, LoginInv
  <2>2. UNCHANGED <<objClientTable, peer, recvMsgList, onoff>>
    BY <1>2 DEF Accept
  <2> QED
    BY <2>1, <2>2, QuietNotices DEF LoggedIn
<1>3. CASE ReadLogin
  <2>1. accConn \in Conns /\ \A k \in Keys : objClientTable[k] # accConn
    <3>1. accConn \in Conns /\ sock[accConn] = "login"
      BY <1>3 DEF ReadLogin, AcceptInv
    <3> QED
      BY <3>1, RegisteredIsInSession
  <2>2. UNCHANGED <<objClientTable, recvMsgList, onoff>>
    BY <1>3 DEF ReadLogin
  <2>3. \A c \in Conns : c # accConn => peer'[c] = peer[c]
    BY <1>3, <2>1 DEF ReadLogin, CloseSocket
  <2>4. \A k \in Keys : LoggedIn(k)' => LoggedIn(k)
    BY <2>1, <2>2, <2>3 DEF LoggedIn
  <2> QED
    BY <2>2, <2>4, QuietNotices
<1>4. CASE CheckClient
  <2>1. accKey \in Keys /\ ClientClose(accKey)
    BY <1>4 DEF CheckClient, AcceptInv
  <2> QED
    BY <1>4, <2>1, ClosingKeepsNotices DEF CheckClient
<1>5. CASE InitSession
  BY <1>1, <1>5 DEF InitSession
<1>6. CASE PutSession
  <2>1. accConn \in Conns /\ accKey \in Keys /\ UNCHANGED <<accConn, peer, recvMsgList, onoff>>
    BY <1>6 DEF PutSession, AcceptInv
  <2>2. objClientTable' = [objClientTable EXCEPT ![accKey] = accConn]
    BY <1>6 DEF PutSession
  <2> QED
    BY <2>1, <2>2, QuietNotices DEF LoggedIn
<1>7. CASE LoginReply
  <2>1. accConn \in Conns /\ UNCHANGED <<objClientTable, peer, recvMsgList, onoff>>
    BY <1>7 DEF LoginReply, AcceptInv, tableVars
  <2>2. ASSUME NEW k \in Keys, LoggedIn(k)' PROVE LoggedIn(k)
    <3>1. CASE accConn' = accConn
      BY <2>1, <2>2, <3>1 DEF LoggedIn
    <3>2. CASE sock[accConn] # "session" \/ peer[accConn] = "gone"
      BY <2>1, <2>2, <3>2 DEF LoggedIn, RegisteredIsOpen
    <3> QED
      BY <1>7, <3>1, <3>2 DEF LoginReply
  <2> QED
    BY <2>1, <2>2, QuietNotices
<1>8. CASE NotifyOnline
  <2> SUFFICES ASSUME ~DbMayFail, NEW k \in Keys, LoggedIn(k)'
               PROVE  Told(recvMsgList', onoff'[k], k)
    BY DEF NoticeInv, Told
  <2>1. /\ accConn \in Conns /\ accKey \in Keys /\ mClientKey[accConn] = accKey
        /\ UNCHANGED <<objClientTable, peer, onoff>>
        /\ recvMsgList' = Append(recvMsgList, Notice("ONLINE", accKey))
    BY <1>8 DEF NotifyOnline, AcceptInv, LoginInv
  <2>2. CASE k = accKey
    BY <2>1, <2>2, OnlineTells
  <2>3. CASE k # accKey
    <3>1. objClientTable[k] # accConn
      BY <2>1, <2>3 DEF RegisteredIsOpen
    <3>2. LoggedIn(k)
      BY <2>1, <3>1 DEF LoggedIn
    <3>3. Told(recvMsgList, onoff[k], k)
      BY <3>2 DEF NoticeInv
    <3>4. Notice("ONLINE", accKey) \in Message /\ Notice("ONLINE", accKey) # Notice("OFFLINE", k)
      BY <2>1 DEF Notice, Message
    <3> QED
      BY <2>1, <3>3, <3>4, AppendKeepsTold
  <2> QED
    BY <2>2, <2>3
<1>9. CASE MsgCtrl
  <2> SUFFICES ASSUME ~DbMayFail, NEW k \in Keys, LoggedIn(k)'
               PROVE  Told(recvMsgList', onoff'[k], k)
    BY DEF NoticeInv, Told
  <2>1. /\ recvMsgList # <<>> /\ recvMsgList' = Tail(recvMsgList)
        /\ UNCHANGED <<objClientTable, peer, accConn>>
    BY <1>9 DEF MsgCtrl, acceptVars
  <2>2. Told(recvMsgList, onoff[k], k)
    BY <2>1 DEF LoggedIn, NoticeInv
  <2> DEFINE m == Head(recvMsgList)
  <2>3. m \in Message
    BY <2>1
  <2>4. m = Notice("ONLINE", k) => onoff'[k] = "0"
    BY <1>9 DEF MsgCtrl, Notice
  <2>5. m \notin AboutKey(k) => onoff'[k] = onoff[k]
    <3> SUFFICES ASSUME m \notin AboutKey(k) PROVE onoff'[k] = onoff[k]
      OBVIOUS
    <3>1. CASE m.key = k
      <4>1. m = [kind |-> m.kind, key |-> k]
        BY <2>3, <3>1 DEF Message
      <4>2. m.kind # "ONLINE" /\ m.kind # "OFFLINE"
        BY <4>1 DEF AboutKey, Notice
      <4> QED
        BY <1>9, <4>2 DEF MsgCtrl
    <3>2. CASE m.key # k
      BY <1>9, <3>2 DEF MsgCtrl
    <3> QED
      BY <3>1, <3>2
  <2> HIDE DEF m
  <2> QED
    BY <2>1, <2>2, <2>4, <2>5, HandlingKeepsTold DEF m
<1>10. ASSUME NEW k \in Keys, DisPatch(k) PROVE NoticeInv'
  BY <1>1, <1>10 DEF DisPatch, acceptVars, tableVars
<1>11. ASSUME NEW c \in Conns, Connect(c) PROVE NoticeInv'
  <2>1. \A k \in Keys : objClientTable[k] # c
    <3>1. sock[c] = "closed"
      BY <1>11 DEF Connect, Free
    <3> QED
      BY <3>1, RegisteredIsInSession
  <2> QED
    BY <1>11, <2>1, QuietNotices DEF Connect, LoggedIn
<1>12. ASSUME NEW c \in Conns, PeerLost(c, "gone") \/ PeerLost(c, "mute") PROVE NoticeInv'
  <2>1. /\ UNCHANGED <<objClientTable, accConn, recvMsgList, onoff>>
        /\ \A d \in Conns : peer[d] = "gone" => peer'[d] = "gone"
    BY <1>12 DEF PeerLost, acceptVars
  <2> QED
    BY <2>1, QuietNotices DEF LoggedIn
<1>13. ASSUME NEW c \in Conns, Finalize(c) PROVE NoticeInv'
  <2>1. /\ UNCHANGED <<objClientTable, accConn, recvMsgList, onoff>>
        /\ \A d \in Conns : peer[d] = "gone" => peer'[d] = "gone"
    BY <1>13 DEF Finalize, CloseSocket, acceptVars
  <2> QED
    BY <2>1, QuietNotices DEF LoggedIn
<1>14. ASSUME NEW c \in Conns, RecvFrame(c) PROVE NoticeInv'
  <2>1. UNCHANGED <<objClientTable, peer, accConn, onoff>>
    BY <1>14 DEF RecvFrame, acceptVars
  <2>2. Notice("DATA", mClientKey[c]) \in Message /\ \A k \in Keys : Notice("DATA", mClientKey[c]) # Notice("OFFLINE", k)
    BY <1>14 DEF RecvFrame, ThreadsInv, Notice, Message
  <2>3. recvMsgList' = recvMsgList \/ recvMsgList' = Append(recvMsgList, Notice("DATA", mClientKey[c]))
    BY <1>14 DEF RecvFrame
  <2> QED
    BY <2>1, <2>2, <2>3, QuietNotices DEF LoggedIn
<1>15. ASSUME NEW c \in Conns, RecvClose(c) \/ SendClose(c) \/ MonExpire(c) \/ MonLeave(c)
       PROVE  NoticeInv'
  <2>1. mClientKey[c] \in Keys /\ ClientClose(mClientKey[c]) /\ onoff' = onoff /\ accConn' = accConn
    BY <1>15 DEF RecvClose, SendClose, MonExpire, MonLeave, ThreadsInv, acceptVars
  <2> QED
    BY <2>1, ClosingKeepsNotices
<1>16. ASSUME NEW c \in Conns, RecvEnd(c) \/ SendTake(c) \/ SendWrite(c) \/ SendEnd(c)
       PROVE  NoticeInv'
  BY <1>1, <1>16 DEF RecvEnd, SendTake, SendWrite, SendEnd, acceptVars, tableVars
<1>17. ASSUME NEW c \in Conns, MonTick(c) \/ MonCount(c) \/ MonEnd(c) PROVE NoticeInv'
  BY <1>1, <1>17 DEF MonTick, MonCount, MonEnd, acceptVars, tableVars
<1>18. CASE UNCHANGED vars
  BY <1>1, <1>18 DEF vars, acceptVars, tableVars
<1> QED
  BY <1>2, <1>3, <1>4, <1>5, <1>6, <1>7, <1>8, <1>9, <1>10, <1>11, <1>12, <1>13, <1>14, <1>15, <1>16,
     <1>17, <1>18
     DEF Next, AcceptThread, Environment, RecvThrd, SendThrd, Monitor

\* If no update fails: once MsgCtrl has handled the notices about a client that is
\* logged in, the client is shown online, whoever closed its earlier sessions and
\* whenever, with and without OFFLINE notices.
THEOREM LoggedInIsShownOnline == Spec => []SessionShownOnline
<1>1. Init => LoginInv /\ NoticeInv
  BY DEF Init, LoginInv, NoticeInv, LoggedIn
<1>2. IInv /\ NoticeInv => SessionShownOnline
  <2> SUFFICES ASSUME IInv, NoticeInv, ~DbMayFail, NEW k \in Keys, LoggedIn(k),
                      \A i \in DOMAIN recvMsgList : recvMsgList[i] \notin AboutKey(k)
               PROVE  onoff[k] = "0"
    BY DEF SessionShownOnline
  <2>1. Told(recvMsgList, onoff[k], k)
    BY DEF NoticeInv
  <2>2. DOMAIN recvMsgList = 1 .. Len(recvMsgList)
    BY DEF IInv, TypeOK
  <2> QED
    BY <2>1, <2>2 DEF Told, AboutKey
<1> QED
  BY <1>1, <1>2, Invariant, LoginInvStep, NoticeInvStep, PTL DEF Spec

=============================================================================
