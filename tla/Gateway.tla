------------------------------ MODULE Gateway ------------------------------
(***************************************************************************)
(* The connection life cycle of the device gateway: the accept thread, the *)
(* session table objClientTable, and the three threads of every session    *)
(* (receive, send, monitor), which all end a session by calling            *)
(* ClientClose(m_ClientKey).  Translated from                              *)
(*   XNY-LOCAL-AppSvr2/net/TcpSvr.java                   (AppSvr2), and    *)
(*   XNY-LOCAL-AppSvr/net/{TcpSvrBase,appsvr/TcpSvrAppGateWay}.java        *)
(* (AppSvr), which differ in ClientClose: see OfflineNotice.               *)
(*                                                                         *)
(* Every step between two points where another thread can intervene is an  *)
(* action.  The bodies of ClientClose, DisPatch and the table insertion    *)
(* run under markClientTable, so each is a single step.                    *)
(***************************************************************************)
EXTENDS Naturals, Sequences

CONSTANTS
  Keys,               \* client identities (CPM ids)
  Conns,              \* identities of TCP connections, reused once free
  None,               \* null
  ACTIVE_TEST_START,  \* silent periods before the first active test
  ACTIVE_TEST_END,    \* silent periods after which the session is expired
  OfflineNotice,      \* ClientClose queues an OFFLINE notice: AppSvr yes, AppSvr2 no
  DbMayFail,          \* the update a notice leads to may fail (and is then lost)
  MaxRecvMsgs,        \* bound: clients add to recvMsgList below this length
  MaxSendMsgs         \* bound: frames arrive with at most so many queued for the
                      \* client, and add to sendMsgList, as callers do, below it

ASSUME GatewayAssumption ==
  /\ None \notin Conns
  /\ None \notin Keys
  /\ ACTIVE_TEST_START \in Nat
  /\ ACTIVE_TEST_END \in Nat
  /\ OfflineNotice \in BOOLEAN
  /\ DbMayFail \in BOOLEAN

VARIABLES
  backlog,      \* connections the kernel has completed, in order of arrival
  sock,         \* sock[c]: what became of the server's end of c
  peer,         \* peer[c]: the client is "up", "mute" (lost silently) or "gone" (FIN or RST)
  accPc,        \* where the accept thread is in its loop
  accConn,      \* its objClient
  accKey,       \* the PId it has read from the login
  objClientTable, \* key -> session
  mClientKey,   \* mClientKey[c]: m_ClientKey of the session on c
  recv,         \* recv[c], send[c], mon[c]: where the threads of c are
  send,
  mon,
  testSta,      \* testSta[c]: m_TestSta, silent periods counted by the monitor
  sendMsgList,  \* sendMsgList[c]: number of frames queued for the client
  recvMsgList,  \* what is queued for MsgCtrl
  onoff         \* device_detail.onoff: "0" shown online, "1" shown offline

acceptVars  == <<backlog, accPc, accConn, accKey>>
threadVars  == <<recv, send, mon, testSta, sendMsgList>>
tableVars   == <<objClientTable, sock, peer, recvMsgList>>
vars == <<acceptVars, threadVars, tableVars, mClientKey, onoff>>

-----------------------------------------------------------------------------
SockState   == {"backlog", "login", "session", "dropped", "closed"}
PeerState   == {"up", "mute", "gone"}
AcceptState == {"accept", "read", "check", "start", "put", "reply", "notify"}
RecvState   == {"off", "run", "close"}
SendState   == {"off", "run", "write", "close"}
MonState    == {"off", "run", "tick", "expire", "leave"}
Message     == [kind : {"ONLINE", "OFFLINE", "DATA"}, key : Keys]
Notice(kind, k) == [kind |-> kind, key |-> k]

\* A connection identity nobody refers to any more.
Free(c) == /\ sock[c] = "closed" /\ accConn # c
           /\ recv[c] = "off" /\ send[c] = "off" /\ mon[c] = "off"

Init == /\ backlog = <<>>
        /\ sock = [c \in Conns |-> "closed"]
        /\ peer = [c \in Conns |-> "gone"]
        /\ accPc = "accept" /\ accConn = None /\ accKey = None
        /\ objClientTable = [k \in Keys |-> None]
        /\ mClientKey = [c \in Conns |-> None]
        /\ recv = [c \in Conns |-> "off"]
        /\ send = [c \in Conns |-> "off"]
        /\ mon  = [c \in Conns |-> "off"]
        /\ testSta = [c \in Conns |-> 0]
        /\ sendMsgList = [c \in Conns |-> 0]
        /\ recvMsgList = <<>>
        /\ onoff \in [Keys -> {"0", "1"}]

-----------------------------------------------------------------------------
(* The clients and the network *)

\* A client connects; the kernel completes the connection on its own.
Connect(c) ==
  /\ Free(c)
  /\ Len(recvMsgList) < MaxRecvMsgs
  /\ sock' = [sock EXCEPT ![c] = "backlog"]
  /\ peer' = [peer EXCEPT ![c] = "up"]
  /\ backlog' = Append(backlog, c)
  /\ UNCHANGED <<accPc, accConn, accKey, objClientTable, mClientKey, threadVars,
                 recvMsgList, onoff>>

\* The client closes or resets the connection (its earlier data has been read),
\* or it disappears without a FIN.
PeerLost(c, how) ==
  /\ peer[c] = "up"
  /\ how \in {"gone", "mute"}
  /\ peer' = [peer EXCEPT ![c] = how]
  /\ UNCHANGED <<acceptVars, threadVars, objClientTable, sock, recvMsgList, mClientKey, onoff>>

\* The server's end of c is closed: for its threads as if the client were gone.
CloseSocket(c) == /\ sock' = [sock EXCEPT ![c] = "closed"]
                  /\ peer' = [peer EXCEPT ![c] = "gone"]

\* A socket that nothing refers to is closed when the garbage collector runs
\* its finalizer, whenever that is.
Finalize(c) ==
  /\ sock[c] = "dropped"
  /\ CloseSocket(c)
  /\ UNCHANGED <<acceptVars, threadVars, objClientTable, recvMsgList, mClientKey, onoff>>

-----------------------------------------------------------------------------
(* ClientClose: called by the accept thread and by every session thread, with *)
(* a key and never with a session.                                            *)

CloseNotice(k, c) ==
  IF OfflineNotice /\ sock[c] = "session"
    THEN Append(recvMsgList, Notice("OFFLINE", k))
    ELSE recvMsgList

\* Mutants (each operator named after a definition and a fault): the entry stays
\* in the table after its socket is closed, ...
ClientCloseWithoutRemove(k) ==
  IF objClientTable[k] = None
    THEN UNCHANGED tableVars
    ELSE /\ CloseSocket(objClientTable[k])
         /\ recvMsgList' = CloseNotice(k, objClientTable[k])
         /\ UNCHANGED objClientTable

\* ... or the socket stays open after its entry is removed.
ClientCloseWithoutClose(k) ==
  /\ objClientTable' = [objClientTable EXCEPT ![k] = None]
  /\ UNCHANGED <<sock, peer, recvMsgList>>

ClientClose(k) ==
  \/ /\ objClientTable[k] = None
     /\ UNCHANGED tableVars
  \/ /\ objClientTable[k] # None
     /\ CloseSocket(objClientTable[k])
     /\ objClientTable' = [objClientTable EXCEPT ![k] = None]
     /\ recvMsgList' = CloseNotice(k, objClientTable[k])

-----------------------------------------------------------------------------
(* The accept thread *)

Accept ==
  /\ accPc = "accept"
  /\ backlog # <<>>
  /\ accConn' = Head(backlog)
  /\ backlog' = Tail(backlog)
  /\ sock' = [sock EXCEPT ![Head(backlog)] = "login"]
  /\ accPc' = "read"
  /\ UNCHANGED <<accKey, objClientTable, mClientKey, threadVars, recvMsgList, peer, onoff>>

\* The accept thread forgets objClient and takes the next connection.
GiveUp ==
  accPc' = "accept" /\ accConn' = None /\ accKey' = None

\* Mutants of the login's read: the test for a null PId is missing, ...
ReadLoginUnchecked ==
  /\ accPc = "read"
  /\ \/ \E k \in Keys : accKey' = k /\ accPc' = "check"
     \/ accPc' = "notify" /\ UNCHANGED accKey
  /\ UNCHANGED <<backlog, accConn, threadVars, tableVars, mClientKey, onoff>>

\* ... or the accepted socket has no timeout: the read waits for the client.
ReadLoginForever ==
  /\ accPc = "read"
  /\ \/ /\ peer[accConn] = "up"
        /\ \E k \in Keys : accKey' = k
        /\ accPc' = "check"
        /\ UNCHANGED <<sock, peer, accConn>>
     \/ /\ peer[accConn] = "gone"
        /\ CloseSocket(accConn)
        /\ GiveUp
  /\ UNCHANGED <<backlog, objClientTable, mClientKey, threadVars, recvMsgList, onoff>>

\* One read: a login, too few bytes or end of stream (the socket is closed),
\* another command (CheckClient returns null), a timeout or an exception (the
\* socket is left as it is).
ReadLogin ==
  /\ accPc = "read"
  /\ \/ /\ \E k \in Keys : accKey' = k
        /\ accPc' = "check"
        /\ UNCHANGED <<sock, peer, accConn>>
     \/ /\ peer[accConn] # "mute"
        /\ CloseSocket(accConn)
        /\ GiveUp
     \/ /\ sock' = [sock EXCEPT ![accConn] = "dropped"]
        /\ GiveUp
        /\ UNCHANGED peer
  /\ UNCHANGED <<backlog, objClientTable, mClientKey, threadVars, recvMsgList, onoff>>

\* Mutant: whether the client already has a session is not looked up.
CheckClientBlindly ==
  /\ accPc = "check"
  /\ accPc' = "start"
  /\ UNCHANGED <<backlog, accConn, accKey, threadVars, tableVars, mClientKey, onoff>>

\* The previous session of the same client, if any, is closed.
CheckClient ==
  /\ accPc = "check"
  /\ ClientClose(accKey)
  /\ accPc' = "start"
  /\ UNCHANGED <<backlog, accConn, accKey, threadVars, mClientKey, onoff>>

\* ClientSocket.init: the session's threads run before it is in the table.
InitSession ==
  /\ accPc = "start"
  /\ sock' = [sock EXCEPT ![accConn] = "session"]
  /\ mClientKey' = [mClientKey EXCEPT ![accConn] = accKey]
  /\ recv' = [recv EXCEPT ![accConn] = "run"]
  /\ send' = [send EXCEPT ![accConn] = "run"]
  /\ mon'  = [mon EXCEPT ![accConn] = "run"]
  /\ testSta' = [testSta EXCEPT ![accConn] = 0]
  /\ sendMsgList' = [sendMsgList EXCEPT ![accConn] = 0]
  /\ accPc' = "put"
  /\ UNCHANGED <<backlog, accConn, accKey, objClientTable, recvMsgList, peer, onoff>>

PutSession ==
  /\ accPc = "put"
  /\ objClientTable' = [objClientTable EXCEPT ![accKey] = accConn]
  /\ accPc' = "reply"
  /\ UNCHANGED <<backlog, accConn, accKey, threadVars, sock, recvMsgList, peer, mClientKey, onoff>>

\* The login reply and setSoTimeout(0).  An exception (the session was closed
\* meanwhile, or the client is no longer there) skips the ONLINE notice.
LoginReply ==
  /\ accPc = "reply"
  /\ \/ /\ sock[accConn] = "session"
        /\ accPc' = "notify"
        /\ UNCHANGED <<accConn, accKey>>
     \/ /\ sock[accConn] # "session" \/ peer[accConn] = "gone"
        /\ GiveUp
  /\ UNCHANGED <<backlog, threadVars, tableVars, mClientKey, onoff>>

\* Mutant: the notice overtakes those already queued.
NotifyOnlineFirst ==
  /\ accPc = "notify"
  /\ recvMsgList' = <<Notice("ONLINE", accKey)>> \o recvMsgList
  /\ GiveUp
  /\ UNCHANGED <<backlog, threadVars, objClientTable, sock, peer, mClientKey, onoff>>

NotifyOnline ==
  /\ accPc = "notify"
  /\ recvMsgList' = Append(recvMsgList, Notice("ONLINE", accKey))
  /\ GiveUp
  /\ UNCHANGED <<backlog, threadVars, objClientTable, sock, peer, mClientKey, onoff>>

AcceptThread == \/ Accept \/ ReadLogin \/ CheckClient \/ InitSession
                \/ PutSession \/ LoginReply \/ NotifyOnline

-----------------------------------------------------------------------------
(* RecvThrd *)

\* Bytes arrive: m_TestSta = 0 (overwritten when the monitor is between reading
\* and writing it), a command frame is answered, and one that carries data is
\* passed on.
RecvFrame(c) ==
  /\ recv[c] = "run" /\ sock[c] = "session" /\ peer[c] = "up"
  /\ sendMsgList[c] <= MaxSendMsgs
  /\ testSta' = [testSta EXCEPT ![c] = IF mon[c] = "tick" THEN @ ELSE 0]
  /\ \/ UNCHANGED <<sendMsgList, recvMsgList>>                \* an answer, or part of a frame
     \/ /\ sendMsgList[c] < MaxSendMsgs
        /\ sendMsgList' = [sendMsgList EXCEPT ![c] = @ + 1]   \* an active test
        /\ UNCHANGED recvMsgList
     \/ /\ sendMsgList[c] < MaxSendMsgs
        /\ Len(recvMsgList) < MaxRecvMsgs
        /\ sendMsgList' = [sendMsgList EXCEPT ![c] = @ + 1]   \* SUBMMIT or DELIVER
        /\ recvMsgList' = Append(recvMsgList, Notice("DATA", mClientKey[c]))
  /\ UNCHANGED <<acceptVars, recv, send, mon, objClientTable, sock, peer, mClientKey, onoff>>

\* Mutant: the accept thread's read timeout stays on the session's socket.
RecvEndOnTimeout(c) ==
  /\ recv[c] = "run"
  /\ recv' = [recv EXCEPT ![c] = "close"]
  /\ UNCHANGED <<acceptVars, send, mon, testSta, sendMsgList, tableVars, mClientKey, onoff>>

\* End of stream, or the socket was closed under the thread.
RecvEnd(c) ==
  /\ recv[c] = "run"
  /\ sock[c] = "closed" \/ peer[c] = "gone"
  /\ recv' = [recv EXCEPT ![c] = "close"]
  /\ UNCHANGED <<acceptVars, send, mon, testSta, sendMsgList, tableVars, mClientKey, onoff>>

RecvClose(c) ==
  /\ recv[c] = "close"
  /\ ClientClose(mClientKey[c])
  /\ recv' = [recv EXCEPT ![c] = "off"]
  /\ UNCHANGED <<acceptVars, send, mon, testSta, sendMsgList, mClientKey, onoff>>

(* SendThrd *)

\* The test of the socket and the removal of a frame.  The socket may be closed
\* between them, but what is left in the queue of a closed session nobody reads:
\* it makes no difference to the frame removed just before the socket is closed,
\* whose write fails as well.
SendTake(c) ==
  /\ send[c] = "run" /\ sock[c] # "closed"
  /\ sendMsgList[c] > 0
  /\ sendMsgList' = [sendMsgList EXCEPT ![c] = @ - 1]
  /\ send' = [send EXCEPT ![c] = "write"]
  /\ UNCHANGED <<acceptVars, recv, mon, testSta, tableVars, mClientKey, onoff>>

SendWrite(c) ==
  /\ send[c] = "write"
  /\ \/ /\ sock[c] # "closed"
        /\ send' = [send EXCEPT ![c] = "run"]
     \/ /\ sock[c] = "closed" \/ peer[c] # "up"
        /\ send' = [send EXCEPT ![c] = "close"]               \* SocketException
  /\ UNCHANGED <<acceptVars, recv, mon, testSta, sendMsgList, tableVars, mClientKey, onoff>>

SendEnd(c) ==
  /\ send[c] = "run" /\ sock[c] = "closed"
  /\ send' = [send EXCEPT ![c] = "close"]
  /\ UNCHANGED <<acceptVars, recv, mon, testSta, sendMsgList, tableVars, mClientKey, onoff>>

SendClose(c) ==
  /\ send[c] = "close"
  /\ ClientClose(mClientKey[c])
  /\ send' = [send EXCEPT ![c] = "off"]
  /\ UNCHANGED <<acceptVars, recv, mon, testSta, sendMsgList, mClientKey, onoff>>

(* The monitor (ClientSocket.run) *)

\* A period has passed: m_TestSta++ is a read ...
MonTick(c) ==
  /\ mon[c] = "run" /\ sock[c] # "closed"
  /\ mon' = [mon EXCEPT ![c] = "tick"]
  /\ UNCHANGED <<acceptVars, recv, send, testSta, sendMsgList, tableVars, mClientKey, onoff>>

\* Mutant: the count starts anew with every active test.
MonCountRestarts(c) ==
  LET n == IF testSta[c] > ACTIVE_TEST_END THEN testSta[c] ELSE testSta[c] + 1 IN
  /\ mon[c] = "tick"
  /\ \/ /\ n > ACTIVE_TEST_END
        /\ mon' = [mon EXCEPT ![c] = "expire"]
        /\ testSta' = [testSta EXCEPT ![c] = n]
        /\ UNCHANGED sendMsgList
     \/ /\ n <= ACTIVE_TEST_END
        /\ mon' = [mon EXCEPT ![c] = "run"]
        /\ IF n >= ACTIVE_TEST_START
             THEN /\ sendMsgList' = [sendMsgList EXCEPT ![c] = @ + 1]
                  /\ testSta' = [testSta EXCEPT ![c] = 0]
             ELSE /\ testSta' = [testSta EXCEPT ![c] = n]
                  /\ UNCHANGED sendMsgList
  /\ UNCHANGED <<acceptVars, recv, send, tableVars, mClientKey, onoff>>

\* ... and a write; the new count decides.  The count saturates one above
\* ACTIVE_TEST_END, with which alone it is compared.
MonCount(c) ==
  LET n == IF testSta[c] > ACTIVE_TEST_END THEN testSta[c] ELSE testSta[c] + 1 IN
  /\ mon[c] = "tick"
  /\ testSta' = [testSta EXCEPT ![c] = n]
  /\ \/ /\ n > ACTIVE_TEST_END
        /\ mon' = [mon EXCEPT ![c] = "expire"]
        /\ UNCHANGED sendMsgList
     \/ /\ n <= ACTIVE_TEST_END
        /\ mon' = [mon EXCEPT ![c] = "run"]
        /\ sendMsgList' = IF n >= ACTIVE_TEST_START
                            THEN [sendMsgList EXCEPT ![c] = @ + 1]
                            ELSE sendMsgList
  /\ UNCHANGED <<acceptVars, recv, send, tableVars, mClientKey, onoff>>

\* Mutant: an expired monitor leaves its loop.
MonExpireAndBreak(c) ==
  /\ mon[c] = "expire"
  /\ ClientClose(mClientKey[c])
  /\ mon' = [mon EXCEPT ![c] = "off"]
  /\ UNCHANGED <<acceptVars, recv, send, testSta, sendMsgList, mClientKey, onoff>>

\* Too many silent periods: the session is closed, and the loop goes on.
MonExpire(c) ==
  /\ mon[c] = "expire"
  /\ ClientClose(mClientKey[c])
  /\ mon' = [mon EXCEPT ![c] = "run"]
  /\ UNCHANGED <<acceptVars, recv, send, testSta, sendMsgList, mClientKey, onoff>>

MonEnd(c) ==
  /\ mon[c] = "run" /\ sock[c] = "closed"
  /\ mon' = [mon EXCEPT ![c] = "leave"]
  /\ UNCHANGED <<acceptVars, recv, send, testSta, sendMsgList, tableVars, mClientKey, onoff>>

\* Mutant: the loop goes on after the socket is found closed.
MonLeaveNever(c) ==
  /\ mon[c] = "leave"
  /\ ClientClose(mClientKey[c])
  /\ mon' = [mon EXCEPT ![c] = "run"]
  /\ UNCHANGED <<acceptVars, recv, send, testSta, sendMsgList, mClientKey, onoff>>

MonLeave(c) ==
  /\ mon[c] = "leave"
  /\ ClientClose(mClientKey[c])
  /\ mon' = [mon EXCEPT ![c] = "off"]
  /\ UNCHANGED <<acceptVars, recv, send, testSta, sendMsgList, mClientKey, onoff>>

-----------------------------------------------------------------------------
(* DisPatch and MsgCtrl *)

\* A command for a client: it is queued for the session in the table.
DisPatch(k) ==
  /\ objClientTable[k] # None
  /\ sendMsgList[objClientTable[k]] < MaxSendMsgs
  /\ sendMsgList' = [sendMsgList EXCEPT ![objClientTable[k]] = @ + 1]
  /\ UNCHANGED <<acceptVars, recv, send, mon, testSta, tableVars, mClientKey, onoff>>

\* Mutant: the newest message first.
MsgCtrlNewest ==
  /\ recvMsgList # <<>>
  /\ recvMsgList' = SubSeq(recvMsgList, 1, Len(recvMsgList) - 1)
  /\ LET m == recvMsgList[Len(recvMsgList)] IN
     onoff' = IF m.kind = "DATA" THEN onoff
                ELSE [onoff EXCEPT ![m.key] = IF m.kind = "ONLINE" THEN "0" ELSE "1"]
  /\ UNCHANGED <<acceptVars, threadVars, objClientTable, sock, peer, mClientKey>>

\* MsgCtrl takes one message and handles it; a notice sets device_detail.onoff.
MsgCtrl ==
  /\ recvMsgList # <<>>
  /\ recvMsgList' = Tail(recvMsgList)
  /\ LET m == Head(recvMsgList) IN
     \/ /\ m.kind = "ONLINE"  /\ onoff' = [onoff EXCEPT ![m.key] = "0"]
     \/ /\ m.kind = "OFFLINE" /\ onoff' = [onoff EXCEPT ![m.key] = "1"]
     \/ /\ m.kind = "DATA" \/ DbMayFail
        /\ UNCHANGED onoff
  /\ UNCHANGED <<acceptVars, threadVars, objClientTable, sock, peer, mClientKey>>

-----------------------------------------------------------------------------
RecvThrd(c) == RecvFrame(c) \/ RecvEnd(c) \/ RecvClose(c)
SendThrd(c) == SendTake(c) \/ SendWrite(c) \/ SendEnd(c) \/ SendClose(c)
Monitor(c)  == MonTick(c) \/ MonCount(c) \/ MonExpire(c) \/ MonEnd(c) \/ MonLeave(c)

Environment(c) == Connect(c) \/ PeerLost(c, "gone") \/ PeerLost(c, "mute") \/ Finalize(c)

Next == \/ AcceptThread
        \/ MsgCtrl
        \/ \E k \in Keys : DisPatch(k)
        \/ \E c \in Conns : Environment(c) \/ RecvThrd(c) \/ SendThrd(c) \/ Monitor(c)

\* The threads are scheduled and the accept thread's read times out; what a
\* client sends, and when it comes and goes, is its own affair.
Fairness ==
  /\ WF_vars(AcceptThread)
  /\ WF_vars(MsgCtrl)
  /\ \A c \in Conns : /\ WF_vars(RecvEnd(c) \/ RecvClose(c))
                      /\ WF_vars(SendThrd(c))
                      /\ WF_vars(Monitor(c))

Spec == Init /\ [][Next]_vars
FairSpec == Spec /\ Fairness
-----------------------------------------------------------------------------
(* Properties *)

TypeOK ==
  /\ backlog \in Seq(Conns)
  /\ sock \in [Conns -> SockState]
  /\ peer \in [Conns -> PeerState]
  /\ accPc \in AcceptState
  /\ accConn \in Conns \union {None}
  /\ accKey \in Keys \union {None}
  /\ objClientTable \in [Keys -> Conns \union {None}]
  /\ mClientKey \in [Conns -> Keys \union {None}]
  /\ recv \in [Conns -> RecvState]
  /\ send \in [Conns -> SendState]
  /\ mon \in [Conns -> MonState]
  /\ testSta \in [Conns -> 0 .. ACTIVE_TEST_END + 1]
  /\ sendMsgList \in [Conns -> Nat]
  /\ recvMsgList \in Seq(Message)
  /\ onoff \in [Keys -> {"0", "1"}]

\* The table never routes a command to a session that is over or to another
\* client's: what DisPatch finds under k is an open session of client k.
RegisteredIsOpen ==
  \A k \in Keys : objClientTable[k] # None =>
     /\ sock[objClientTable[k]] = "session"
     /\ mClientKey[objClientTable[k]] = k

\* No open session is ever lost: a session whose socket is open is the one in
\* the table under its key, except while the accept thread is about to put it
\* there.  With the table being a function, a client has at most one open session.
OpenIsRegistered ==
  \A c \in Conns : sock[c] = "session" =>
     \/ objClientTable[mClientKey[c]] = c
     \/ accPc = "put" /\ accConn = c /\ mClientKey[c] = accKey

\* Whatever has happened to the other threads of a session, as long as its socket
\* is open its monitor is still counting, so that a zombie is expired.
WatchdogAlive ==
  \A c \in Conns : sock[c] = "session" => mon[c] \in {"run", "tick", "expire"}

\* While the client of an open session is there, no thread of the session has
\* given up: its frames are read and its commands are sent.
LiveSessionServed ==
  \A c \in Conns : sock[c] = "session" =>
     /\ peer[c] # "gone" => recv[c] = "run"
     /\ peer[c] = "up" => send[c] \in {"run", "write"}

\* The session table implements Sessions.tla; a session being initialised is
\* not alive yet.
Abstract == INSTANCE Sessions WITH
  current <- objClientTable,
  live <- {c \in Conns : sock[c] = "session" /\ ~(accPc = "put" /\ accConn = c)}
ImplementsSessions == Abstract!Spec

\* A session whose client has hung up or vanished is closed, at the latest when
\* the monitor has counted ACTIVE_TEST_END silent periods.
Evicted(c) == (sock[c] = "session" /\ peer[c] # "up") ~> sock[c] # "session"

\* A closed session's three threads end.
Ended(c) == sock[c] = "closed" ~> Free(c)

\* No client that connects waits forever for the accept thread, however many
\* others are silent, refused or closed.
Served(c) == sock[c] = "backlog" ~> sock[c] # "backlog"

\* A client whose session lasts is in the end shown online, whatever notices of
\* its earlier sessions are still queued.
StableSessionShownOnline ==
  \A k \in Keys : <>[](objClientTable[k] # None) => <>[](onoff[k] = "0")

\* What makes that so, in every single state: the notices about a client leave the
\* queue in the order of the logins and closings they tell of.  So once a client
\* has been told it is logged in (its connection not failing meanwhile, else there
\* is no notice) and MsgCtrl has handled what was queued about it, it is shown
\* online, although the notices of its earlier sessions are queued by whichever
\* thread closed them.
AboutKey(k) == {Notice("ONLINE", k), Notice("OFFLINE", k)}
LoggedIn(k) == /\ objClientTable[k] # None
               /\ accConn # objClientTable[k]
               /\ peer[objClientTable[k]] # "gone"
SessionShownOnline ==
  ~DbMayFail => \A k \in Keys :
     LoggedIn(k) /\ (\A i \in DOMAIN recvMsgList : recvMsgList[i] \notin AboutKey(k))
        => onoff[k] = "0"

(* What the code's comments say and the code does not do *)

\* "If a close command is received, close the SOCKET and release the resources":
\* a thread that ends its session closes that session.  So an open session closes
\* only by the login of its client, or by a step of one of its own threads.
ClosedOnlyByOwnThread ==
  [][\A c \in Conns : (sock[c] = "session" /\ sock'[c] = "closed") =>
        \/ accPc = "check" /\ accPc' = "start"
        \/ <<recv[c], send[c], mon[c]>> # <<recv'[c], send'[c], mon'[c]>>]_vars

\* "CPM gateway offline ... handled in AppSvr": a client that had a session and
\* has none any more is in the end shown offline.
LostSessionShownOffline ==
  \A k \in Keys : <>(objClientTable[k] # None) =>
     ([]<>(objClientTable[k] # None) \/ <>[](onoff[k] = "1"))
=============================================================================
