---------------------------- MODULE CommandPath ----------------------------
(***************************************************************************)
(* The way of a device command through the system: the RMI server queues   *)
(* it (RmiImpl.Client), a send thread of TPCClient writes it to the        *)
(* gateway, the receive thread of the RMI server's session there queues it *)
(* again, MsgCtrl dispatches it to the session the device has at that      *)
(* moment, and the send thread of that session writes it to the device.    *)
(*                                                                         *)
(* The gateway's sessions are those of Sessions.tla, which Gateway.tla     *)
(* implements; the RMI server is one of the gateway's clients.  Uplink.tla *)
(* has the threads that keep its connection; here a connection is lost     *)
(* and made again.  The threads of what was lost run on for a while, at    *)
(* either end, and may close what has taken its place.                     *)
(***************************************************************************)
EXTENDS Naturals, Sequences

CONSTANTS
  Cmds,       \* commands the web submits, each once
  Devices,    \* client keys of devices
  Target,     \* Target[m]: the device m names (cpm_Id)
  Ctrl,       \* client key of the RMI server
  Conns,      \* connections to the gateway, reused when nothing refers to them
  None,       \* no connection
  MaxFaults   \* bound: failing connections and restarts of either server

ASSUME CommandPathAssumption ==
  /\ Target \in [Cmds -> Devices]
  /\ Ctrl \notin Devices
  /\ None \notin Conns
  /\ MaxFaults \in Nat

\* Where a command can be, in the order in which it gets there.
SendMsgList == <<"sendMsgList", Ctrl>>  \* TPCClient.sendMsgList: survives its connections
Taken(c)    == <<"taken", c>>           \* what the RMI server's send thread of c has removed from it
Wire(c)     == <<"wire", c>>            \* written to c, not read by the gateway
Buffer(c)   == <<"buffer", c>>          \* read by the receive thread of session c, not yet queued
RecvMsgList == <<"recvMsgList", Ctrl>>  \* TcpSvr.recvMsgList
Channel(c)  == <<"channel", c>>         \* ClientSocket.sendMsgList of session c
Flight(c)   == <<"flight", c>>          \* removed from it by the send thread, not received
Device(d)   == <<"device", d>>          \* received by device d

UplinkPlaces(c) == {Taken(c), Wire(c), Buffer(c)}
GatewayPlaces   == {RecvMsgList} \union {Wire(c) : c \in Conns} \union {Buffer(c) : c \in Conns}
                     \union {Channel(c) : c \in Conns} \union {Flight(c) : c \in Conns}
RmiPlaces       == {SendMsgList} \union {Taken(c) : c \in Conns}
DevicePlaces    == {Device(d) : d \in Devices}
Places          == RmiPlaces \union GatewayPlaces \union DevicePlaces

VARIABLES
  current,   \* the gateway's session table: current[k] is the session of key k
  live,      \* sessions whose socket is open at the gateway
  broken,    \* those among them whose client is no longer there
  stale,     \* keys of which threads of earlier sessions run at the gateway
  sender,    \* connections whose threads run at the RMI server
  queue,     \* queue[p]: the commands in place p, in order
  count,     \* commands submitted so far
  number,    \* number[m]: m was the number[m]-th of them; 0: not yet submitted
  via,       \* via[m]: the connection m was taken for, None before that
  faults     \* faults so far

vars == <<current, live, broken, stale, sender, queue, count, number, via, faults>>

Keys == Devices \union {Ctrl}

\* The session table, as Gateway.tla is shown to keep it.
Table == INSTANCE Sessions

In(p) == {queue[p][i] : i \in DOMAIN queue[p]}

Init == /\ Table!Init
        /\ broken = {}
        /\ stale = {}
        /\ sender = {}
        /\ queue = [p \in Places |-> <<>>]
        /\ count = 0
        /\ number = [m \in Cmds |-> 0]
        /\ via = [m \in Cmds |-> None]
        /\ faults = 0

-----------------------------------------------------------------------------
(* How commands move *)

\* The first command of place p goes to the end of place r.
Move(p, r) == /\ queue[p] # <<>>
              /\ queue' = [queue EXCEPT ![p] = Tail(@), ![r] = Append(@, Head(queue[p]))]

\* The first command of place p is lost.
Drop(p) == /\ queue[p] # <<>>
           /\ queue' = [queue EXCEPT ![p] = Tail(@)]

\* Whatever is in the places P is lost.
Clear(P) == queue' = [p \in Places |-> IF p \in P THEN <<>> ELSE queue[p]]

Up(c) == c \in live \ broken

Fault == /\ faults < MaxFaults
         /\ faults' = faults + 1

-----------------------------------------------------------------------------
(* The RMI server *)

\* RmiImpl.Client and SetSendMsg: the web is answered "0000".
Client(m) ==
  /\ number[m] = 0
  /\ number' = [number EXCEPT ![m] = count + 1]
  /\ count' = count + 1
  /\ queue' = [queue EXCEPT ![SendMsgList] = Append(@, m)]
  /\ UNCHANGED <<current, live, broken, stale, sender, via, faults>>

\* A connection name nothing refers to any more.
Free(c) == /\ c \notin live \union sender
           /\ \A p \in UplinkPlaces(c) : queue[p] = <<>>

\* A new connection: which of the free names it gets makes no difference.
New(c) == Free(c) /\ c = CHOOSE b \in Conns : Free(b)

\* TPCClient has reconnected: the gateway answers the login, the threads start.
\* A session it still holds for the RMI server is closed first (LoginAgain).
Reconnect(c) ==
  /\ New(c)
  /\ Table!Login(Ctrl, c)
  /\ sender' = sender \union {c}
  /\ UNCHANGED <<broken, stale, queue, count, number, via, faults>>

\* Mutants (each is named after a definition and a fault): the thread takes a
\* frame while it holds another, ...
TakeAgain(c) ==
  /\ c \in sender
  /\ Move(SendMsgList, Taken(c))
  /\ via' = [via EXCEPT ![Head(queue[SendMsgList])] = c]
  /\ UNCHANGED <<current, live, broken, stale, sender, count, number, faults>>

\* ... or leaves the frame it takes in the queue.
TakePeeks(c) ==
  /\ c \in sender
  /\ queue[Taken(c)] = <<>>
  /\ queue[SendMsgList] # <<>>
  /\ queue' = [queue EXCEPT ![Taken(c)] = <<Head(queue[SendMsgList])>>]
  /\ via' = [via EXCEPT ![Head(queue[SendMsgList])] = c]
  /\ UNCHANGED <<current, live, broken, stale, sender, count, number, faults>>

\* getSendMsgList: the thread removes a frame from the queue all threads share.
\* What it tests before is the shared connection, so it may do so when its own
\* one is lost.
Take(c) ==
  /\ c \in sender
  /\ queue[Taken(c)] = <<>>
  /\ Move(SendMsgList, Taken(c))
  /\ via' = [via EXCEPT ![Head(queue[SendMsgList])] = c]
  /\ UNCHANGED <<current, live, broken, stale, sender, count, number, faults>>

\* Mutant: the thread ends after a write.
WriteOnce(c) ==
  /\ \/ Up(c) /\ Move(Taken(c), Wire(c))
     \/ ~Up(c) /\ Drop(Taken(c))
  /\ sender' = sender \ {c}
  /\ UNCHANGED <<current, live, broken, stale, count, number, via, faults>>

\* A thread that finds its connection gone closes the shared one, which may be new.
CloseShared == broken' = broken \union ({current[Ctrl]} \intersect live)

\* SendChannel.write: to the thread's own connection.  If that is gone, the write
\* goes unnoticed, or it fails and the thread ends.
Write(c) ==
  /\ \/ /\ Up(c)
        /\ Move(Taken(c), Wire(c))
        /\ UNCHANGED <<broken, sender>>
     \/ /\ ~Up(c)
        /\ Drop(Taken(c))
        /\ \/ UNCHANGED <<broken, sender>>
           \/ /\ sender' = sender \ {c}
              /\ CloseShared
  /\ UNCHANGED <<current, live, stale, count, number, via, faults>>

\* Mutant: the thread leaves between taking a frame and writing it.
SenderEndsHolding(c) ==
  /\ c \in sender
  /\ ~Up(c)
  /\ sender' = sender \ {c}
  /\ UNCHANGED <<current, live, broken, stale, queue, count, number, via, faults>>

\* The threads of c end, the receive thread with a read that fails or returns
\* nothing, or either with the shared connection closed or cleared.  Threads of
\* another connection may have cleared it while c is still there.
SenderEnds(c) ==
  /\ c \in sender
  /\ queue[Taken(c)] = <<>>
  /\ \/ ~Up(c) /\ (CloseShared \/ UNCHANGED broken)
     \/ sender # {c} /\ UNCHANGED broken
  /\ sender' = sender \ {c}
  /\ UNCHANGED <<current, live, stale, queue, count, number, via, faults>>

-----------------------------------------------------------------------------
(* The gateway *)

\* Mutant: of what has arrived in one read, only the first frame is used.
RecvReadFirst(c) ==
  /\ c \in live
  /\ queue[Buffer(c)] = <<>>
  /\ \E n \in DOMAIN queue[Wire(c)] :
        queue' = [queue EXCEPT ![Wire(c)] = SubSeq(@, n + 1, Len(@)),
                               ![Buffer(c)] = <<Head(queue[Wire(c)])>>]
  /\ UNCHANGED <<current, live, broken, stale, sender, count, number, via, faults>>

\* The receive thread of the RMI server's session reads what has arrived, one
\* frame or more.
RecvRead(c) ==
  /\ c \in live
  /\ queue[Buffer(c)] = <<>>
  /\ \E n \in DOMAIN queue[Wire(c)] :
        queue' = [queue EXCEPT ![Wire(c)] = SubSeq(@, n + 1, Len(@)),
                               ![Buffer(c)] = SubSeq(queue[Wire(c)], 1, n)]
  /\ UNCHANGED <<current, live, broken, stale, sender, count, number, via, faults>>

\* Mutant: the newest message first.
SetRecvMsgListFirst(c) ==
  /\ queue[Buffer(c)] # <<>>
  /\ queue' = [queue EXCEPT ![Buffer(c)] = Tail(@),
                            ![RecvMsgList] = <<Head(queue[Buffer(c)])>> \o @]
  /\ UNCHANGED <<current, live, broken, stale, sender, count, number, via, faults>>

\* SetRecvMsgList: frame after frame of what was read is queued, even if the
\* session has been closed, or replaced, in the meantime.
SetRecvMsgList(c) ==
  /\ Move(Buffer(c), RecvMsgList)
  /\ UNCHANGED <<current, live, broken, stale, sender, count, number, via, faults>>

\* Mutant: a command for a device that is offline waits.
DisPatchWaits ==
  /\ queue[RecvMsgList] # <<>>
  /\ LET s == current[Target[Head(queue[RecvMsgList])]]
     IN  s # None /\ Move(RecvMsgList, Channel(s))
  /\ UNCHANGED <<current, live, broken, stale, sender, count, number, via, faults>>

\* MsgCtrl, DeviceControlBean.execRequest and TcpSvr.DisPatch, under the lock of
\* the table: the command joins the queue of the session its device has now.
\* Without a session it is dropped, and nobody is told.
DisPatch ==
  /\ queue[RecvMsgList] # <<>>
  /\ LET s == current[Target[Head(queue[RecvMsgList])]]
     IN  \/ s # None /\ Move(RecvMsgList, Channel(s))
         \/ s = None /\ Drop(RecvMsgList)
  /\ UNCHANGED <<current, live, broken, stale, sender, count, number, via, faults>>

\* getSendMsgList of the send thread of session c.
ChannelTake(c) ==
  /\ c \in live
  /\ Move(Channel(c), Flight(c))
  /\ UNCHANGED <<current, live, broken, stale, sender, count, number, via, faults>>

\* SendChannel.write, and the device reads it: while the session lasts, or never.
Receive(c) ==
  /\ Up(c)
  /\ \E d \in Devices : current[d] = c /\ Move(Flight(c), Device(d))
  /\ UNCHANGED <<current, live, broken, stale, sender, count, number, via, faults>>

\* A device logs in.
DeviceLogin(d, c) ==
  /\ New(c)
  /\ Table!Login(d, c)
  /\ UNCHANGED <<broken, stale, sender, queue, count, number, via, faults>>

\* Mutant: the queue of the session survives it.
ClientCloseKeepsQueue(k) ==
  /\ Table!Logout(k)
  /\ broken' = broken \ {current[k]}
  /\ stale' = stale \union {k}
  /\ Clear({Wire(current[k])})
  /\ UNCHANGED <<sender, count, number, via, faults>>

\* ClientClose: the session of key k, whichever it is.  What the connection and
\* the queue of the session hold is lost; what was read from it is not.  The
\* session's threads have yet to find it closed.
ClientClose(k) ==
  /\ Table!Logout(k)
  /\ broken' = broken \ {current[k]}
  /\ stale' = stale \union {k}
  /\ Clear({Wire(current[k]), Channel(current[k]), Flight(current[k])})
  /\ UNCHANGED <<sender, count, number, via, faults>>

\* Nobody is left at the other end of the session of k.
Gone(k) == current[k] \in broken \/ (k = Ctrl /\ current[k] \notin sender)

\* A thread of the session has noticed, by a read, a write or the active test.
Evict(k) == Gone(k) /\ ClientClose(k)

\* CheckClient: the client logs in although its session is there.  A device may do
\* so at any time; the RMI server only without a connection in use, which a
\* thread of another connection may have taken from it.
LoginAgain(k) == (k = Ctrl => Gone(k) \/ sender # {current[k]}) /\ ClientClose(k)

\* Each thread of a session that has been closed calls ClientClose(m_ClientKey)
\* before it ends, and closes the session its client has by then.
StaleThrd(k) ==
  /\ k \in stale
  /\ \/ ClientClose(k)
     \/ /\ current[k] = None
        /\ stale' = stale \ {k}
        /\ UNCHANGED <<current, live, broken, sender, queue, count, number, via, faults>>

-----------------------------------------------------------------------------
(* Faults *)

\* A connection fails, or one end gives it up, at once noticed or not at the other.
Break(c) ==
  /\ Fault
  /\ Up(c)
  /\ broken' = broken \union {c}
  /\ UNCHANGED <<current, live, stale, sender, queue, count, number, via>>

GatewayRestart ==
  /\ Fault
  /\ current' = [k \in Keys |-> None]
  /\ live' = {}
  /\ broken' = {}
  /\ stale' = {}
  /\ Clear(GatewayPlaces)
  /\ UNCHANGED <<sender, count, number, via>>

\* Its connection, if any, is gone with the threads.
RmiRestart ==
  /\ Fault
  /\ sender' = {}
  /\ CloseShared
  /\ Clear(RmiPlaces)
  /\ UNCHANGED <<current, live, stale, count, number, via>>

-----------------------------------------------------------------------------
SendThrd(c) == Take(c) \/ Write(c)
RecvThrd(c) == RecvRead(c) \/ SetRecvMsgList(c)
Session(c)  == RecvThrd(c) \/ ChannelTake(c) \/ Receive(c)

Next == \/ \E m \in Cmds : Client(m)
        \/ \E c \in Conns : \/ Reconnect(c) \/ SendThrd(c) \/ SenderEnds(c) \/ Session(c)
                            \/ Break(c)
                            \/ \E d \in Devices : DeviceLogin(d, c)
        \/ DisPatch
        \/ \E k \in Keys : Evict(k) \/ LoginAgain(k) \/ StaleThrd(k)
        \/ GatewayRestart \/ RmiRestart

\* Threads run, a gone client is noticed, and the RMI server connects again
\* (LogsInAgain of Uplink.tla).  No thread of a lost connection is bound to find
\* out: it tests the shared one.
Fairness == /\ \A c \in Conns : /\ WF_vars(SendThrd(c))
                                /\ WF_vars(Session(c))
            /\ WF_vars(\E c \in Conns : Reconnect(c))
            /\ WF_vars(DisPatch)
            /\ WF_vars(\E k \in Keys : Evict(k))

Spec == Init /\ [][Next]_vars
FairSpec == Spec /\ Fairness

-----------------------------------------------------------------------------
TypeOK ==
  /\ current \in [Keys -> Conns \union {None}]
  /\ live \subseteq Conns
  /\ broken \subseteq live
  /\ stale \subseteq Keys
  /\ sender \subseteq Conns
  /\ queue \in [Places -> Seq(Cmds)]
  /\ \A c \in Conns : Len(queue[Taken(c)]) <= 1
  /\ count \in Nat
  /\ number \in [Cmds -> 0..count]
  /\ via \in [Cmds -> Conns \union {None}]
  /\ faults \in 0..MaxFaults

\* However often the connections fail and the servers restart, a command reaches
\* no device but its own, and none twice: no queue, buffer or thread keeps a copy
\* of what it passed on, and no session's queue outlives the session and is sent
\* to the next client.
InTransit == UNION {In(p) : p \in Places \ DevicePlaces}
Accepted  == {m \in Cmds : number[m] # 0}
Contract  == INSTANCE Courier WITH
  pending <- InTransit,
  settled <- Accepted \ InTransit,
  got <- [d \in Devices |-> queue[Device(d)]]
ImplementsCourier == Contract!Spec

\* The RMI server here, reduced to its queue and its send threads, keeps to what
\* the one of Uplink.tla keeps to, whose threads also share the connection.
Sending == INSTANCE Outbox WITH
  Answer <- Ctrl,
  fresh <- Cmds \ Accepted,
  queue <- queue[SendMsgList],
  senders <- sender,
  held <- [c \in Conns |-> queue[Taken(c)]]
ImplementsOutbox == Sending!Spec

\* Wherever a command waits, the one that moves it on is still there: the send
\* thread that took it, the receive thread of the RMI server's session if it was
\* written to that, the send thread of a session that is still its device's.
NoneStranded ==
  \A c \in Conns :
    /\ queue[Taken(c)] # <<>> => c \in sender
    /\ queue[Wire(c)] # <<>> => c \in live /\ current[Ctrl] = c
    /\ queue[Channel(c)] # <<>> \/ queue[Flight(c)] # <<>> =>
         c \in live /\ \E d \in Devices : current[d] = c

\* The only ways to lose a command: a server is restarted, its device has no session
\* when it is dispatched, a thread of a connection that is gone writes it there,
\* or it is on the connection or in the queue of a session that is closed, and the
\* session of the RMI server is closed only if the connection is gone, or threads
\* of an earlier one are left at either end.  A read that returns several frames,
\* threads of two connections at one queue, the dispatch to a device that logs in
\* meanwhile: these lose none.
Delivered == UNION {In(p) : p \in DevicePlaces}
OnSession(k) == UNION {In(p) : p \in {Wire(current[k]), Channel(current[k]), Flight(current[k])}}
LostOnlyWhenDisconnected ==
  [][\A m \in InTransit \ (InTransit \union Delivered)' :
       \/ faults' # faults
       \/ m \in In(RecvMsgList) /\ current[Target[m]] = None
       \/ \E c \in Conns \ (live \ broken) : m \in In(Taken(c))
       \/ \E k \in Keys :
            /\ current[k] # None /\ current'[k] = None
            /\ m \in OnSession(k)
            /\ k = Ctrl => Gone(k) \/ k \in stale \/ sender # {current[k]}]_vars

\* Commands for one device do not overtake each other, unless the RMI server has
\* reconnected between them: then the receive thread of the old session may
\* still hold commands while that of the new one queues later ones.
OvertakenOnlyByReconnect ==
  \A d \in Devices : \A i, j \in DOMAIN queue[Device(d)] :
    LET m == queue[Device(d)][i]
        n == queue[Device(d)][j]
    IN  i < j /\ number[n] < number[m] => via[m] # via[n]

\* A command the web was told of as successful is not lost (Dev_Ctrl.jsp says
\* "success" for the answer 0000, and "submitted" for another one).
SuccessIsKept ==
  Accepted \subseteq InTransit \union Delivered

\* Once the faults end, no accepted command stays under way for ever: not in the
\* queue of the RMI server while that stays connected, though its threads may
\* be those of a connection that is gone, and not behind it, whatever becomes of
\* the sessions.
EveryCommandSettles ==
  \A m \in Cmds : []<>(m \in InTransit => m \in In(SendMsgList) /\ current[Ctrl] = None)

\* Once the faults have ended, a command that is submitted while device and RMI
\* server are connected, and no threads of earlier connections are left at either
\* end, does reach the device, unless that logs in again in the meantime.
Connected(m) ==
  /\ faults = MaxFaults
  /\ Up(current[Target[m]])
  /\ Up(current[Ctrl])
  /\ {Target[m], Ctrl} \intersect stale = {}
  /\ sender = {current[Ctrl]}
DeliveredWhenConnected ==
  \A m \in Cmds :
    m \in In(SendMsgList) /\ Connected(m)
      ~> m \in In(Device(Target[m])) \/ current[Target[m]] = None
=============================================================================
