------------------------------- MODULE Uplink -------------------------------
(***************************************************************************)
(* The RMI server's connection to the gateway: a monitor that (re)connects *)
(* and logs in, and for every connection a receive and a send thread.      *)
(* Translated from XNY-LOCAL-RMI/net/TPCClient.java; the gateway's reverse *)
(* client, XNY-LOCAL-AppSvr2/net/TcpClient.java, is the same program.      *)
(*                                                                         *)
(* All threads share the field objSocket, without a lock.  A thread keeps  *)
(* the stream of the connection it was started for, but tests, closes and  *)
(* clears whatever connection objSocket refers to at that moment.          *)
(***************************************************************************)
EXTENDS Naturals, Sequences

CONSTANTS
  Conns,         \* identities of TCP connections, reused once free
  Cmds,          \* commands the web submits, each once
  Ctrl,          \* any frame that is not a command: an active test or an answer
  None,          \* null
  ACTIVE_TEST,   \* Cmd_Sta.COMM_ACTIVE_TEST: silent periods that are tolerated
  MaxFaults,     \* bound: how often a connection fails or is refused
  MaxSendMsgs    \* bound: with more frames queued for a send thread, no frame
                 \* arrives and no silent period ends; answers are queued up to it

ASSUME UplinkAssumption ==
  /\ None \notin Conns
  /\ Ctrl \notin Cmds
  /\ ACTIVE_TEST \in Nat
  /\ MaxFaults \in Nat

VARIABLES
  objSocket,    \* the field all threads share
  sock,         \* sock[c]: the client's end of c is "open" or "closed"
  peer,         \* peer[c]: the gateway's end is "up", "mute" (lost silently) or "gone"
  mon,          \* where the monitor (TPCClient.run; at first Main, in init) is
  startup,      \* Main's init is running ("init"), has "failed", or no longer matters
  recv,         \* recv[c], send[c]: where the threads of c are
  send,
  testSta,      \* m_TestSta
  sendMsgList,  \* the frames to be sent, in order
  taken,        \* taken[c]: the frame the send thread of c is writing
  fate,         \* fate[m]: "new", "queued", "taken", "sent" or "lost"
  faults        \* how often a connection has failed or was refused

connVars  == <<objSocket, sock, peer, faults>>
queueVars == <<sendMsgList, taken, fate>>
monVars   == <<mon, startup>>
vars == <<connVars, monVars, recv, send, testSta, queueVars>>

MonState  == {"idle", "connect", "login", "answer", "startRecv", "startSend", "failed", "tick"}
RecvState == {"off", "top", "read", "close", "except", "clear"}
SendState == {"off", "top", "take", "write", "except", "clear"}
Fate      == {"new", "queued", "taken", "sent", "lost"}

Init == /\ objSocket = None
        /\ sock = [c \in Conns |-> "closed"]
        /\ peer = [c \in Conns |-> "gone"]
        /\ mon = "connect"
        /\ startup = "init"
        /\ recv = [c \in Conns |-> "off"]
        /\ send = [c \in Conns |-> "off"]
        /\ testSta = 0
        /\ sendMsgList = <<>>
        /\ taken = [c \in Conns |-> None]
        /\ fate = [m \in Cmds |-> "new"]
        /\ faults = 0

-----------------------------------------------------------------------------
(* The web, the gateway and the network *)

\* SetSendMsg: the command is encoded and queued; the caller is told "0000".
SetSendMsg(m) ==
  /\ fate[m] = "new"
  /\ fate' = [fate EXCEPT ![m] = "queued"]
  /\ sendMsgList' = Append(sendMsgList, m)
  /\ UNCHANGED <<connVars, monVars, recv, send, testSta, taken>>

\* A connection breaks, or falls silent without a FIN.
PeerLost(c) ==
  /\ faults < MaxFaults
  /\ sock[c] = "open" /\ peer[c] = "up"
  /\ \E how \in {"gone", "mute"} : peer' = [peer EXCEPT ![c] = how]
  /\ faults' = faults + 1
  /\ UNCHANGED <<objSocket, sock, monVars, recv, send, testSta, queueVars>>

\* The gateway closes a connection that nothing is written to any more: its
\* active tests are not answered (LostClientEvicted of Gateway.tla).
Expire(c) ==
  /\ sock[c] = "open" /\ peer[c] = "up"
  /\ send[c] = "off" /\ objSocket # c
  /\ peer' = [peer EXCEPT ![c] = "gone"]
  /\ UNCHANGED <<objSocket, sock, faults, monVars, recv, send, testSta, queueVars>>

-----------------------------------------------------------------------------
Usable == objSocket # None /\ sock[objSocket] = "open"

\* Close the connection objSocket refers to, whichever that is now.
CloseShared == /\ sock' = [sock EXCEPT ![objSocket] = "closed"]
               /\ peer' = [peer EXCEPT ![objSocket] = "gone"]

\* A connection nothing refers to any more, closed or left to the garbage collector.
Free(c) == recv[c] = "off" /\ send[c] = "off" /\ objSocket # c

(* The monitor (TPCClient.run, init, Reconnect, Login) *)

\* The connection is found gone: Reconnect closes and clears what is left.  The
\* monitor looks once a second, whenever that is: nothing keeps threads of that
\* connection from closing the next one.
MonNotice ==
  /\ mon = "idle"
  /\ ~Usable
  /\ mon' = "connect"
  /\ startup' = "done"
  /\ objSocket' = None
  /\ UNCHANGED <<sock, peer, faults, recv, send, testSta, queueVars>>

\* new Socket is refused.
MonRefused ==
  /\ mon = "connect"
  /\ faults < MaxFaults
  /\ faults' = faults + 1
  /\ mon' = "failed"
  /\ UNCHANGED <<objSocket, sock, peer, startup, recv, send, testSta, queueVars>>

\* new Socket succeeds: the field is assigned before the login.
MonConnect ==
  /\ mon = "connect"
  /\ \E c \in Conns :
        /\ Free(c) /\ c = CHOOSE d \in Conns : Free(d)
        /\ sock' = [sock EXCEPT ![c] = "open"]
        /\ peer' = [peer EXCEPT ![c] = "up"]
        /\ objSocket' = c
  /\ mon' = "login"
  /\ UNCHANGED <<startup, faults, recv, send, testSta, queueVars>>

\* Mutant (each is named after a definition and a fault): the gateway does not look for a previous session.
MonLoginBesides ==
  /\ mon = "login"
  /\ mon' = IF Usable THEN "answer" ELSE "failed"
  /\ UNCHANGED <<startup, connVars, recv, send, testSta, queueVars>>

\* Login is sent.  A gateway that receives it closes the client's previous
\* session before it answers.  A cleared field is a NullPointerException.
MonLogin ==
  /\ mon = "login"
  /\ \/ /\ Usable
        /\ mon' = "answer"
        /\ peer' = IF peer[objSocket] = "up"
                     THEN [c \in Conns |-> IF c # objSocket /\ peer[c] = "up" THEN "gone" ELSE peer[c]]
                     ELSE peer
     \/ /\ ~Usable
        /\ mon' = "failed"
        /\ UNCHANGED peer
  /\ UNCHANGED <<startup, objSocket, sock, faults, recv, send, testSta, queueVars>>

\* The answer arrives, or the stream ends, or the read times out.
MonAnswer ==
  /\ mon = "answer"
  /\ mon' = IF Usable /\ peer[objSocket] = "up" THEN "startRecv" ELSE "failed"
  /\ UNCHANGED <<startup, connVars, recv, send, testSta, queueVars>>

MonStartRecv ==
  /\ mon = "startRecv"
  /\ IF Usable
       THEN mon' = "startSend" /\ recv' = [recv EXCEPT ![objSocket] = "top"]
       ELSE mon' = "failed" /\ UNCHANGED recv
  /\ UNCHANGED <<connVars, startup, send, testSta, queueVars>>

MonStartSend ==
  /\ mon = "startSend"
  /\ IF Usable
       THEN /\ send' = [send EXCEPT ![objSocket] = "top"]
            /\ mon' = "idle"
            /\ startup' = "done"
       ELSE /\ mon' = "failed"
            /\ UNCHANGED <<startup, send>>
  /\ UNCHANGED <<connVars, recv, testSta, queueVars>>

\* Mutant: the monitor leaves its loop after a failure.
MonFailedGivesUp ==
  /\ mon = "failed"
  /\ IF objSocket = None THEN UNCHANGED <<sock, peer>> ELSE CloseShared
  /\ objSocket' = None
  /\ UNCHANGED <<faults, monVars, recv, send, testSta, queueVars>>

\* init returned false.  The monitor closes and clears what is left of the
\* connection; Main leaves it as it is and starts the monitor.
MonFailed ==
  /\ mon = "failed"
  /\ mon' = "idle"
  /\ \/ /\ startup = "init"
        /\ startup' = "failed"
        /\ UNCHANGED <<objSocket, sock, peer>>
     \/ /\ startup # "init"
        /\ IF objSocket = None THEN UNCHANGED <<sock, peer>> ELSE CloseShared
        /\ objSocket' = None
        /\ UNCHANGED startup
  /\ UNCHANGED <<faults, recv, send, testSta, queueVars>>

\* A silent period has passed: m_TestSta++ is a read ...
MonTick ==
  /\ mon = "idle"
  /\ Usable
  /\ Len(sendMsgList) <= MaxSendMsgs \/ send[objSocket] = "off"
  /\ mon' = "tick"
  /\ UNCHANGED <<startup, connVars, recv, send, testSta, queueVars>>

\* Mutants: one active test too many, ...
MonCountOneMore ==
  /\ mon = "tick"
  /\ mon' = "idle"
  /\ \/ /\ testSta <= ACTIVE_TEST
        /\ testSta' = testSta + 1
        /\ sendMsgList' = Append(sendMsgList, Ctrl)
        /\ UNCHANGED <<objSocket, sock, peer>>
     \/ /\ testSta > ACTIVE_TEST
        /\ testSta' = 0
        /\ IF objSocket = None THEN UNCHANGED <<sock, peer>> ELSE CloseShared
        /\ objSocket' = None
        /\ UNCHANGED sendMsgList
  /\ UNCHANGED <<startup, faults, recv, send, taken, fate>>

\* ... or the close is forgotten.
MonCountForget ==
  /\ mon = "tick"
  /\ mon' = "idle"
  /\ \/ /\ testSta < ACTIVE_TEST
        /\ testSta' = testSta + 1
        /\ sendMsgList' = Append(sendMsgList, Ctrl)
     \/ /\ testSta >= ACTIVE_TEST
        /\ UNCHANGED <<testSta, sendMsgList>>
  /\ UNCHANGED <<startup, connVars, recv, send, taken, fate>>

\* ... and a write.  The new count leads to an active test or, when there were
\* too many, to the end of the connection the field refers to by now.
MonCount ==
  /\ mon = "tick"
  /\ mon' = "idle"
  /\ \/ /\ testSta < ACTIVE_TEST
        /\ testSta' = testSta + 1
        /\ sendMsgList' = Append(sendMsgList, Ctrl)
        /\ UNCHANGED <<objSocket, sock, peer>>
     \/ /\ testSta >= ACTIVE_TEST
        /\ testSta' = 0
        /\ IF objSocket = None THEN UNCHANGED <<sock, peer>> ELSE CloseShared
        /\ objSocket' = None
        /\ UNCHANGED sendMsgList
  /\ UNCHANGED <<startup, faults, recv, send, taken, fate>>

Monitor == \/ MonNotice \/ MonConnect \/ MonRefused \/ MonLogin \/ MonAnswer
           \/ MonStartRecv \/ MonStartSend \/ MonFailed \/ MonTick \/ MonCount

-----------------------------------------------------------------------------
(* RecvThrd *)

\* The top of the loop looks at the shared field, not at the thread's own stream.
RecvTop(c) ==
  /\ recv[c] = "top"
  /\ recv' = [recv EXCEPT ![c] = IF ~Usable THEN "clear" ELSE "read"]
  /\ UNCHANGED <<connVars, monVars, send, testSta, queueVars>>

\* Bytes arrive on the thread's own connection: m_TestSta = 0 (overwritten when
\* the monitor is between reading and writing it).  An active test or a DELIVER
\* is answered with one frame, a SUBMMIT with two, anything else with none.
RecvFrame(c) ==
  /\ recv[c] = "read" /\ sock[c] = "open" /\ peer[c] = "up"
  /\ Len(sendMsgList) <= MaxSendMsgs
  /\ testSta' = IF mon = "tick" THEN testSta ELSE 0
  /\ recv' = [recv EXCEPT ![c] = "top"]
  /\ \E n \in 0..2 :
        /\ n = 0 \/ Len(sendMsgList) + n <= MaxSendMsgs
        /\ sendMsgList' = sendMsgList \o [i \in 1..n |-> Ctrl]
  /\ UNCHANGED <<connVars, monVars, send, taken, fate>>

\* End of stream, or a SocketException.
RecvEnd(c) ==
  /\ recv[c] = "read"
  /\ \/ /\ sock[c] = "open" /\ peer[c] = "gone"
        /\ \E how \in {"close", "except"} : recv' = [recv EXCEPT ![c] = how]
     \/ /\ sock[c] = "closed"
        /\ recv' = [recv EXCEPT ![c] = "except"]
  /\ UNCHANGED <<connVars, monVars, send, testSta, queueVars>>

\* objSocket.close() at the end of the stream: a cleared field raises a
\* NullPointerException, which the loop survives.
RecvClose(c) ==
  /\ recv[c] = "close"
  /\ \/ /\ objSocket = None
        /\ recv' = [recv EXCEPT ![c] = "top"]
        /\ UNCHANGED <<sock, peer>>
     \/ /\ objSocket # None
        /\ CloseShared
        /\ recv' = [recv EXCEPT ![c] = "clear"]
  /\ UNCHANGED <<objSocket, faults, monVars, send, testSta, queueVars>>

\* Mutant: the thread leaves without closing the connection.
RecvExceptLeaves(c) ==
  /\ recv[c] = "except"
  /\ recv' = [recv EXCEPT ![c] = "off"]
  /\ UNCHANGED <<connVars, monVars, send, testSta, queueVars>>

\* catch (SocketException): the shared connection is closed, unless cleared.
RecvExcept(c) ==
  /\ recv[c] = "except"
  /\ \/ /\ objSocket = None
        /\ recv' = [recv EXCEPT ![c] = "off"]
        /\ UNCHANGED <<sock, peer>>
     \/ /\ objSocket # None
        /\ CloseShared
        /\ recv' = [recv EXCEPT ![c] = "clear"]
  /\ UNCHANGED <<objSocket, faults, monVars, send, testSta, queueVars>>

\* objSocket = null; break.
RecvClear(c) ==
  /\ recv[c] = "clear"
  /\ objSocket' = None
  /\ recv' = [recv EXCEPT ![c] = "off"]
  /\ UNCHANGED <<sock, peer, faults, monVars, send, testSta, queueVars>>

(* SendThrd *)

\* The top of the loop looks at the shared field.
SendTop(c) ==
  /\ send[c] = "top"
  /\ send' = [send EXCEPT ![c] = IF ~Usable THEN "clear" ELSE "take"]
  /\ UNCHANGED <<connVars, monVars, recv, testSta, queueVars>>

\* Mutant: the frame queued last is taken.
SendTakeLast(c) ==
  LET n == Len(sendMsgList) IN
  /\ send[c] = "take"
  /\ \/ /\ n = 0
        /\ send' = [send EXCEPT ![c] = "top"]
        /\ UNCHANGED queueVars
     \/ /\ n > 0
        /\ sendMsgList' = SubSeq(sendMsgList, 1, n - 1)
        /\ taken' = [taken EXCEPT ![c] = sendMsgList[n]]
        /\ fate' = [m \in Cmds |-> IF m = sendMsgList[n] THEN "taken" ELSE fate[m]]
        /\ send' = [send EXCEPT ![c] = "write"]
  /\ UNCHANGED <<connVars, monVars, recv, testSta>>

\* Mutant: the frame stays in the queue while it is written.
SendTakePeeks(c) ==
  /\ send[c] = "take"
  /\ \/ /\ sendMsgList = <<>>
        /\ send' = [send EXCEPT ![c] = "top"]
        /\ UNCHANGED queueVars
     \/ /\ sendMsgList # <<>>
        /\ UNCHANGED sendMsgList
        /\ taken' = [taken EXCEPT ![c] = Head(sendMsgList)]
        /\ fate' = [m \in Cmds |-> IF m = Head(sendMsgList) THEN "taken" ELSE fate[m]]
        /\ send' = [send EXCEPT ![c] = "write"]
  /\ UNCHANGED <<connVars, monVars, recv, testSta>>

\* getSendMsgList: the first frame of the shared queue is removed, whatever has
\* become of the connection since the thread looked; a thread that finds the
\* queue empty looks again.
SendTake(c) ==
  /\ send[c] = "take"
  /\ \/ /\ sendMsgList = <<>>
        /\ send' = [send EXCEPT ![c] = "top"]
        /\ UNCHANGED queueVars
     \/ /\ sendMsgList # <<>>
        /\ sendMsgList' = Tail(sendMsgList)
        /\ taken' = [taken EXCEPT ![c] = Head(sendMsgList)]
        /\ fate' = [m \in Cmds |-> IF m = Head(sendMsgList) THEN "taken" ELSE fate[m]]
        /\ send' = [send EXCEPT ![c] = "write"]
  /\ UNCHANGED <<connVars, monVars, recv, testSta>>

\* The frame the thread holds reaches the gateway, or never does.
Written(c, outcome) ==
  /\ fate' = [m \in Cmds |-> IF m = taken[c] THEN outcome ELSE fate[m]]
  /\ taken' = [taken EXCEPT ![c] = None]

\* The write goes to the thread's own connection.
SendWrite(c) ==
  /\ send[c] = "write"
  /\ \/ /\ sock[c] = "open"
        /\ Written(c, IF peer[c] = "up" THEN "sent" ELSE "lost")
        /\ send' = [send EXCEPT ![c] = "top"]
     \/ /\ sock[c] = "closed" \/ peer[c] = "gone"
        /\ Written(c, "lost")
        /\ send' = [send EXCEPT ![c] = "except"]
  /\ UNCHANGED <<connVars, monVars, recv, testSta, sendMsgList>>

SendExcept(c) ==
  /\ send[c] = "except"
  /\ \/ /\ objSocket = None
        /\ send' = [send EXCEPT ![c] = "off"]
        /\ UNCHANGED <<sock, peer>>
     \/ /\ objSocket # None
        /\ CloseShared
        /\ send' = [send EXCEPT ![c] = "clear"]
  /\ UNCHANGED <<objSocket, faults, monVars, recv, testSta, queueVars>>

SendClear(c) ==
  /\ send[c] = "clear"
  /\ objSocket' = None
  /\ send' = [send EXCEPT ![c] = "off"]
  /\ UNCHANGED <<sock, peer, faults, monVars, recv, testSta, queueVars>>

-----------------------------------------------------------------------------
RecvThrd(c) == RecvTop(c) \/ RecvEnd(c) \/ RecvClose(c) \/ RecvExcept(c) \/ RecvClear(c)
SendThrd(c) == SendTop(c) \/ SendTake(c) \/ SendWrite(c) \/ SendExcept(c) \/ SendClear(c)

Next == \/ \E m \in Cmds : SetSendMsg(m)
        \/ Monitor
        \/ \E c \in Conns : PeerLost(c) \/ Expire(c) \/ RecvThrd(c) \/ RecvFrame(c) \/ SendThrd(c)

\* The threads are scheduled, and a period of silence ends.
Fairness == /\ WF_vars(Monitor)
            /\ \A c \in Conns : /\ WF_vars(RecvThrd(c))
                                /\ WF_vars(SendThrd(c))
                                /\ WF_vars(Expire(c))

Spec == Init /\ [][Next]_vars
FairSpec == Spec /\ Fairness

-----------------------------------------------------------------------------
TypeOK ==
  /\ objSocket \in Conns \union {None}
  /\ sock \in [Conns -> {"open", "closed"}]
  /\ peer \in [Conns -> {"up", "mute", "gone"}]
  /\ mon \in MonState
  /\ startup \in {"init", "failed", "done"}
  /\ recv \in [Conns -> RecvState]
  /\ send \in [Conns -> SendState]
  /\ testSta \in 0..ACTIVE_TEST
  /\ sendMsgList \in Seq(Cmds \union {Ctrl})
  /\ taken \in [Conns -> Cmds \union {Ctrl, None}]
  /\ fate \in [Cmds -> Fate]
  /\ faults \in 0..MaxFaults

\* Whatever the threads of earlier connections do to the shared field, a
\* connection in use never lacks one of its own threads: the monitor, which looks
\* at the field alone, would leave the RMI server deaf or dumb.  (The connection
\* left by a failed start-up does lack them.)
ConnectedIsServed ==
  startup = "done" /\ mon \in {"idle", "tick"} /\ Usable
    => recv[objSocket] # "off" /\ send[objSocket] # "off"

\* No two connections with send threads are both served by the gateway, so the
\* frames that several send threads take from the one queue do not overtake
\* each other.
OneServedConnection ==
  \A c, d \in Conns :
    send[c] # "off" /\ send[d] # "off" /\ peer[c] = "up" /\ peer[d] = "up" => c = d

\* However logins, failures and the threads of several connections interleave, no
\* frame is written by two threads or twice, none is overtaken in the queue, and no
\* thread ends with a frame it has taken: every command that leaves the queue is
\* written once.
Sending == INSTANCE Outbox WITH
  Answer <- Ctrl,
  fresh <- {m \in Cmds : fate[m] = "new"},
  queue <- sendMsgList,
  senders <- {c \in Conns : send[c] \in {"top", "take", "write"}},
  held <- [c \in Conns |-> IF send[c] = "write" THEN <<taken[c]>> ELSE <<>>]
ImplementsOutbox == Sending!Spec

Connected == startup = "done" /\ mon = "idle" /\ Usable /\ peer[objSocket] = "up"

\* A thread of an earlier connection is about to close or clear the one in use.
StaleEnding ==
  \E c \in Conns :
    /\ objSocket \notin {c, None}
    /\ recv[c] \in {"close", "except", "clear"} \/ send[c] \in {"except", "clear"}

\* Once the network has stopped failing, the RMI server is logged in again and
\* again, whatever became of its start-up: threads of earlier connections close
\* a connection that is being made only so often, for only a login that is
\* answered starts new ones.
LogsInAgain == []<>(Connected \/ mon = "startRecv")

\* Then nothing but a chase without end keeps it from being connected again and
\* again: every login ends the connection before it, whose threads close the new
\* one in turn.
Reconnects == []<>Connected \/ []<>StaleEnding

\* A connection that has fallen silent is given up.
SilenceNoticed == []<>(objSocket # None => peer[objSocket] # "mute")

\* An accepted command does not stay in the queue, unless there is such a chase.
CommandsLeaveQueue ==
  \A m \in Cmds : (fate[m] = "queued" ~> fate[m] \in {"sent", "lost"}) \/ []<>StaleEnding

\* "UC Server Closed the socket": a receive thread that tells of the end of its
\* stream has closed a connection that the gateway had closed.
ClosedByServer ==
  [][\A c \in Conns : RecvClose(c) /\ objSocket # None => peer[objSocket] = "gone"]_vars
=============================================================================
