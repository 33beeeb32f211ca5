---------------------------- MODULE UplinkProofs ----------------------------
(***************************************************************************)
(* Proofs about Uplink, for every set of connections and commands and      *)
(* every value of the bounds.                                              *)
(*                                                                         *)
(* What the threads share is the field objSocket, and any of them may      *)
(* close and clear it.  ConnectedIsServed rests on the fact that a thread  *)
(* ends only after the field has been cleared, and that only the monitor   *)
(* assigns it, when the new connection has no threads yet.                 *)
(* OneServedConnection rests on the login: from its answer on the gateway  *)
(* serves no other connection, and none is opened until the monitor is     *)
(* idle again.  ImplementsOutbox rests on the fact that a connection has   *)
(* no send thread until the monitor starts it.                             *)
(***************************************************************************)
EXTENDS Uplink, SequenceTheorems, TLAPS

\* ConnectedIsServed, also for a connection that has been closed and while its
\* send thread is not started yet.
Served ==
  objSocket # None =>
    /\ mon = "startSend" => recv[objSocket] # "off"
    /\ mon \in {"idle", "tick"} /\ startup = "done" => recv[objSocket] # "off"
    /\ mon \in {"idle", "tick"} /\ startup = "done" => send[objSocket] # "off"

\* A login that the gateway has received has ended its service of every other
\* connection.
LoginSupersedes ==
  mon \in {"answer", "startRecv", "startSend"} /\ objSocket # None =>
    (peer[objSocket] = "up" => \A c \in Conns : peer[c] = "up" => c = objSocket)

\* From the new connection to the start of its send thread, no thread sends on it:
\* two would write the frames of one connection.
NoneSendsYet ==
  mon \in {"login", "answer", "startRecv", "startSend"} /\ objSocket # None
    => send[objSocket] = "off"

\* What is queued or being written has been submitted.
Submitted ==
  \A m \in Cmds : fate[m] = "new" =>
    /\ \A i \in 1..Len(sendMsgList) : sendMsgList[i] # m
    /\ \A c \in Conns : send[c] = "write" => taken[c] # m

Inv == TypeOK /\ Served /\ LoginSupersedes /\ OneServedConnection /\ NoneSendsYet /\ Submitted

-----------------------------------------------------------------------------
(* Types *)

LEMMA TypeInit == Init => TypeOK
BY UplinkAssumption, EmptySeq DEF Init, TypeOK, MonState, RecvState, SendState, Fate

LEMMA TypeStep ==
  ASSUME TypeOK, [Next]_vars
  PROVE  TypeOK'
<1>0. CASE UNCHANGED vars
  BY <1>0 DEF TypeOK, MonState, RecvState, SendState, Fate, vars, connVars, monVars, queueVars
<1>1. ASSUME NEW m \in Cmds, SetSendMsg(m) PROVE TypeOK'
  <2>1. sendMsgList' \in Seq(Cmds \union {Ctrl})
    BY <1>1, AppendProperties DEF TypeOK, SetSendMsg
  <2> QED
    BY <1>1, <2>1 DEF TypeOK, Fate, SetSendMsg, connVars, monVars
<1>2. CASE MonNotice
  BY <1>2 DEF TypeOK, MonState, MonNotice, Usable, queueVars
<1>3. CASE MonConnect
  BY <1>3 DEF TypeOK, MonState, MonConnect, Free, queueVars
<1>4. CASE MonRefused
  BY <1>4, UplinkAssumption DEF TypeOK, MonState, MonRefused, queueVars
<1>5. CASE MonLogin
  BY <1>5 DEF TypeOK, MonState, MonLogin, Usable, queueVars
<1>6. CASE MonAnswer
  BY <1>6 DEF TypeOK, MonState, MonAnswer, Usable, connVars, queueVars
<1>7. CASE MonStartRecv
  BY <1>7 DEF TypeOK, MonState, RecvState, MonStartRecv, Usable, connVars, queueVars
<1>8. CASE MonStartSend
  BY <1>8 DEF TypeOK, MonState, SendState, MonStartSend, Usable, connVars, queueVars
<1>9. CASE MonFailed
  BY <1>9 DEF TypeOK, MonState, MonFailed, CloseShared, queueVars
<1>10. CASE MonTick
  BY <1>10 DEF TypeOK, MonState, MonTick, Usable, connVars, queueVars
<1>11. CASE MonCount
  <2>1. sendMsgList' \in Seq(Cmds \union {Ctrl})
    <3>1. sendMsgList \in Seq(Cmds \union {Ctrl}) /\ Ctrl \in Cmds \union {Ctrl}
      BY DEF TypeOK
    <3>2. sendMsgList' = sendMsgList \/ sendMsgList' = Append(sendMsgList, Ctrl)
      BY <1>11 DEF MonCount
    <3> QED
      BY <3>1, <3>2, AppendProperties
  <2>2. testSta' \in 0..ACTIVE_TEST
    BY <1>11, UplinkAssumption DEF TypeOK, MonCount
  <2> QED
    BY <1>11, <2>1, <2>2 DEF TypeOK, MonState, MonCount, CloseShared
<1>12. ASSUME NEW c \in Conns, PeerLost(c) PROVE TypeOK'
  BY <1>12, UplinkAssumption DEF TypeOK, PeerLost, monVars, queueVars
<1>13. ASSUME NEW c \in Conns, RecvTop(c) PROVE TypeOK'
  BY <1>13 DEF TypeOK, RecvState, RecvTop, Usable, connVars, monVars, queueVars
<1>14. ASSUME NEW c \in Conns, RecvFrame(c) PROVE TypeOK'
  <2>1. sendMsgList' \in Seq(Cmds \union {Ctrl})
    <3>1. PICK n \in 0..2 : sendMsgList' = sendMsgList \o [i \in 1..n |-> Ctrl]
      BY <1>14 DEF RecvFrame
    <3>2. [i \in 1..n |-> Ctrl] \in Seq(Cmds \union {Ctrl})
      BY SeqDef
    <3> QED
      BY <3>1, <3>2, ConcatProperties DEF TypeOK
  <2>2. testSta' \in 0..ACTIVE_TEST
    BY <1>14, UplinkAssumption DEF TypeOK, RecvFrame
  <2> QED
    BY <1>14, <2>1, <2>2 DEF TypeOK, RecvState, RecvFrame, connVars, monVars
<1>15. ASSUME NEW c \in Conns, RecvEnd(c) PROVE TypeOK'
  BY <1>15 DEF TypeOK, RecvState, RecvEnd, connVars, monVars, queueVars
<1>16. ASSUME NEW c \in Conns, RecvClose(c) PROVE TypeOK'
  BY <1>16 DEF TypeOK, RecvState, RecvClose, CloseShared, monVars, queueVars
<1>17. ASSUME NEW c \in Conns, RecvExcept(c) PROVE TypeOK'
  BY <1>17 DEF TypeOK, RecvState, RecvExcept, CloseShared, monVars, queueVars
<1>18. ASSUME NEW c \in Conns, RecvClear(c) PROVE TypeOK'
  BY <1>18 DEF TypeOK, RecvState, RecvClear, monVars, queueVars
<1>19. ASSUME NEW c \in Conns, SendTop(c) PROVE TypeOK'
  BY <1>19 DEF TypeOK, SendState, SendTop, Usable, connVars, monVars, queueVars
<1>20. ASSUME NEW c \in Conns, SendWrite(c) PROVE TypeOK'
  <2>1. ASSUME NEW outcome \in {"sent", "lost"}, Written(c, outcome)
        PROVE  /\ fate' \in [Cmds -> Fate]
               /\ taken' \in [Conns -> Cmds \union {Ctrl, None}]
    BY <2>1 DEF TypeOK, Fate, Written
  <2>2. /\ fate' \in [Cmds -> Fate]
        /\ taken' \in [Conns -> Cmds \union {Ctrl, None}]
    BY <1>20, <2>1 DEF SendWrite
  <2> QED
    BY <1>20, <2>2 DEF TypeOK, SendState, SendWrite, connVars, monVars
<1>21. ASSUME NEW c \in Conns, SendExcept(c) PROVE TypeOK'
  BY <1>21 DEF TypeOK, SendState, SendExcept, CloseShared, monVars, queueVars
<1>22. ASSUME NEW c \in Conns, SendClear(c) PROVE TypeOK'
  BY <1>22 DEF TypeOK, SendState, SendClear, monVars, queueVars
<1>23. ASSUME NEW c \in Conns, SendTake(c) PROVE TypeOK'
  <2>1. CASE UNCHANGED queueVars
    BY <1>23, <2>1 DEF TypeOK, SendState, SendTake, connVars, monVars, queueVars
  <2>2. CASE /\ sendMsgList # <<>>
             /\ sendMsgList' = Tail(sendMsgList)
             /\ taken' = [taken EXCEPT ![c] = Head(sendMsgList)]
             /\ fate' = [m \in Cmds |-> IF m = Head(sendMsgList) THEN "taken" ELSE fate[m]]
             /\ send' = [send EXCEPT ![c] = "write"]
    <3>1. /\ Head(sendMsgList) \in Cmds \union {Ctrl}
          /\ Tail(sendMsgList) \in Seq(Cmds \union {Ctrl})
      BY <2>2, HeadTailProperties DEF TypeOK
    <3> QED
      BY <1>23, <2>2, <3>1 DEF TypeOK, SendState, Fate, SendTake, connVars, monVars
  <2> QED
    BY <1>23, <2>1, <2>2 DEF SendTake
<1>24. ASSUME NEW c \in Conns, Expire(c) PROVE TypeOK'
  BY <1>24 DEF TypeOK, Expire, monVars, queueVars
<1> QED
  BY <1>0, <1>1, <1>2, <1>3, <1>4, <1>5, <1>6, <1>7, <1>8, <1>9, <1>10, <1>11, <1>12, <1>13, <1>14, <1>15, <1>16, <1>17, <1>18, <1>19, <1>20, <1>21, <1>22, <1>23, <1>24 DEF Next, Monitor, RecvThrd, SendThrd

\* The variables keep their types (TypeOK).
THEOREM TypeCorrect == Spec => []TypeOK
<1>1. Init => TypeOK
  BY TypeInit
<1>2. TypeOK /\ [Next]_vars => TypeOK'
  BY TypeStep
<1> QED
  BY <1>1, <1>2, PTL DEF Spec

-----------------------------------------------------------------------------
(* The inductive invariant *)

LEMMA InvInit == Init => Inv
BY TypeInit DEF Init, Inv, Served, LoginSupersedes, OneServedConnection, NoneSendsYet, Submitted

\* A thread that ends leaves the field cleared.
LEMMA ServedStep ==
  ASSUME TypeOK, Served, [Next]_vars
  PROVE  Served'
<1>0. CASE UNCHANGED vars
  BY <1>0 DEF TypeOK, Served, vars, connVars, monVars, queueVars
<1>1. ASSUME NEW m \in Cmds, SetSendMsg(m) PROVE Served'
  BY <1>1 DEF TypeOK, Served, SetSendMsg, connVars, monVars
<1>2. CASE MonNotice
  BY <1>2 DEF TypeOK, Served, MonNotice, Usable, queueVars
<1>3. CASE MonConnect
  BY <1>3 DEF TypeOK, Served, MonConnect, Free, queueVars
<1>4. CASE MonRefused
  BY <1>4 DEF TypeOK, Served, MonRefused, queueVars
<1>5. CASE MonLogin
  BY <1>5 DEF TypeOK, Served, MonLogin, Usable, queueVars
<1>6. CASE MonAnswer
  BY <1>6 DEF TypeOK, Served, MonAnswer, Usable, connVars, queueVars
<1>7. CASE MonStartRecv
  BY <1>7 DEF TypeOK, Served, MonStartRecv, Usable, connVars, queueVars
<1>8. CASE MonStartSend
  BY <1>8 DEF TypeOK, Served, MonStartSend, Usable, connVars, queueVars
<1>9. CASE MonFailed
  BY <1>9 DEF TypeOK, Served, MonFailed, CloseShared, queueVars
<1>10. CASE MonTick
  BY <1>10 DEF TypeOK, Served, MonTick, Usable, connVars, queueVars
<1>11. CASE MonCount
  BY <1>11 DEF TypeOK, Served, MonCount, CloseShared
<1>12. ASSUME NEW c \in Conns, PeerLost(c) PROVE Served'
  BY <1>12 DEF TypeOK, Served, PeerLost, monVars, queueVars
<1>13. ASSUME NEW c \in Conns, RecvTop(c) PROVE Served'
  BY <1>13 DEF TypeOK, Served, RecvTop, Usable, connVars, monVars, queueVars
<1>14. ASSUME NEW c \in Conns, RecvFrame(c) PROVE Served'
  BY <1>14 DEF TypeOK, Served, RecvFrame, connVars, monVars
<1>15. ASSUME NEW c \in Conns, RecvEnd(c) PROVE Served'
  BY <1>15 DEF TypeOK, Served, RecvEnd, connVars, monVars, queueVars
<1>16. ASSUME NEW c \in Conns, RecvClose(c) PROVE Served'
  BY <1>16 DEF TypeOK, Served, RecvClose, CloseShared, monVars, queueVars
<1>17. ASSUME NEW c \in Conns, RecvExcept(c) PROVE Served'
  BY <1>17 DEF TypeOK, Served, RecvExcept, CloseShared, monVars, queueVars
<1>18. ASSUME NEW c \in Conns, RecvClear(c) PROVE Served'
  BY <1>18 DEF TypeOK, Served, RecvClear, monVars, queueVars
<1>19. ASSUME NEW c \in Conns, SendTop(c) PROVE Served'
  BY <1>19 DEF TypeOK, Served, SendTop, Usable, connVars, monVars, queueVars
<1>20. ASSUME NEW c \in Conns, SendWrite(c) PROVE Served'
  BY <1>20 DEF TypeOK, Served, SendWrite, Written, connVars, monVars
<1>21. ASSUME NEW c \in Conns, SendExcept(c) PROVE Served'
  BY <1>21 DEF TypeOK, Served, SendExcept, CloseShared, monVars, queueVars
<1>22. ASSUME NEW c \in Conns, SendClear(c) PROVE Served'
  BY <1>22 DEF TypeOK, Served, SendClear, monVars, queueVars
<1>23. ASSUME NEW c \in Conns, SendTake(c) PROVE Served'
  BY <1>23 DEF TypeOK, Served, SendTake, connVars, monVars, queueVars
<1>24. ASSUME NEW c \in Conns, Expire(c) PROVE Served'
  BY <1>24 DEF TypeOK, Served, Expire, monVars, queueVars
<1> QED
  BY <1>0, <1>1, <1>2, <1>3, <1>4, <1>5, <1>6, <1>7, <1>8, <1>9, <1>10, <1>11, <1>12, <1>13, <1>14, <1>15, <1>16, <1>17, <1>18, <1>19, <1>20, <1>21, <1>22, <1>23, <1>24 DEF Next, Monitor, RecvThrd, SendThrd

\* No connection comes up between the login and the monitor's return to idle.
LEMMA LoginStep ==
  ASSUME TypeOK, LoginSupersedes, [Next]_vars
  PROVE  LoginSupersedes'
<1>0. CASE UNCHANGED vars
  BY <1>0 DEF TypeOK, LoginSupersedes, vars, connVars, monVars, queueVars
<1>1. ASSUME NEW m \in Cmds, SetSendMsg(m) PROVE LoginSupersedes'
  BY <1>1 DEF TypeOK, LoginSupersedes, SetSendMsg, connVars, monVars
<1>2. CASE MonNotice
  BY <1>2 DEF TypeOK, LoginSupersedes, MonNotice, Usable, queueVars
<1>3. CASE MonConnect
  BY <1>3 DEF TypeOK, LoginSupersedes, MonConnect, Free, queueVars
<1>4. CASE MonRefused
  BY <1>4 DEF TypeOK, LoginSupersedes, MonRefused, queueVars
<1>5. CASE MonLogin
  BY <1>5 DEF TypeOK, LoginSupersedes, MonLogin, Usable, queueVars
<1>6. CASE MonAnswer
  BY <1>6 DEF TypeOK, LoginSupersedes, MonAnswer, Usable, connVars, queueVars
<1>7. CASE MonStartRecv
  BY <1>7 DEF TypeOK, LoginSupersedes, MonStartRecv, Usable, connVars, queueVars
<1>8. CASE MonStartSend
  BY <1>8 DEF TypeOK, LoginSupersedes, MonStartSend, Usable, connVars, queueVars
<1>9. CASE MonFailed
  BY <1>9 DEF TypeOK, LoginSupersedes, MonFailed, CloseShared, queueVars
<1>10. CASE MonTick
  BY <1>10 DEF TypeOK, LoginSupersedes, MonTick, Usable, connVars, queueVars
<1>11. CASE MonCount
  BY <1>11 DEF TypeOK, LoginSupersedes, MonCount, CloseShared
<1>12. ASSUME NEW c \in Conns, PeerLost(c) PROVE LoginSupersedes'
  BY <1>12 DEF TypeOK, LoginSupersedes, PeerLost, monVars, queueVars
<1>13. ASSUME NEW c \in Conns, RecvTop(c) PROVE LoginSupersedes'
  BY <1>13 DEF TypeOK, LoginSupersedes, RecvTop, Usable, connVars, monVars, queueVars
<1>14. ASSUME NEW c \in Conns, RecvFrame(c) PROVE LoginSupersedes'
  BY <1>14 DEF TypeOK, LoginSupersedes, RecvFrame, connVars, monVars
<1>15. ASSUME NEW c \in Conns, RecvEnd(c) PROVE LoginSupersedes'
  BY <1>15 DEF TypeOK, LoginSupersedes, RecvEnd, connVars, monVars, queueVars
<1>16. ASSUME NEW c \in Conns, RecvClose(c) PROVE LoginSupersedes'
  BY <1>16 DEF TypeOK, LoginSupersedes, RecvClose, CloseShared, monVars, queueVars
<1>17. ASSUME NEW c \in Conns, RecvExcept(c) PROVE LoginSupersedes'
  BY <1>17 DEF TypeOK, LoginSupersedes, RecvExcept, CloseShared, monVars, queueVars
<1>18. ASSUME NEW c \in Conns, RecvClear(c) PROVE LoginSupersedes'
  BY <1>18 DEF TypeOK, LoginSupersedes, RecvClear, monVars, queueVars
<1>19. ASSUME NEW c \in Conns, SendTop(c) PROVE LoginSupersedes'
  BY <1>19 DEF TypeOK, LoginSupersedes, SendTop, Usable, connVars, monVars, queueVars
<1>20. ASSUME NEW c \in Conns, SendWrite(c) PROVE LoginSupersedes'
  BY <1>20 DEF TypeOK, LoginSupersedes, SendWrite, Written, connVars, monVars
<1>21. ASSUME NEW c \in Conns, SendExcept(c) PROVE LoginSupersedes'
  BY <1>21 DEF TypeOK, LoginSupersedes, SendExcept, CloseShared, monVars, queueVars
<1>22. ASSUME NEW c \in Conns, SendClear(c) PROVE LoginSupersedes'
  BY <1>22 DEF TypeOK, LoginSupersedes, SendClear, monVars, queueVars
<1>23. ASSUME NEW c \in Conns, SendTake(c) PROVE LoginSupersedes'
  BY <1>23 DEF TypeOK, LoginSupersedes, SendTake, connVars, monVars, queueVars
<1>24. ASSUME NEW c \in Conns, Expire(c) PROVE LoginSupersedes'
  BY <1>24 DEF TypeOK, LoginSupersedes, Expire, monVars, queueVars
<1> QED
  BY <1>0, <1>1, <1>2, <1>3, <1>4, <1>5, <1>6, <1>7, <1>8, <1>9, <1>10, <1>11, <1>12, <1>13, <1>14, <1>15, <1>16, <1>17, <1>18, <1>19, <1>20, <1>21, <1>22, <1>23, <1>24 DEF Next, Monitor, RecvThrd, SendThrd

\* The send thread is started when the login has ended every other service.
LEMMA OneServedStep ==
  ASSUME TypeOK, LoginSupersedes, OneServedConnection, [Next]_vars
  PROVE  OneServedConnection'
<1>0. CASE UNCHANGED vars
  BY <1>0 DEF TypeOK, LoginSupersedes, OneServedConnection, vars, connVars, monVars, queueVars
<1>1. ASSUME NEW m \in Cmds, SetSendMsg(m) PROVE OneServedConnection'
  BY <1>1 DEF TypeOK, LoginSupersedes, OneServedConnection, SetSendMsg, connVars, monVars
<1>2. CASE MonNotice
  BY <1>2 DEF TypeOK, LoginSupersedes, OneServedConnection, MonNotice, Usable, queueVars
<1>3. CASE MonConnect
  BY <1>3 DEF TypeOK, LoginSupersedes, OneServedConnection, MonConnect, Free, queueVars
<1>4. CASE MonRefused
  BY <1>4 DEF TypeOK, LoginSupersedes, OneServedConnection, MonRefused, queueVars
<1>5. CASE MonLogin
  BY <1>5 DEF TypeOK, LoginSupersedes, OneServedConnection, MonLogin, Usable, queueVars
<1>6. CASE MonAnswer
  BY <1>6 DEF TypeOK, LoginSupersedes, OneServedConnection, MonAnswer, Usable, connVars, queueVars
<1>7. CASE MonStartRecv
  BY <1>7 DEF TypeOK, LoginSupersedes, OneServedConnection, MonStartRecv, Usable, connVars, queueVars
<1>8. CASE MonStartSend
  BY <1>8 DEF TypeOK, LoginSupersedes, OneServedConnection, MonStartSend, Usable, connVars, queueVars
<1>9. CASE MonFailed
  BY <1>9 DEF TypeOK, LoginSupersedes, OneServedConnection, MonFailed, CloseShared, queueVars
<1>10. CASE MonTick
  BY <1>10 DEF TypeOK, LoginSupersedes, OneServedConnection, MonTick, Usable, connVars, queueVars
<1>11. CASE MonCount
  BY <1>11 DEF TypeOK, LoginSupersedes, OneServedConnection, MonCount, CloseShared
<1>12. ASSUME NEW c \in Conns, PeerLost(c) PROVE OneServedConnection'
  BY <1>12 DEF TypeOK, LoginSupersedes, OneServedConnection, PeerLost, monVars, queueVars
<1>13. ASSUME NEW c \in Conns, RecvTop(c) PROVE OneServedConnection'
  BY <1>13 DEF TypeOK, LoginSupersedes, OneServedConnection, RecvTop, Usable, connVars, monVars, queueVars
<1>14. ASSUME NEW c \in Conns, RecvFrame(c) PROVE OneServedConnection'
  BY <1>14 DEF TypeOK, LoginSupersedes, OneServedConnection, RecvFrame, connVars, monVars
<1>15. ASSUME NEW c \in Conns, RecvEnd(c) PROVE OneServedConnection'
  BY <1>15 DEF TypeOK, LoginSupersedes, OneServedConnection, RecvEnd, connVars, monVars, queueVars
<1>16. ASSUME NEW c \in Conns, RecvClose(c) PROVE OneServedConnection'
  BY <1>16 DEF TypeOK, LoginSupersedes, OneServedConnection, RecvClose, CloseShared, monVars, queueVars
<1>17. ASSUME NEW c \in Conns, RecvExcept(c) PROVE OneServedConnection'
  BY <1>17 DEF TypeOK, LoginSupersedes, OneServedConnection, RecvExcept, CloseShared, monVars, queueVars
<1>18. ASSUME NEW c \in Conns, RecvClear(c) PROVE OneServedConnection'
  BY <1>18 DEF TypeOK, LoginSupersedes, OneServedConnection, RecvClear, monVars, queueVars
<1>19. ASSUME NEW c \in Conns, SendTop(c) PROVE OneServedConnection'
  BY <1>19 DEF TypeOK, LoginSupersedes, OneServedConnection, SendTop, Usable, connVars, monVars, queueVars
<1>20. ASSUME NEW c \in Conns, SendWrite(c) PROVE OneServedConnection'
  BY <1>20 DEF TypeOK, LoginSupersedes, OneServedConnection, SendWrite, Written, connVars, monVars
<1>21. ASSUME NEW c \in Conns, SendExcept(c) PROVE OneServedConnection'
  BY <1>21 DEF TypeOK, LoginSupersedes, OneServedConnection, SendExcept, CloseShared, monVars, queueVars
<1>22. ASSUME NEW c \in Conns, SendClear(c) PROVE OneServedConnection'
  BY <1>22 DEF TypeOK, LoginSupersedes, OneServedConnection, SendClear, monVars, queueVars
<1>23. ASSUME NEW c \in Conns, SendTake(c) PROVE OneServedConnection'
  BY <1>23 DEF TypeOK, LoginSupersedes, OneServedConnection, SendTake, connVars, monVars, queueVars
<1>24. ASSUME NEW c \in Conns, Expire(c) PROVE OneServedConnection'
  BY <1>24 DEF TypeOK, LoginSupersedes, OneServedConnection, Expire, monVars, queueVars
<1> QED
  BY <1>0, <1>1, <1>2, <1>3, <1>4, <1>5, <1>6, <1>7, <1>8, <1>9, <1>10, <1>11, <1>12, <1>13, <1>14, <1>15, <1>16, <1>17, <1>18, <1>19, <1>20, <1>21, <1>22, <1>23, <1>24 DEF Next, Monitor, RecvThrd, SendThrd

\* A connection is assigned to the field when it has no threads, and its send
\* thread starts when the monitor is done with the login.
LEMMA NoneSendsYetStep ==
  ASSUME TypeOK, NoneSendsYet, [Next]_vars
  PROVE  NoneSendsYet'
<1>0. CASE UNCHANGED vars
  BY <1>0 DEF TypeOK, NoneSendsYet, vars, connVars, monVars, queueVars
<1>1. ASSUME NEW m \in Cmds, SetSendMsg(m) PROVE NoneSendsYet'
  BY <1>1 DEF TypeOK, NoneSendsYet, SetSendMsg, connVars, monVars
<1>2. CASE MonNotice
  BY <1>2 DEF TypeOK, NoneSendsYet, MonNotice, Usable, queueVars
<1>3. CASE MonConnect
  BY <1>3 DEF TypeOK, NoneSendsYet, MonConnect, Free, queueVars
<1>4. CASE MonRefused
  BY <1>4 DEF TypeOK, NoneSendsYet, MonRefused, queueVars
<1>5. CASE MonLogin
  BY <1>5 DEF TypeOK, NoneSendsYet, MonLogin, Usable, queueVars
<1>6. CASE MonAnswer
  BY <1>6 DEF TypeOK, NoneSendsYet, MonAnswer, Usable, connVars, queueVars
<1>7. CASE MonStartRecv
  BY <1>7 DEF TypeOK, NoneSendsYet, MonStartRecv, Usable, connVars, queueVars
<1>8. CASE MonStartSend
  BY <1>8 DEF TypeOK, NoneSendsYet, MonStartSend, Usable, connVars, queueVars
<1>9. CASE MonFailed
  BY <1>9 DEF TypeOK, NoneSendsYet, MonFailed, CloseShared, queueVars
<1>10. CASE MonTick
  BY <1>10 DEF TypeOK, NoneSendsYet, MonTick, Usable, connVars, queueVars
<1>11. CASE MonCount
  BY <1>11 DEF TypeOK, NoneSendsYet, MonCount, CloseShared
<1>12. ASSUME NEW c \in Conns, PeerLost(c) PROVE NoneSendsYet'
  BY <1>12 DEF TypeOK, NoneSendsYet, PeerLost, monVars, queueVars
<1>13. ASSUME NEW c \in Conns, RecvTop(c) PROVE NoneSendsYet'
  BY <1>13 DEF TypeOK, NoneSendsYet, RecvTop, Usable, connVars, monVars, queueVars
<1>14. ASSUME NEW c \in Conns, RecvFrame(c) PROVE NoneSendsYet'
  BY <1>14 DEF TypeOK, NoneSendsYet, RecvFrame, connVars, monVars
<1>15. ASSUME NEW c \in Conns, RecvEnd(c) PROVE NoneSendsYet'
  BY <1>15 DEF TypeOK, NoneSendsYet, RecvEnd, connVars, monVars, queueVars
<1>16. ASSUME NEW c \in Conns, RecvClose(c) PROVE NoneSendsYet'
  BY <1>16 DEF TypeOK, NoneSendsYet, RecvClose, CloseShared, monVars, queueVars
<1>17. ASSUME NEW c \in Conns, RecvExcept(c) PROVE NoneSendsYet'
  BY <1>17 DEF TypeOK, NoneSendsYet, RecvExcept, CloseShared, monVars, queueVars
<1>18. ASSUME NEW c \in Conns, RecvClear(c) PROVE NoneSendsYet'
  BY <1>18 DEF TypeOK, NoneSendsYet, RecvClear, monVars, queueVars
<1>19. ASSUME NEW c \in Conns, SendTop(c) PROVE NoneSendsYet'
  BY <1>19 DEF TypeOK, NoneSendsYet, SendTop, Usable, connVars, monVars, queueVars
<1>20. ASSUME NEW c \in Conns, SendWrite(c) PROVE NoneSendsYet'
  BY <1>20 DEF TypeOK, NoneSendsYet, SendWrite, Written, connVars, monVars
<1>21. ASSUME NEW c \in Conns, SendExcept(c) PROVE NoneSendsYet'
  BY <1>21 DEF TypeOK, NoneSendsYet, SendExcept, CloseShared, monVars, queueVars
<1>22. ASSUME NEW c \in Conns, SendClear(c) PROVE NoneSendsYet'
  BY <1>22 DEF TypeOK, NoneSendsYet, SendClear, monVars, queueVars
<1>23. ASSUME NEW c \in Conns, SendTake(c) PROVE NoneSendsYet'
  BY <1>23 DEF TypeOK, NoneSendsYet, SendTake, connVars, monVars, queueVars
<1>24. ASSUME NEW c \in Conns, Expire(c) PROVE NoneSendsYet'
  BY <1>24 DEF TypeOK, NoneSendsYet, Expire, monVars, queueVars
<1> QED
  BY <1>0, <1>1, <1>2, <1>3, <1>4, <1>5, <1>6, <1>7, <1>8, <1>9, <1>10, <1>11, <1>12, <1>13, <1>14, <1>15, <1>16, <1>17, <1>18, <1>19, <1>20, <1>21, <1>22, <1>23, <1>24 DEF Next, Monitor, RecvThrd, SendThrd

\* A frame enters the queue when it is submitted, or is none of the commands.
LEMMA SubmittedStep ==
  ASSUME TypeOK, Submitted, [Next]_vars
  PROVE  Submitted'
<1>0. CASE UNCHANGED queueVars /\ \A c \in Conns : send'[c] = "write" => send[c] = "write"
  BY <1>0 DEF Submitted, queueVars
<1>1. ASSUME NEW m \in Cmds, SetSendMsg(m) PROVE Submitted'
  <2>1. /\ Len(sendMsgList') = Len(sendMsgList) + 1
        /\ \A i \in 1..Len(sendMsgList) : sendMsgList'[i] = sendMsgList[i]
        /\ sendMsgList'[Len(sendMsgList) + 1] = m
    BY <1>1, AppendProperties DEF SetSendMsg, TypeOK
  <2>2. \A i \in 1..Len(sendMsgList') : sendMsgList'[i] = m \/ i \in 1..Len(sendMsgList)
    BY <2>1, LenProperties DEF TypeOK
  <2>3. /\ fate[m] = "new" /\ UNCHANGED <<send, taken>>
        /\ \A n \in Cmds : fate'[n] = "new" => n # m /\ fate[n] = "new"
    BY <1>1 DEF SetSendMsg, TypeOK
  <2>4. \A n \in Cmds : fate'[n] = "new" => \A i \in 1..Len(sendMsgList') : sendMsgList'[i] # n
    BY <2>1, <2>2, <2>3 DEF Submitted
  <2> QED
    BY <2>3, <2>4 DEF Submitted
<1>2. CASE MonCount
  <2>1. CASE UNCHANGED sendMsgList
    BY <1>2, <2>1 DEF MonCount, Submitted
  <2>2. CASE sendMsgList' = Append(sendMsgList, Ctrl)
    <3>1. /\ Len(sendMsgList') = Len(sendMsgList) + 1
          /\ \A i \in 1..Len(sendMsgList) : sendMsgList'[i] = sendMsgList[i]
          /\ sendMsgList'[Len(sendMsgList) + 1] = Ctrl
      BY <2>2, AppendProperties DEF TypeOK
    <3>2. \A i \in 1..Len(sendMsgList') : sendMsgList'[i] = Ctrl \/ i \in 1..Len(sendMsgList)
      BY <3>1, LenProperties DEF TypeOK
    <3> QED
      BY <1>2, <3>1, <3>2, UplinkAssumption DEF MonCount, Submitted
  <2> QED
    BY <1>2, <2>1, <2>2 DEF MonCount
<1>3. ASSUME NEW c \in Conns, RecvFrame(c) PROVE Submitted'
  <2>1. PICK n \in 0..2 : sendMsgList' = sendMsgList \o [i \in 1..n |-> Ctrl]
    BY <1>3 DEF RecvFrame
  <2> DEFINE replies == [i \in 1..n |-> Ctrl]
  <2>2. replies \in Seq(Cmds \union {Ctrl}) /\ Len(replies) = n
    BY SeqDef
  <2>3. /\ Len(sendMsgList') = Len(sendMsgList) + Len(replies)
        /\ \A i \in 1..Len(sendMsgList) : sendMsgList'[i] = sendMsgList[i]
        /\ \A i \in Len(sendMsgList) + 1 .. Len(sendMsgList) + Len(replies) :
              sendMsgList'[i] = replies[i - Len(sendMsgList)]
    BY <2>1, <2>2, ConcatProperties, LenProperties DEF TypeOK
  <2>4. \A i \in 1..Len(sendMsgList') : sendMsgList'[i] = Ctrl \/ i \in 1..Len(sendMsgList)
    BY <2>2, <2>3, LenProperties DEF TypeOK
  <2> QED
    BY <1>3, <2>3, <2>4, UplinkAssumption DEF RecvFrame, Submitted
<1>4. ASSUME NEW c \in Conns, SendTake(c), ~UNCHANGED queueVars PROVE Submitted'
  <2>1. /\ sendMsgList # <<>>
        /\ sendMsgList' = Tail(sendMsgList)
        /\ taken' = [taken EXCEPT ![c] = Head(sendMsgList)]
        /\ send' = [send EXCEPT ![c] = "write"]
        /\ fate' = [m \in Cmds |-> IF m = Head(sendMsgList) THEN "taken" ELSE fate[m]]
    BY <1>4 DEF SendTake
  <2>2. /\ Len(sendMsgList') = Len(sendMsgList) - 1
        /\ \A i \in 1..Len(sendMsgList') : sendMsgList'[i] = sendMsgList[i + 1]
    BY <2>1, HeadTailProperties DEF TypeOK
  <2>3. \A i \in 1..Len(sendMsgList') : i + 1 \in 1..Len(sendMsgList)
    BY <2>2, LenProperties DEF TypeOK
  <2>4. ASSUME NEW m \in Cmds, fate'[m] = "new" PROVE m # Head(sendMsgList) /\ fate[m] = "new"
    BY <2>1, <2>4
  <2> QED
    BY <2>1, <2>2, <2>3, <2>4 DEF TypeOK, Submitted
<1>5. ASSUME NEW c \in Conns, SendWrite(c) PROVE Submitted'
  <2>1. ASSUME NEW outcome \in {"sent", "lost"}, Written(c, outcome)
        PROVE  /\ \A m \in Cmds : fate'[m] = "new" => fate[m] = "new"
               /\ \A d \in Conns \ {c} : taken'[d] = taken[d]
    BY <2>1 DEF Written, TypeOK
  <2>2. /\ send'[c] # "write"
        /\ \A d \in Conns \ {c} : send'[d] = send[d]
    BY <1>5 DEF SendWrite, TypeOK
  <2> QED
    BY <1>5, <2>1, <2>2 DEF SendWrite, Submitted, TypeOK
<1>6. ASSUME NEW c \in Conns, send' = [send EXCEPT ![c] = "top"] \/ send' = [send EXCEPT ![c] = "take"]
                                 \/ send' = [send EXCEPT ![c] = "clear"] \/ send' = [send EXCEPT ![c] = "off"]
      PROVE  \A d \in Conns : send'[d] = "write" => send[d] = "write"
  BY <1>6 DEF TypeOK
<1>7. ASSUME NEW c \in Conns, SendTake(c), UNCHANGED queueVars PROVE Submitted'
  BY <1>0, <1>6, <1>7, HeadTailProperties DEF SendTake, queueVars, TypeOK
<1>10. ASSUME NEW c \in Conns, SendTop(c) PROVE Submitted'
  BY <1>0, <1>6, <1>10 DEF SendTop
<1>8. CASE MonStartSend
  BY <1>0, <1>6, <1>8 DEF MonStartSend, Usable, TypeOK, queueVars
<1>9. ASSUME NEW c \in Conns, SendExcept(c) \/ SendClear(c) PROVE Submitted'
  BY <1>0, <1>6, <1>9 DEF SendExcept, SendClear
<1> QED
  BY <1>0, <1>1, <1>2, <1>3, <1>4, <1>5, <1>7, <1>8, <1>9, <1>10
  DEF Next, Monitor, RecvThrd, SendThrd, vars, MonNotice, MonConnect, MonRefused, MonLogin, MonAnswer,
      MonStartRecv, MonFailed, MonTick, PeerLost, Expire, RecvTop, RecvEnd, RecvClose,
      RecvExcept, RecvClear

LEMMA Invariance == Spec => []Inv
<1>1. Inv /\ [Next]_vars => Inv'
  BY TypeStep, ServedStep, LoginStep, OneServedStep, NoneSendsYetStep, SubmittedStep DEF Inv
<1> QED
  BY InvInit, <1>1, PTL DEF Spec

-----------------------------------------------------------------------------
\* A connection in use never lacks one of its own threads, whatever the threads
\* of earlier connections do to the shared field (ConnectedIsServed).
THEOREM OwnThreadsServe == Spec => []ConnectedIsServed
<1>1. Inv => ConnectedIsServed
  BY DEF Inv, Served, ConnectedIsServed, Usable
<1> QED
  BY Invariance, <1>1, PTL

\* The gateway never serves two connections with send threads, so frames taken
\* from the one queue by several threads do not overtake each other
\* (OneServedConnection).
THEOREM OneIsServed == Spec => []OneServedConnection
<1>1. Inv => OneServedConnection
  BY DEF Inv
<1> QED
  BY Invariance, <1>1, PTL

-----------------------------------------------------------------------------
(* Uplink implements Outbox *)

LEMMA OutboxInit == Init => Sending!Init
BY DEF Init, Sending!Init

\* A step that leaves the queue and the sending threads alone is none of Outbox's.
LEMMA Unqueued ==
  ASSUME UNCHANGED queueVars,
         \A c \in Conns : send'[c] = send[c] \/ {send[c], send'[c]} \subseteq {"off", "except", "clear"}
  PROVE  UNCHANGED Sending!vars
<1>1. /\ {c \in Conns : send'[c] \in {"top", "take", "write"}} = {c \in Conns : send[c] \in {"top", "take", "write"}}
      /\ [c \in Conns |-> IF send'[c] = "write" THEN <<taken[c]>> ELSE <<>>]
           = [c \in Conns |-> IF send[c] = "write" THEN <<taken[c]>> ELSE <<>>]
  OBVIOUS
<1> QED
  BY <1>1 DEF Sending!vars, queueVars

LEMMA OutboxStep ==
  ASSUME TypeOK, NoneSendsYet, Submitted, [Next]_vars
  PROVE  [Sending!Next]_(Sending!vars)
<1>0. CASE UNCHANGED <<queueVars, send>>
  BY <1>0, Unqueued
<1>1. ASSUME NEW m \in Cmds, SetSendMsg(m) PROVE Sending!Submit(m)
  <2>1. {k \in Cmds : fate'[k] = "new"} = {k \in Cmds : fate[k] = "new"} \ {m}
    BY <1>1 DEF SetSendMsg, TypeOK
  <2> QED
    BY <1>1, <2>1 DEF SetSendMsg, Sending!Submit
<1>2. ASSUME MonCount PROVE UNCHANGED Sending!vars \/ Sending!Reply(1)
  <2>1. ASSUME sendMsgList' = Append(sendMsgList, Ctrl)
        PROVE  sendMsgList' = sendMsgList \o [i \in 1..1 |-> Ctrl]
    BY <2>1 DEF TypeOK
  <2>2. CASE UNCHANGED sendMsgList
    BY <1>2, <2>2 DEF MonCount, Sending!vars
  <2>3. CASE sendMsgList' = Append(sendMsgList, Ctrl)
    BY <1>2, <2>1, <2>3 DEF MonCount, Sending!Reply
  <2> QED
    BY <1>2, <2>2, <2>3 DEF MonCount
<1>3. ASSUME NEW c \in Conns, RecvFrame(c)
      PROVE  UNCHANGED Sending!vars \/ \E n \in 1..2 : Sending!Reply(n)
  <2>1. PICK n \in 0..2 : sendMsgList' = sendMsgList \o [i \in 1..n |-> Ctrl]
    BY <1>3 DEF RecvFrame
  <2>2. CASE n = 0
    <3>1. sendMsgList' = sendMsgList
      BY <2>1, <2>2 DEF TypeOK
    <3> QED
      BY <1>3, <3>1 DEF RecvFrame, Sending!vars
  <2>3. CASE n \in 1..2
    BY <1>3, <2>1, <2>3 DEF RecvFrame, Sending!Reply
  <2> QED
    BY <2>2, <2>3
<1>4. ASSUME MonStartSend PROVE UNCHANGED Sending!vars \/ \E c \in Conns : Sending!Start(c)
  <2>1. CASE Usable
    <3>1. PICK c \in Conns : c = objSocket /\ send[c] = "off" /\ send' = [send EXCEPT ![c] = "top"]
      BY <1>4, <2>1 DEF MonStartSend, Usable, NoneSendsYet, TypeOK
    <3>2. /\ {d \in Conns : send'[d] \in {"top", "take", "write"}} = {d \in Conns : send[d] \in {"top", "take", "write"}} \union {c}
          /\ [d \in Conns |-> IF send'[d] = "write" THEN <<taken[d]>> ELSE <<>>]
               = [d \in Conns |-> IF send[d] = "write" THEN <<taken[d]>> ELSE <<>>]
      BY <3>1 DEF TypeOK
    <3>3. Sending!Start(c)
      BY <1>4, <3>1, <3>2 DEF MonStartSend, queueVars, Sending!Start
    <3> QED
      BY <3>3
  <2>2. CASE ~Usable
    BY <1>0, <1>4, <2>2 DEF MonStartSend, Sending!vars, queueVars
  <2> QED
    BY <2>1, <2>2
<1>5. ASSUME NEW c \in Conns, SendTop(c) PROVE UNCHANGED Sending!vars \/ Sending!End(c)
  <2>1. /\ send[c] = "top" /\ UNCHANGED queueVars
        /\ [d \in Conns |-> IF send'[d] = "write" THEN <<taken[d]>> ELSE <<>>]
             = [d \in Conns |-> IF send[d] = "write" THEN <<taken[d]>> ELSE <<>>]
    BY <1>5 DEF SendTop, TypeOK
  <2>2. CASE send' = [send EXCEPT ![c] = "clear"]
    <3>1. {d \in Conns : send'[d] \in {"top", "take", "write"}}
            = {d \in Conns : send[d] \in {"top", "take", "write"}} \ {c}
      BY <2>1, <2>2 DEF TypeOK
    <3> QED
      BY <2>1, <3>1 DEF queueVars, Sending!End
  <2>3. CASE send' = [send EXCEPT ![c] = "take"]
    <3>1. {d \in Conns : send'[d] \in {"top", "take", "write"}}
            = {d \in Conns : send[d] \in {"top", "take", "write"}}
      BY <2>1, <2>3 DEF TypeOK
    <3> QED
      BY <2>1, <3>1 DEF queueVars, Sending!vars
  <2> QED
    BY <1>5, <2>2, <2>3 DEF SendTop
<1>8. ASSUME NEW c \in Conns, SendTake(c) PROVE UNCHANGED Sending!vars \/ Sending!Take(c)
  <2>1. CASE send' = [send EXCEPT ![c] = "top"] /\ UNCHANGED queueVars
    <3>1. /\ {d \in Conns : send'[d] \in {"top", "take", "write"}}
               = {d \in Conns : send[d] \in {"top", "take", "write"}}
          /\ [d \in Conns |-> IF send'[d] = "write" THEN <<taken[d]>> ELSE <<>>]
               = [d \in Conns |-> IF send[d] = "write" THEN <<taken[d]>> ELSE <<>>]
      BY <1>8, <2>1 DEF SendTake, TypeOK
    <3> QED
      BY <2>1, <3>1 DEF queueVars, Sending!vars
  <2>2. CASE /\ sendMsgList # <<>>
             /\ sendMsgList' = Tail(sendMsgList)
             /\ taken' = [taken EXCEPT ![c] = Head(sendMsgList)]
             /\ fate' = [m \in Cmds |-> IF m = Head(sendMsgList) THEN "taken" ELSE fate[m]]
             /\ send' = [send EXCEPT ![c] = "write"]
    <3>1. sendMsgList[1] = Head(sendMsgList) /\ 1 \in 1..Len(sendMsgList)
      BY <2>2, EmptySeq, LenProperties DEF TypeOK
    <3>2. {m \in Cmds : fate'[m] = "new"} = {m \in Cmds : fate[m] = "new"}
      BY <2>2, <3>1 DEF Submitted
    <3>3. {d \in Conns : send'[d] \in {"top", "take", "write"}} = {d \in Conns : send[d] \in {"top", "take", "write"}}
      BY <1>8, <2>2 DEF SendTake, TypeOK
    <3> DEFINE held == [d \in Conns |-> IF send[d] = "write" THEN <<taken[d]>> ELSE <<>>]
    <3>4. /\ [d \in Conns |-> IF send'[d] = "write" THEN <<taken'[d]>> ELSE <<>>]
               = [held EXCEPT ![c] = <<Head(sendMsgList)>>]
          /\ held[c] = <<>>
      BY <1>8, <2>2 DEF SendTake, TypeOK
    <3> QED
      BY <1>8, <2>2, <3>2, <3>3, <3>4 DEF SendTake, Sending!Take
  <2> QED
    BY <1>8, <2>1, <2>2 DEF SendTake
<1>6. ASSUME NEW c \in Conns, SendWrite(c) PROVE Sending!Write(c)
  <2>1. PICK outcome \in {"sent", "lost"} : Written(c, outcome)
    BY <1>6 DEF SendWrite
  <2>2. {m \in Cmds : fate'[m] = "new"} = {m \in Cmds : fate[m] = "new"}
    BY <1>6, <2>1 DEF SendWrite, Written, Submitted
  <2>3. PICK next \in {"top", "except"} : send' = [send EXCEPT ![c] = next]
    BY <1>6 DEF SendWrite
  <2>4. {d \in Conns : send'[d] \in {"top", "take", "write"}} \in
          {{d \in Conns : send[d] \in {"top", "take", "write"}}, {d \in Conns : send[d] \in {"top", "take", "write"}} \ {c}}
    BY <1>6, <2>3 DEF SendWrite, TypeOK
  <2> DEFINE held == [d \in Conns |-> IF send[d] = "write" THEN <<taken[d]>> ELSE <<>>]
  <2>5. /\ [d \in Conns |-> IF send'[d] = "write" THEN <<taken'[d]>> ELSE <<>>]
             = [held EXCEPT ![c] = <<>>]
        /\ held[c] # <<>>
    BY <1>6, <2>1, <2>3 DEF SendWrite, Written, TypeOK
  <2> QED
    BY <1>6, <2>2, <2>4, <2>5 DEF SendWrite, Sending!Write
<1>7. ASSUME NEW c \in Conns, SendExcept(c) \/ SendClear(c) PROVE UNCHANGED Sending!vars
  BY <1>7, Unqueued DEF SendExcept, SendClear, TypeOK
<1> QED
  BY <1>0, <1>1, <1>2, <1>3, <1>4, <1>5, <1>6, <1>7, <1>8
  DEF Next, Monitor, RecvThrd, SendThrd, vars, MonNotice, MonConnect, MonRefused, MonLogin, MonAnswer,
      MonStartRecv, MonFailed, MonTick, PeerLost, Expire, RecvTop, RecvEnd, RecvClose, RecvExcept, RecvClear,
      Sending!Next

\* However logins, failures and the threads of several connections interleave,
\* every frame leaves the queue in its turn and is written by one thread, once,
\* and no thread ends with a frame in its hands (ImplementsOutbox).
THEOREM UplinkImplementsOutbox == Spec => ImplementsOutbox
<1>1. Inv /\ [Next]_vars => [Sending!Next]_(Sending!vars)
  BY OutboxStep DEF Inv
<1> QED
  BY Invariance, OutboxInit, <1>1, PTL DEF Spec, ImplementsOutbox, Sending!Spec

-----------------------------------------------------------------------------
(* What Outbox promises holds of Uplink *)

\* The theorems of OutboxProofs, for the queue and the threads of Uplink.
Sent == INSTANCE OutboxProofs WITH
  Answer <- Ctrl,
  fresh <- {m \in Cmds : fate[m] = "new"},
  queue <- sendMsgList,
  senders <- {c \in Conns : send[c] \in {"top", "take", "write"}},
  held <- [c \in Conns |-> IF send[c] = "write" THEN <<taken[c]>> ELSE <<>>]

LEMMA SendingIsSent ==
  /\ Sending!Init => Sent!Init
  /\ [Sending!Next]_(Sending!vars) => [Sent!Next]_(Sent!vars)
BY DEF Sending!Init, Sending!Next, Sending!vars, Sending!Submit, Sending!Reply, Sending!Start,
       Sending!Take, Sending!Write, Sending!End, Sending!Restart,
       Sent!Init, Sent!Next, Sent!vars, Sent!Submit, Sent!Reply, Sent!Start,
       Sent!Take, Sent!Write, Sent!End, Sent!Restart

\* No two send threads ever hold the same command, and none is queued while a
\* thread has it (getSendMsgList and its lock, for the threads of several
\* connections).
THEOREM UplinkSharesNoCommand == Spec => []Sent!InOnePlace
<1>1. Sent!Spec => []Sent!InOnePlace
  BY Sent!CommandsInOnePlace, UplinkAssumption
<1> QED
  BY <1>1, SendingIsSent, UplinkImplementsOutbox, PTL DEF ImplementsOutbox, Sending!Spec, Sent!Spec

\* A command that a send thread has written, or failed to write, is in no queue
\* and with no thread, and never again: it is written at most once, whichever
\* connections are lost and made meanwhile.
THEOREM UplinkWritesOnce == Spec => Sent!WrittenOnce
<1>1. Sent!Spec => Sent!WrittenOnce
  BY Sent!CommandsWrittenOnce, UplinkAssumption
<1> QED
  BY <1>1, SendingIsSent, UplinkImplementsOutbox, PTL DEF ImplementsOutbox, Sending!Spec, Sent!Spec
=============================================================================
