-------------------------- MODULE CommandLossProofs --------------------------
(***************************************************************************)
(* What becomes of the commands that CommandPath loses, for every set of   *)
(* commands, devices and connections: that a waiting command always has    *)
(* someone to move it on, that none is lost but with a connection, a       *)
(* server or for want of a session, and that the RMI server's part         *)
(* implements Outbox.                                                      *)
(***************************************************************************)
EXTENDS CommandPathProofs

-----------------------------------------------------------------------------
(* Nothing is stranded *)

\* Whoever moves on what waits in place p is there.
Manned(p) ==
  \A c \in Conns : /\ p = Taken(c) => c \in sender
                   /\ p = Wire(c) => c \in live /\ current[Ctrl] = c
                   /\ p \in {Channel(c), Flight(c)} =>
                        c \in live /\ \E d \in Devices : current[d] = c

LEMMA PlacesDiffer ==
  ASSUME NEW c, NEW b
  PROVE  /\ Taken(c) = Taken(b) => c = b
         /\ Wire(c) = Wire(b) => c = b
         /\ Channel(c) = Channel(b) => c = b
         /\ Flight(c) = Flight(b) => c = b
BY DEF Taken, Wire, Channel, Flight

LEMMA MannedPlaces == NoneStranded <=> \A p \in Places : queue[p] # <<>> => Manned(p)
BY PlacesOf DEF NoneStranded, Manned

LEMMA MannedPlacesNext ==
  ASSUME \A p \in Places : queue'[p] # <<>> => Manned(p)'
  PROVE  NoneStranded'
BY PlacesOf DEF NoneStranded, Manned, Taken, Wire, Channel, Flight

LEMMA StaysManned ==
  ASSUME NEW p \in Places, UNCHANGED <<current, live, sender>>, Manned(p)
  PROVE  Manned(p)'
BY DEF Manned, Taken, Wire, Channel, Flight

\* The places between the others need nobody of a particular session.
LEMMA AlwaysManned ==
  ASSUME NEW p, \/ p = SendMsgList \/ p = RecvMsgList
                \/ \E c \in Conns : p = Buffer(c)
                \/ \E d \in Devices : p = Device(d)
  PROVE  Manned(p)
BY RankOf DEF Manned

LEMMA MovedStranded ==
  ASSUME queue \in [Places -> Seq(Cmds)], NoneStranded, UNCHANGED <<current, live, sender>>,
         NEW p, NEW r, NEW n, Moved(p, r, n), Manned(r)
  PROVE  NoneStranded'
<1>1. ASSUME NEW q \in Places, queue'[q] # <<>> PROVE q = r \/ queue[q] # <<>>
  <2>1. q = p => queue[q] # <<>>
    BY PositionsOf DEF Moved
  <2> QED
    BY <1>1, <2>1 DEF Moved
<1>2. r \in Places
  BY DEF Moved
<1> QED
  BY <1>1, <1>2, MannedPlaces, MannedPlacesNext, StaysManned

LEMMA ShrunkStays ==
  ASSUME queue \in [Places -> Seq(Cmds)], NEW k, Shrunk(k), NEW q \in Places, queue'[q] # <<>>
  PROVE  queue[q] # <<>> /\ k[q] < Len(queue[q])
<1>1. /\ Len(queue[q]) \in Nat /\ k[q] \in Nat /\ k[q] <= Len(queue[q])
      /\ Len(queue'[q]) = Len(queue[q]) - k[q] /\ queue'[q] \in Seq(Cmds)
  BY PositionsOf DEF Shrunk
<1>2. Len(queue'[q]) > 0
  BY <1>1, EmptySeq
<1> QED
  BY <1>1, <1>2

LEMMA DropStranded ==
  ASSUME queue \in [Places -> Seq(Cmds)], NoneStranded, UNCHANGED <<current, live, sender>>,
         NEW p \in Places, Drop(p)
  PROVE  NoneStranded'
BY DropShrinks, ShrunkStays, MannedPlaces, MannedPlacesNext, StaysManned

\* A connection that is open, and whose threads run at the RMI server, is the one
\* the gateway has for that.
OwnConnection == \A c \in sender \intersect live : current[Ctrl] = c

LEMMA OwnConnectionStep ==
  ASSUME Inv, OwnConnection, [Next]_vars
  PROVE  OwnConnection'
<1>0. RestTyped /\ Ctrl \in Keys /\ \A d \in Devices : d \in Keys /\ d # Ctrl
  BY Parts, CommandPathAssumption DEF Keys
<1>1. ASSUME NEW c \in Conns, Reconnect(c) PROVE OwnConnection'
  <2>1. /\ current[Ctrl] = None /\ current' = [current EXCEPT ![Ctrl] = c]
        /\ live' = live \union {c} /\ sender' = sender \union {c} /\ c \notin live \union sender
    BY <1>1 DEF Reconnect, New, Free, Table!Login
  <2>2. sender \intersect live = {}
    BY <1>0, <2>1, CommandPathAssumption DEF OwnConnection, RestTyped
  <2> QED
    BY <1>0, <2>1, <2>2 DEF OwnConnection, RestTyped
<1>2. ASSUME NEW c \in Conns, NEW d \in Devices, DeviceLogin(d, c) PROVE OwnConnection'
  <2>1. /\ current'[Ctrl] = current[Ctrl] /\ sender' = sender
        /\ live' = live \union {c} /\ c \notin sender
    BY <1>0, <1>2 DEF DeviceLogin, New, Free, Table!Login, RestTyped
  <2> QED
    BY <2>1 DEF OwnConnection
<1>3. ASSUME NEW k \in Keys, ClientClose(k) PROVE OwnConnection'
  <2>1. /\ live' = live \ {current[k]} /\ sender' = sender
        /\ \A l \in Keys \ {k} : current'[l] = current[l]
    BY <1>0, <1>3 DEF ClientClose, Table!Logout, RestTyped
  <2> QED
    BY <1>0, <2>1 DEF OwnConnection
<1>4. CASE GatewayRestart \/ RmiRestart
  BY <1>4 DEF GatewayRestart, RmiRestart, OwnConnection
<1>5. CASE UNCHANGED <<current, live>> /\ sender' \subseteq sender
  BY <1>5 DEF OwnConnection
<1> QED
  BY <1>1, <1>2, <1>3, <1>4, <1>5
  DEF Next, SendThrd, RecvThrd, Session, Evict, LoginAgain, StaleThrd, vars, Client, Take, Write,
      SenderEnds, RecvRead, SetRecvMsgList, DisPatch, ChannelTake, Receive, Break

LEMMA NoneStrandedStep ==
  ASSUME Inv, NoneStranded, OwnConnection, [Next]_vars
  PROVE  NoneStranded'
<1>0. /\ queue \in [Places -> Seq(Cmds)] /\ RestTyped /\ QueueTyped /\ TableOK
  BY Parts DEF QueueTyped
<1>1. ASSUME NEW m \in Cmds, Client(m) PROVE NoneStranded'
  <2>1. /\ UNCHANGED <<current, live, sender>>
        /\ \A q \in Places \ {SendMsgList} : queue'[q] = queue[q]
    BY <1>0, <1>1 DEF Client
  <2> QED
    BY <2>1, PlacesOf, AlwaysManned, MannedPlaces, MannedPlacesNext, StaysManned
<1>2. ASSUME NEW k \in Keys, NEW c \in Conns, Table!Login(k, c), queue' = queue, sender \subseteq sender'
      PROVE  NoneStranded'
  <2>1. /\ current[k] = None /\ live \subseteq live'
        /\ \A l \in Keys \ {k} : current'[l] = current[l]
    BY <1>0, <1>2 DEF Table!Login, RestTyped
  <2>2. ASSUME NEW q \in Places, Manned(q) PROVE Manned(q)'
    <3>1. ASSUME NEW b \in Conns, NEW l \in Keys, current[l] = b PROVE current'[l] = b
      BY <2>1, <3>1, CommandPathAssumption
    <3> QED
      BY <1>2, <2>1, <2>2, <3>1 DEF Manned, Keys, Taken, Wire, Channel, Flight
  <2> QED
    BY <1>2, <2>2, MannedPlaces, MannedPlacesNext
<1>3. ASSUME NEW c \in Conns, Reconnect(c) PROVE NoneStranded'
  BY <1>2, <1>3 DEF Reconnect, Keys
<1>4. ASSUME NEW c \in Conns, NEW d \in Devices, DeviceLogin(d, c) PROVE NoneStranded'
  BY <1>2, <1>4 DEF DeviceLogin, Keys
<1>5. ASSUME NEW c \in Conns, Take(c) PROVE NoneStranded'
  <2>1. Moved(SendMsgList, Taken(c), 1)
    BY <1>0, <1>5, RankOf, PlacesOf, MoveMoves DEF Take
  <2>2. Manned(Taken(c))
    BY <1>5, RankOf, PlacesDiffer DEF Take, Manned
  <2> QED
    BY <1>0, <1>5, <2>1, <2>2, MovedStranded DEF Take
<1>6. ASSUME NEW c \in Conns, Write(c) PROVE NoneStranded'
  <2>1. CASE Move(Taken(c), Wire(c)) /\ Up(c) /\ UNCHANGED sender
    <3>1. Moved(Taken(c), Wire(c), 1)
      BY <1>0, <2>1, RankOf, PlacesOf, MoveMoves
    <3>2. c \in sender
      BY <2>1, PlacesOf DEF NoneStranded, Move
    <3>3. Manned(Wire(c))
      BY <2>1, <3>2, RankOf, PlacesDiffer DEF Manned, Up, OwnConnection
    <3> QED
      BY <1>0, <1>6, <2>1, <3>1, <3>3, MovedStranded DEF Write
  <2>2. CASE Drop(Taken(c)) /\ UNCHANGED sender
    BY <1>0, <1>6, <2>2, PlacesOf, DropStranded DEF Write
  <2>3. CASE Drop(Taken(c)) /\ sender' = sender \ {c}
    <3>1. ASSUME NEW q \in Places, queue'[q] # <<>> PROVE queue[q] # <<>> /\ q # Taken(c)
      <4> DEFINE first == [p \in Places |-> IF p = Taken(c) THEN 1 ELSE 0]
      <4>1. Shrunk(first) /\ first[Taken(c)] = 1
        BY <1>0, <2>3, PlacesOf, DropShrinks
      <4>2. PICK k : Shrunk(k) /\ k[Taken(c)] = 1
        BY <4>1
      <4>3. queue[q] # <<>> /\ k[q] < Len(queue[q])
        BY <1>0, <3>1, <4>2, ShrunkStays
      <4>4. Len(queue[Taken(c)]) <= 1 /\ Len(queue[Taken(c)]) \in Nat
        BY <1>0, PlacesOf, PositionsOf DEF QueueTyped
      <4> QED
        BY <4>2, <4>3, <4>4
    <3>2. ASSUME NEW q \in Places, q # Taken(c), Manned(q) PROVE Manned(q)'
      BY <1>6, <2>3, <3>2 DEF Write, Manned, Taken, Wire, Channel, Flight
    <3> QED
      BY <3>1, <3>2, MannedPlaces, MannedPlacesNext
  <2> QED
    BY <1>6, <2>1, <2>2, <2>3 DEF Write
<1>7. ASSUME NEW c \in Conns, SenderEnds(c) PROVE NoneStranded'
  <2>1. ASSUME NEW q \in Places, queue'[q] # <<>> PROVE queue[q] # <<>> /\ q # Taken(c)
    BY <1>7, <2>1 DEF SenderEnds
  <2>2. ASSUME NEW q \in Places, q # Taken(c), Manned(q) PROVE Manned(q)'
    BY <1>7, <2>2 DEF SenderEnds, Manned, Taken, Wire, Channel, Flight
  <2> QED
    BY <2>1, <2>2, MannedPlaces, MannedPlacesNext
<1>8. ASSUME NEW c \in Conns, RecvRead(c) PROVE NoneStranded'
  <2>1. PICK n \in Nat : Moved(Wire(c), Buffer(c), n)
    BY <1>8, RecvReadMoves
  <2> QED
    BY <1>0, <1>8, <2>1, AlwaysManned, MovedStranded DEF RecvRead
<1>9. ASSUME NEW c \in Conns, SetRecvMsgList(c) PROVE NoneStranded'
  <2>1. Moved(Buffer(c), RecvMsgList, 1)
    BY <1>0, <1>9, RankOf, PlacesOf, MoveMoves DEF SetRecvMsgList
  <2> QED
    BY <1>0, <1>9, <2>1, AlwaysManned, MovedStranded DEF SetRecvMsgList
<1>10. CASE DisPatch
  <2> DEFINE s == current[Target[Head(queue[RecvMsgList])]]
  <2>1. CASE Drop(RecvMsgList)
    BY <1>0, <1>10, <2>1, PlacesOf, DropStranded DEF DisPatch
  <2>2. CASE s # None /\ Move(RecvMsgList, Channel(s))
    <3>1. PICK d \in Devices : d = Target[Head(queue[RecvMsgList])]
      BY <1>0, <2>2, PlacesOf, CommandPathAssumption DEF Move
    <3>2. PICK c \in Conns : c = s /\ c \in live /\ current[d] = c
      BY <1>0, <2>2, <3>1 DEF RestTyped, TableOK, Keys
    <3>3. Moved(RecvMsgList, Channel(c), 1)
      BY <1>0, <2>2, <3>2, RankOf, PlacesOf, MoveMoves
    <3>4. Manned(Channel(c))
      BY <3>2, RankOf, PlacesDiffer DEF Manned
    <3> QED
      BY <1>0, <1>10, <3>3, <3>4, MovedStranded DEF DisPatch
  <2> QED
    BY <1>10, <2>1, <2>2 DEF DisPatch
<1>11. ASSUME NEW c \in Conns, ChannelTake(c) PROVE NoneStranded'
  <2>1. Moved(Channel(c), Flight(c), 1)
    BY <1>0, <1>11, RankOf, PlacesOf, MoveMoves DEF ChannelTake
  <2>2. Manned(Flight(c))
    <3>1. queue[Channel(c)] # <<>>
      BY <1>11 DEF ChannelTake, Move
    <3> QED
      BY <3>1, RankOf, PlacesDiffer DEF NoneStranded, Manned
  <2> QED
    BY <1>0, <1>11, <2>1, <2>2, MovedStranded DEF ChannelTake
<1>16. ASSUME NEW c \in Conns, Receive(c) PROVE NoneStranded'
  <2>1. PICK d \in Devices : Move(Flight(c), Device(d))
    BY <1>16 DEF Receive
  <2>2. Moved(Flight(c), Device(d), 1)
    BY <1>0, <2>1, RankOf, PlacesOf, MoveMoves
  <2> QED
    BY <1>0, <1>16, <2>2, AlwaysManned, MovedStranded DEF Receive
<1>12. ASSUME NEW k \in Keys, ClientClose(k) PROVE NoneStranded'
  <2>1. PICK b \in Conns : b = current[k]
    BY <1>0, <1>12 DEF ClientClose, Table!Logout, RestTyped
  <2> DEFINE P == {Wire(b), Channel(b), Flight(b)}
  <2>2. /\ live' = live \ {b} /\ sender' = sender
        /\ \A l \in Keys \ {k} : current'[l] = current[l]
        /\ \A q \in Places : queue'[q] = IF q \in P THEN <<>> ELSE queue[q]
    BY <1>0, <1>12, <2>1 DEF ClientClose, Clear, Table!Logout, RestTyped
  <2>3. ASSUME NEW q \in Places, q \notin P, Manned(q) PROVE Manned(q)'
    <3>1. ASSUME NEW c \in Conns, q \in {Channel(c), Flight(c)}
          PROVE  c \in live' /\ \E d \in Devices : current'[d] = c
      <4>1. c # b /\ c \in live
        BY <2>3, <3>1 DEF Manned
      <4>2. PICK d \in Devices : current[d] = c
        BY <2>3, <3>1 DEF Manned
      <4> QED
        BY <2>1, <2>2, <4>1, <4>2 DEF Keys
    <3>2. ASSUME NEW c \in Conns, q = Wire(c) PROVE c \in live' /\ current'[Ctrl] = c
      <4>1. c # b /\ c \in live /\ current[Ctrl] = c
        BY <2>3, <3>2 DEF Manned
      <4> QED
        BY <2>1, <2>2, <4>1 DEF Keys
    <3> QED
      BY <2>2, <2>3, <3>1, <3>2 DEF Manned, Taken, Wire, Channel, Flight
  <2> QED
    BY <2>2, <2>3, MannedPlaces, MannedPlacesNext
<1>13. CASE GatewayRestart
  <2>1. \A q \in Places : queue'[q] = IF q \in GatewayPlaces THEN <<>> ELSE queue[q]
    BY <1>13 DEF GatewayRestart, Clear
  <2>2. ASSUME NEW q \in Places \ GatewayPlaces, Manned(q) PROVE Manned(q)'
    BY <1>13, <2>2 DEF GatewayRestart, GatewayPlaces, Manned, Taken, Wire, Channel, Flight
  <2> QED
    BY <2>1, <2>2, MannedPlaces, MannedPlacesNext
<1>14. CASE RmiRestart
  <2>1. \A q \in Places : queue'[q] = IF q \in RmiPlaces THEN <<>> ELSE queue[q]
    BY <1>14 DEF RmiRestart, Clear
  <2>2. ASSUME NEW q \in Places \ RmiPlaces, Manned(q) PROVE Manned(q)'
    BY <1>14, <2>2 DEF RmiRestart, RmiPlaces, Manned, Taken, Wire, Channel, Flight
  <2> QED
    BY <2>1, <2>2, MannedPlaces, MannedPlacesNext
<1>15. CASE \/ UNCHANGED vars \/ \E c \in Conns : Break(c)
            \/ \E k \in Keys : StaleThrd(k) /\ ~ClientClose(k)
  BY <1>15, MannedPlaces, MannedPlacesNext, StaysManned DEF vars, Break, StaleThrd
<1> QED
  BY <1>1, <1>3, <1>4, <1>5, <1>6, <1>7, <1>8, <1>9, <1>10, <1>11, <1>12, <1>13, <1>14, <1>15, <1>16
  DEF Next, SendThrd, RecvThrd, Session, Evict, LoginAgain

\* Wherever a command waits, the thread or the session that moves it on is still
\* there, whatever has been closed, restarted or connected again (NoneStranded).
THEOREM NoCommandIsStranded == Spec => []NoneStranded
<1>1. Init => NoneStranded /\ OwnConnection
  BY PlacesOf DEF Init, NoneStranded, OwnConnection
<1>2. Inv /\ NoneStranded /\ OwnConnection /\ [Next]_vars => (NoneStranded /\ OwnConnection)'
  BY NoneStrandedStep, OwnConnectionStep
<1> QED
  BY Invariance, <1>1, <1>2, PTL DEF Spec
-----------------------------------------------------------------------------
(* Losses *)

\* What a step loses.
Lost == InTransit \ (InTransit \union Delivered)'

\* It had an excuse.
Excused(m) ==
  \/ faults' # faults
  \/ m \in In(RecvMsgList) /\ current[Target[m]] = None
  \/ \E c \in Conns \ (live \ broken) : m \in In(Taken(c))
  \/ \E k \in Keys :
       /\ current[k] # None /\ current'[k] = None
       /\ m \in OnSession(k)
       /\ k = Ctrl => Gone(k) \/ k \in stale \/ sender # {current[k]}

LEMMA MoveLosesNone ==
  ASSUME queue \in [Places -> Seq(Cmds)], NEW p \in Places \ DevicePlaces,
         NEW r \in Places \ DevicePlaces, NEW n, Moved(p, r, n)
  PROVE  Lost = {}
BY MovedTransit DEF Lost

LEMMA PassingOnLosesNone ==
  ASSUME queue \in [Places -> Seq(Cmds)], NEW p \in Places \ DevicePlaces,
         NEW r \in Places \ DevicePlaces, p # r, Move(p, r)
  PROVE  Lost = {}
BY MoveMoves, MoveLosesNone

LEMMA DeliveryLosesNone ==
  ASSUME queue \in [Places -> Seq(Cmds)], Once, NEW p \in Places \ DevicePlaces,
         NEW d \in Devices, Moved(p, Device(d), 1)
  PROVE  Lost = {}
<1> DEFINE r == Device(d)
<1>1. InTransit' = InTransit \ {queue[p][1]}
  BY MovedToDevice
<1>2. queue[p][1] \in Delivered'
  <2>1. /\ r \in Places /\ r \in DevicePlaces /\ queue' \in [Places -> Seq(Cmds)]
        /\ Len(queue[r]) \in Nat /\ Len(queue'[r]) = Len(queue[r]) + 1
        /\ queue'[r][Len(queue[r]) + 1] = queue[p][1]
    BY PlacesOf, PositionsOf DEF Moved, DevicePlaces
  <2>2. Len(queue[r]) + 1 \in DOMAIN queue'[r]
    BY <2>1
  <2>3. queue[p][1] \in In(r)'
    BY <2>1, <2>2 DEF In, Device
  <2> QED
    BY <2>3 DEF Delivered, DevicePlaces, Device
<1> QED
  BY <1>1, <1>2 DEF Lost

\* What is lost when queues shrink was in what they lost.
LEMMA ShrunkLost ==
  ASSUME queue \in [Places -> Seq(Cmds)], NEW k, Shrunk(k), NEW m \in Lost
  PROVE  \E q \in Places \ DevicePlaces : \E i \in Positions(q) :
           i <= k[q] /\ k[q] # 0 /\ m = queue[q][i]
<1>1. m \in InTransit /\ m \notin InTransit'
  BY DEF Lost
<1>2. PICK q \in Places \ DevicePlaces : \E i \in Positions(q) : m = queue[q][i]
  BY <1>1, TransitOf
<1>3. PICK i \in Positions(q) : m = queue[q][i]
  BY <1>2
<1>4. /\ i \in Nat /\ i >= 1 /\ i <= Len(queue[q]) /\ Len(queue[q]) \in Nat
      /\ k[q] \in Nat /\ k[q] <= Len(queue[q]) /\ Len(queue'[q]) = Len(queue[q]) - k[q]
      /\ queue' \in [Places -> Seq(Cmds)]
  BY <1>3, PositionsOf DEF Shrunk
<1>5. CASE i > k[q]
  <2>1. i - k[q] \in 1..Len(queue[q]) - k[q] /\ (i - k[q]) + k[q] = i
    BY <1>4, <1>5
  <2>2. queue'[q][i - k[q]] = m /\ i - k[q] \in Positions(q)'
    BY <1>3, <1>4, <2>1, PositionsNext DEF Shrunk
  <2> QED
    BY <1>1, <2>2, TransitNext
<1> QED
  BY <1>3, <1>4, <1>5

LEMMA DropLoses ==
  ASSUME queue \in [Places -> Seq(Cmds)], NEW p \in Places, Drop(p), NEW m \in Lost
  PROVE  m = Head(queue[p]) /\ m \in In(p)
<1> DEFINE first == [q \in Places |-> IF q = p THEN 1 ELSE 0]
<1>1. Shrunk(first)
  BY DropShrinks
<1>2. PICK q \in Places \ DevicePlaces : \E i \in Positions(q) :
        i <= first[q] /\ first[q] # 0 /\ m = queue[q][i]
  <2> HIDE DEF first
  <2> QED
    BY <1>1, ShrunkLost
<1>3. PICK i \in Positions(p) : i <= 1 /\ m = queue[p][i]
  BY <1>2
<1>4. i = 1
  BY <1>3, PositionsOf
<1> QED
  BY <1>3, <1>4 DEF In, Positions

LEMMA ClearLoses ==
  ASSUME queue \in [Places -> Seq(Cmds)], NEW P \in SUBSET Places, Clear(P), NEW m \in Lost
  PROVE  \E p \in P : m \in In(p)
<1> DEFINE all == [q \in Places |-> IF q \in P THEN Len(queue[q]) ELSE 0]
<1>1. Shrunk(all)
  BY ClearShrinks
<1>2. PICK q \in Places \ DevicePlaces : \E i \in Positions(q) :
        i <= all[q] /\ all[q] # 0 /\ m = queue[q][i]
  <2> HIDE DEF all
  <2> QED
    BY <1>1, ShrunkLost
<1> QED
  BY <1>2 DEF In, Positions

LEMMA StayLosesNone ==
  ASSUME queue' = queue
  PROVE  Lost = {}
BY DEF Lost, InTransit, In

\* What is in a sequence is in a longer one.
LEMMA AppendKeeps ==
  ASSUME NEW t \in Seq(Cmds), NEW k \in Cmds
  PROVE  {t[i] : i \in DOMAIN t} \subseteq {Append(t, k)[i] : i \in DOMAIN Append(t, k)}
<1>1. /\ Len(t) \in Nat /\ Len(Append(t, k)) = Len(t) + 1 /\ Append(t, k) \in Seq(Cmds)
      /\ \A i \in 1..Len(t) : Append(t, k)[i] = t[i]
  BY AppendProperties, LenProperties
<1>2. DOMAIN t = 1..Len(t) /\ DOMAIN Append(t, k) = 1..Len(t) + 1
  BY <1>1, LenProperties
<1>3. \A i \in DOMAIN t : i \in DOMAIN Append(t, k) /\ Append(t, k)[i] = t[i]
  BY <1>1, <1>2
<1> QED
  BY <1>3

LEMMA LossesExcused ==
  ASSUME Inv, [Next]_vars, NEW m \in Lost
  PROVE  Excused(m)
<1>0. /\ queue \in [Places -> Seq(Cmds)] /\ RestTyped /\ TableOK /\ Once
  BY Parts DEF QueueTyped, QueueInv
<1>1. ASSUME NEW k \in Cmds, Client(k) PROVE FALSE
  <2>1. In(SendMsgList) \subseteq In(SendMsgList)'
    <3>1. queue'[SendMsgList] = Append(queue[SendMsgList], k)
      BY <1>0, <1>1, PlacesOf DEF Client
    <3>2. queue[SendMsgList] \in Seq(Cmds)
      BY <1>0, PlacesOf
    <3>3. In(SendMsgList) \subseteq
            {Append(queue[SendMsgList], k)[i] : i \in DOMAIN Append(queue[SendMsgList], k)}
      BY <3>2, AppendKeeps DEF In
    <3>4. In(SendMsgList)' =
            {Append(queue[SendMsgList], k)[i] : i \in DOMAIN Append(queue[SendMsgList], k)}
      BY <3>1 DEF In, SendMsgList
    <3> QED
      BY <3>3, <3>4
  <2>2. \A q \in Places \ {SendMsgList} : In(q)' = In(q)
    BY <1>0, <1>1 DEF Client, In
  <2> QED
    BY <2>1, <2>2 DEF Lost, InTransit
<1>2. ASSUME NEW c \in Conns, Take(c) PROVE FALSE
  <2>1. SendMsgList # Taken(c)
    BY RankOf
  <2> QED
    BY <1>0, <1>2, <2>1, NotDevices, PassingOnLosesNone DEF Take
<1>3. ASSUME NEW c \in Conns, Write(c) PROVE Excused(m)
  <2>1. CASE Move(Taken(c), Wire(c))
    <3>1. Taken(c) # Wire(c)
      BY RankOf
    <3> QED
      BY <1>0, <2>1, <3>1, NotDevices, PassingOnLosesNone
  <2>2. CASE Drop(Taken(c)) /\ ~Up(c)
    BY <1>0, <2>2, PlacesOf, DropLoses DEF Excused, Up
  <2> QED
    BY <1>3, <2>1, <2>2 DEF Write
<1>4. ASSUME NEW c \in Conns, RecvRead(c) PROVE FALSE
  <2>1. PICK n \in Nat : Moved(Wire(c), Buffer(c), n)
    BY <1>4, RecvReadMoves
  <2> QED
    BY <1>0, <2>1, NotDevices, MoveLosesNone
<1>5. ASSUME NEW c \in Conns, SetRecvMsgList(c) PROVE FALSE
  <2>1. Buffer(c) # RecvMsgList
    BY RankOf
  <2> QED
    BY <1>0, <1>5, <2>1, NotDevices, PassingOnLosesNone DEF SetRecvMsgList
<1>6. CASE DisPatch
  <2> DEFINE s == current[Target[Head(queue[RecvMsgList])]]
  <2>1. CASE Drop(RecvMsgList) /\ s = None
    BY <1>0, <2>1, PlacesOf, DropLoses DEF Excused
  <2>2. CASE s # None /\ Move(RecvMsgList, Channel(s))
    <3>1. Head(queue[RecvMsgList]) \in Cmds
      BY <1>0, <2>2, PlacesOf DEF Move
    <3>2. PICK c \in Conns : c = s
      BY <1>0, <2>2, <3>1, CommandPathAssumption DEF RestTyped, Keys
    <3>3. RecvMsgList # Channel(c) /\ Move(RecvMsgList, Channel(c))
      BY <2>2, <3>2, RankOf
    <3> QED
      BY <1>0, <3>3, NotDevices, PassingOnLosesNone
  <2> QED
    BY <1>6, <2>1, <2>2 DEF DisPatch
<1>7. ASSUME NEW c \in Conns, ChannelTake(c) PROVE FALSE
  <2>1. Channel(c) # Flight(c)
    BY RankOf
  <2> QED
    BY <1>0, <1>7, <2>1, NotDevices, PassingOnLosesNone DEF ChannelTake
<1>11. ASSUME NEW c \in Conns, Receive(c) PROVE FALSE
  <2>1. PICK d \in Devices : Move(Flight(c), Device(d))
    BY <1>11 DEF Receive
  <2>2. Moved(Flight(c), Device(d), 1)
    BY <1>0, <2>1, RankOf, PlacesOf, MoveMoves
  <2> QED
    BY <1>0, <2>2, NotDevices, DeliveryLosesNone
<1>8. ASSUME NEW k \in Keys, Evict(k) \/ LoginAgain(k) \/ (k \in stale /\ ClientClose(k))
      PROVE  Excused(m)
  <2> DEFINE P == {Wire(current[k]), Channel(current[k]), Flight(current[k])}
  <2>1. ClientClose(k) /\ (k = Ctrl => Gone(k) \/ k \in stale \/ sender # {current[k]})
    BY <1>8 DEF Evict, LoginAgain
  <2>2. current[k] \in Conns /\ current[k] # None /\ current'[k] = None
    BY <1>0, <2>1, CommandPathAssumption DEF ClientClose, Table!Logout, RestTyped
  <2>3. P \subseteq Places /\ Clear(P)
    BY <2>1, <2>2, PlacesOf DEF ClientClose
  <2>4. \E p \in P : m \in In(p)
    <3> HIDE DEF P
    <3> QED
      BY <1>0, <2>3, ClearLoses
  <2>5. m \in OnSession(k)
    BY <2>4 DEF OnSession
  <2> QED
    BY <2>1, <2>2, <2>5 DEF Excused
<1>9. CASE GatewayRestart \/ RmiRestart
  BY <1>0, <1>9 DEF GatewayRestart, RmiRestart, Fault, Excused, RestTyped
<1>10. CASE \/ UNCHANGED vars
            \/ \E k \in Keys : StaleThrd(k) /\ ~ClientClose(k)
            \/ \E c \in Conns : \/ Reconnect(c) \/ SenderEnds(c) \/ Break(c)
                                \/ \E d \in Devices : DeviceLogin(d, c)
  BY <1>10, StayLosesNone DEF vars, StaleThrd, Reconnect, SenderEnds, Break, DeviceLogin
<1> QED
  BY <1>1, <1>2, <1>3, <1>4, <1>5, <1>6, <1>7, <1>8, <1>9, <1>10, <1>11
  DEF Next, SendThrd, RecvThrd, Session, StaleThrd

\* A command is lost only when a server is restarted, when its device has no
\* session at the time it is dispatched, when a thread writes it to a connection
\* that is gone, or with the session it is on; and a session of the RMI server is
\* closed under it only if that is gone or threads of an earlier connection are
\* left at one of the ends (LostOnlyWhenDisconnected).
THEOREM LossesHaveACause == Spec => LostOnlyWhenDisconnected
<1>1. Inv /\ [Next]_vars => [\A m \in Lost : Excused(m)]_vars
  BY LossesExcused
<1> QED
  BY Invariance, <1>1, PTL DEF Spec, LostOnlyWhenDisconnected, Excused, Lost

-----------------------------------------------------------------------------
(* The RMI server's part implements Outbox *)

LEMMA OutboxInit == Init => Sending!Init
BY PlacesOf DEF Init, Accepted, Sending!Init

\* A step that leaves the RMI server's places and threads alone is none of Outbox's.
LEMMA ElsewhereIsQuiet ==
  ASSUME UNCHANGED <<number, sender>>,
         \A q \in RmiPlaces : queue'[q] = queue[q]
  PROVE  UNCHANGED Sending!vars
<1>1. queue'[SendMsgList] = queue[SendMsgList] /\ \A c \in Conns : queue'[Taken(c)] = queue[Taken(c)]
  BY DEF RmiPlaces
<1>2. [c \in Conns |-> queue'[Taken(c)]] = [c \in Conns |-> queue[Taken(c)]]
  BY <1>1
<1>3. Accepted' = Accepted
  BY DEF Accepted
<1> QED
  BY <1>1, <1>2, <1>3 DEF Sending!vars, SendMsgList, Taken

\* A thread that holds one frame holds none after it.
LEMMA TailOfOne ==
  ASSUME NEW t \in Seq(Cmds), Len(t) <= 1, t # <<>>
  PROVE  Tail(t) = <<>>
<1>1. Len(t) \in Nat /\ Len(t) # 0
  BY EmptySeq, LenProperties
<1>2. Len(t) = 1
  BY <1>1
<1>3. Tail(t) \in Seq(Cmds) /\ Len(Tail(t)) = 0
  BY <1>2, HeadTailProperties
<1> QED
  BY <1>3, EmptySeq

LEMMA OutboxStep ==
  ASSUME Inv, NoneStranded, [Next]_vars
  PROVE  [Sending!Next]_(Sending!vars)
<1>0. /\ queue \in [Places -> Seq(Cmds)] /\ RestTyped /\ QueueTyped
      /\ SendMsgList \in Places /\ \A c \in Conns : Taken(c) \in Places
  BY Parts, PlacesOf DEF QueueTyped
<1>a. \A c \in Conns : /\ Taken(c) # SendMsgList
                      /\ \A d \in Conns : Taken(c) = Taken(d) => c = d
  BY RankOf, PlacesDiffer
\* Places the RMI server has none of.
<1>b. /\ RecvMsgList \notin RmiPlaces
      /\ \A c \in Conns : Wire(c) \notin RmiPlaces /\ Buffer(c) \notin RmiPlaces /\ Channel(c) \notin RmiPlaces
                      /\ Flight(c) \notin RmiPlaces
      /\ \A d \in Devices : Device(d) \notin RmiPlaces
  BY RankOf DEF RmiPlaces
<1>c. RmiPlaces \subseteq Places
  BY DEF Places
<1>1. ASSUME NEW m \in Cmds, Client(m) PROVE Sending!Submit(m)
  <2>1. /\ number[m] = 0 /\ number' = [number EXCEPT ![m] = count + 1] /\ count \in Nat
        /\ queue' = [queue EXCEPT ![SendMsgList] = Append(@, m)] /\ sender' = sender
    BY <1>0, <1>1 DEF Client, RestTyped
  <2>2. m \in Cmds \ Accepted /\ Cmds \ Accepted' = (Cmds \ Accepted) \ {m}
    BY <1>0, <2>1 DEF Accepted, RestTyped
  <2>3. queue'[SendMsgList] = Append(queue[SendMsgList], m)
    BY <1>0, <2>1
  <2>4. [c \in Conns |-> queue'[Taken(c)]] = [c \in Conns |-> queue[Taken(c)]]
    BY <1>0, <1>a, <2>1
  <2> QED
    BY <2>1, <2>2, <2>3, <2>4 DEF Sending!Submit, SendMsgList, Taken
<1>2. ASSUME NEW c \in Conns, Reconnect(c) PROVE Sending!Start(c)
  <2>1. c \notin sender /\ sender' = sender \union {c} /\ UNCHANGED <<queue, number>>
    BY <1>2 DEF Reconnect, New, Free
  <2> QED
    BY <2>1 DEF Sending!Start, Accepted, SendMsgList, Taken
<1>3. ASSUME NEW c \in Conns, Take(c) PROVE Sending!Take(c)
  <2>1. /\ c \in sender /\ queue[Taken(c)] = <<>> /\ queue[SendMsgList] # <<>>
        /\ queue' = [queue EXCEPT ![SendMsgList] = Tail(@),
                                  ![Taken(c)] = Append(@, Head(queue[SendMsgList]))]
        /\ UNCHANGED <<sender, number>>
    BY <1>3 DEF Take, Move
  <2>2. queue'[SendMsgList] = Tail(queue[SendMsgList])
    BY <1>0, <1>a, <2>1
  <2>3. queue'[Taken(c)] = <<Head(queue[SendMsgList])>>
    BY <1>0, <1>a, <2>1
  <2>4. \A d \in Conns \ {c} : queue'[Taken(d)] = queue[Taken(d)]
    BY <1>0, <1>a, <2>1
  <2> DEFINE held == [d \in Conns |-> queue[Taken(d)]]
  <2>5. [d \in Conns |-> queue'[Taken(d)]] = [held EXCEPT ![c] = <<Head(queue[SendMsgList])>>]
    BY <2>3, <2>4
  <2> QED
    BY <2>1, <2>2, <2>5 DEF Sending!Take, Accepted, SendMsgList, Taken
<1>4. ASSUME NEW c \in Conns, Write(c) PROVE Sending!Write(c)
  <2>1. /\ queue[Taken(c)] # <<>> /\ UNCHANGED number /\ sender' \in {sender, sender \ {c}}
        /\ \/ queue' = [queue EXCEPT ![Taken(c)] = Tail(@)]
           \/ queue' = [queue EXCEPT ![Taken(c)] = Tail(@), ![Wire(c)] = Append(@, Head(queue[Taken(c)]))]
    BY <1>4 DEF Write, Move, Drop
  <2>2. c \in sender
    BY <2>1 DEF NoneStranded
  <2>3. Tail(queue[Taken(c)]) = <<>>
    <3>1. PICK t \in Seq(Cmds) : t = queue[Taken(c)]
      BY <1>0
    <3>2. Len(t) <= 1 /\ t # <<>>
      BY <1>0, <2>1, <3>1 DEF QueueTyped
    <3> QED
      BY <3>1, <3>2, TailOfOne
  <2>4. Wire(c) # SendMsgList /\ \A d \in Conns : Wire(c) # Taken(d)
    BY RankOf
  <2>5. queue'[Taken(c)] = <<>> /\ queue'[SendMsgList] = queue[SendMsgList]
    BY <1>0, <1>a, <2>1, <2>3, <2>4
  <2>6. \A d \in Conns \ {c} : queue'[Taken(d)] = queue[Taken(d)]
    BY <1>0, <1>a, <2>1, <2>4
  <2> DEFINE held == [d \in Conns |-> queue[Taken(d)]]
  <2>7. [d \in Conns |-> queue'[Taken(d)]] = [held EXCEPT ![c] = <<>>]
    BY <2>5, <2>6
  <2> QED
    BY <2>1, <2>2, <2>5, <2>7 DEF Sending!Write, Accepted, SendMsgList, Taken
<1>5. ASSUME NEW c \in Conns, SenderEnds(c) PROVE Sending!End(c)
  BY <1>5 DEF SenderEnds, Sending!End, Accepted, SendMsgList, Taken
<1>6. ASSUME NEW c \in Conns, RecvRead(c) PROVE UNCHANGED Sending!vars
  BY <1>0, <1>b, <1>c, <1>6, ElsewhereIsQuiet DEF RecvRead
<1>7. ASSUME NEW c \in Conns, SetRecvMsgList(c) PROVE UNCHANGED Sending!vars
  BY <1>0, <1>b, <1>c, <1>7, ElsewhereIsQuiet DEF SetRecvMsgList, Move
<1>8. CASE DisPatch
  <2> DEFINE s == current[Target[Head(queue[RecvMsgList])]]
  <2>1. CASE Drop(RecvMsgList)
    BY <1>0, <1>b, <1>c, <1>8, <2>1, ElsewhereIsQuiet DEF DisPatch, Drop
  <2>2. CASE s # None /\ Move(RecvMsgList, Channel(s))
    <3>1. Head(queue[RecvMsgList]) \in Cmds
      BY <1>0, <2>2, PlacesOf DEF Move
    <3>2. PICK c \in Conns : c = s
      BY <1>0, <2>2, <3>1, CommandPathAssumption DEF RestTyped, Keys
    <3> QED
      BY <1>0, <1>b, <1>c, <1>8, <2>2, <3>2, ElsewhereIsQuiet DEF DisPatch, Move
  <2> QED
    BY <1>8, <2>1, <2>2 DEF DisPatch
<1>9. ASSUME NEW c \in Conns, ChannelTake(c) \/ Receive(c) PROVE UNCHANGED Sending!vars
  BY <1>0, <1>b, <1>c, <1>9, ElsewhereIsQuiet DEF ChannelTake, Receive, Move
<1>10. ASSUME NEW k \in Keys, ClientClose(k) PROVE UNCHANGED Sending!vars
  <2>1. PICK b \in Conns : b = current[k]
    BY <1>0, <1>10 DEF ClientClose, Table!Logout, RestTyped
  <2> QED
    BY <1>b, <1>c, <1>10, <2>1, ElsewhereIsQuiet DEF ClientClose, Clear
<1>11. CASE GatewayRestart
  <2>1. RmiPlaces \intersect GatewayPlaces = {}
    BY <1>b DEF GatewayPlaces
  <2> QED
    BY <1>c, <1>11, <2>1, ElsewhereIsQuiet DEF GatewayRestart, Clear
<1>12. ASSUME RmiRestart PROVE Sending!Restart
  <2>1. \A q \in RmiPlaces : queue'[q] = <<>>
    BY <1>c, <1>12 DEF RmiRestart, Clear
  <2>2. queue'[SendMsgList] = <<>> /\ [c \in Conns |-> queue'[Taken(c)]] = [c \in Conns |-> <<>>]
    BY <2>1 DEF RmiPlaces
  <2> QED
    BY <1>12, <2>2 DEF RmiRestart, Sending!Restart, Accepted, SendMsgList, Taken
<1>13. CASE \/ UNCHANGED vars \/ \E c \in Conns : Break(c) \/ \E d \in Devices : DeviceLogin(d, c)
            \/ \E k \in Keys : StaleThrd(k) /\ ~ClientClose(k)
  BY <1>13, ElsewhereIsQuiet DEF vars, Break, DeviceLogin, StaleThrd
<1> QED
  BY <1>1, <1>2, <1>3, <1>4, <1>5, <1>6, <1>7, <1>8, <1>9, <1>10, <1>11, <1>12, <1>13
  DEF Next, SendThrd, RecvThrd, Session, Evict, LoginAgain, Sending!Next

\* The RMI server of the command path, which has no monitor and no shared socket,
\* sends as the one of Uplink.tla does: in the order of the queue, each frame by
\* one thread and once (ImplementsOutbox).
THEOREM CommandPathImplementsOutbox == Spec => ImplementsOutbox
<1>1. Inv /\ NoneStranded /\ [Next]_vars => [Sending!Next]_(Sending!vars)
  BY OutboxStep
<1> QED
  BY Invariance, NoCommandIsStranded, OutboxInit, <1>1, PTL DEF Spec, ImplementsOutbox, Sending!Spec

-----------------------------------------------------------------------------
(* What is lost without any fault *)

\* Until something fails, every session's client is there, and no threads are left
\* of an earlier connection of the RMI server.
Undisturbed ==
  faults = 0 => broken = {} /\ Ctrl \notin stale /\ sender = {current[Ctrl]} \ {None}

\* So nothing closes the session of the RMI server.
LEMMA UndisturbedCloses ==
  ASSUME Inv, Undisturbed, faults = 0, NEW k \in Keys, current[k] # None,
         k = Ctrl => Gone(k) \/ k \in stale \/ sender # {current[k]}
  PROVE  k \in Devices
BY DEF Undisturbed, Gone, Keys

LEMMA UndisturbedStep ==
  ASSUME Inv, NoneStranded, Undisturbed, [Next]_vars
  PROVE  Undisturbed'
<1>0. /\ RestTyped /\ TableOK /\ Ctrl \in Keys /\ None \notin Conns
      /\ \A d \in Devices : d \in Keys /\ d # Ctrl
  BY Parts, CommandPathAssumption DEF Keys
<1>1. ASSUME NEW c \in Conns, Reconnect(c) PROVE Undisturbed'
  <2>1. /\ current[Ctrl] = None /\ current'[Ctrl] = c /\ sender' = sender \union {c}
        /\ UNCHANGED <<broken, stale, faults>>
    BY <1>0, <1>1 DEF Reconnect, Table!Login, RestTyped
  <2> QED
    BY <1>0, <2>1 DEF Undisturbed
<1>2. ASSUME NEW c \in Conns, NEW d \in Devices, DeviceLogin(d, c) PROVE Undisturbed'
  <2>1. current'[Ctrl] = current[Ctrl] /\ UNCHANGED <<broken, stale, sender, faults>>
    BY <1>0, <1>2 DEF DeviceLogin, Table!Login, RestTyped
  <2> QED
    BY <2>1 DEF Undisturbed
<1>3. ASSUME NEW c \in Conns, c \in sender, faults = 0 PROVE Up(c) /\ sender = {c}
  <2>1. c = current[Ctrl] /\ c \in live /\ broken = {} /\ sender = {c}
    BY <1>0, <1>3 DEF Undisturbed, TableOK
  <2> QED
    BY <2>1 DEF Up
<1>4. ASSUME NEW c \in Conns, Write(c) \/ SenderEnds(c) PROVE Undisturbed'
  <2>1. c \in sender /\ UNCHANGED <<current, stale, faults>>
    BY <1>4 DEF Write, SenderEnds, Move, Drop, NoneStranded
  <2>2. faults = 0 => UNCHANGED <<broken, sender>>
    BY <1>3, <1>4, <2>1 DEF Write, SenderEnds
  <2> QED
    BY <2>1, <2>2 DEF Undisturbed
<1>5. ASSUME NEW k \in Keys, Evict(k) \/ LoginAgain(k) \/ (k \in stale /\ ClientClose(k))
      PROVE  Undisturbed'
  <2>1. ClientClose(k) /\ current[k] # None
    BY <1>5 DEF Evict, LoginAgain, ClientClose, Table!Logout
  <2>2. faults = 0 => k \in Devices
    BY <1>5, <2>1, UndisturbedCloses DEF Evict, LoginAgain
  <2>3. /\ faults' = faults /\ sender' = sender /\ broken' \subseteq broken
        /\ stale' = stale \union {k}
    BY <1>0, <2>1 DEF ClientClose
  <2>4. k # Ctrl => current'[Ctrl] = current[Ctrl]
    BY <1>0, <2>1 DEF ClientClose, Table!Logout, RestTyped
  <2> QED
    BY <1>0, <2>2, <2>3, <2>4 DEF Undisturbed
<1>6. CASE GatewayRestart \/ RmiRestart \/ \E c \in Conns : Break(c)
  BY <1>0, <1>6 DEF GatewayRestart, RmiRestart, Break, Fault, RestTyped, Undisturbed
<1>7. CASE UNCHANGED <<current, broken, sender, faults>> /\ stale' \subseteq stale
  BY <1>7 DEF Undisturbed
<1> QED
  BY <1>1, <1>2, <1>4, <1>5, <1>6, <1>7
  DEF Next, SendThrd, RecvThrd, Session, StaleThrd, vars, Client, Take, RecvRead, SetRecvMsgList,
      DisPatch, ChannelTake, Receive

\* Faults are counted and not forgotten.
LEMMA FaultsGrow ==
  ASSUME Inv, [Next]_vars, faults' = 0
  PROVE  faults = 0
<1>1. faults \in Nat
  BY Parts, CommandPathAssumption DEF RestTyped
<1>2. CASE GatewayRestart \/ RmiRestart \/ \E c \in Conns : Break(c)
  <2>1. faults' = faults + 1
    BY <1>2 DEF GatewayRestart, RmiRestart, Break, Fault
  <2> QED
    BY <1>1, <2>1
<1>3. CASE UNCHANGED faults
  BY <1>3
<1> QED
  BY <1>2, <1>3
  DEF Next, SendThrd, RecvThrd, Session, Evict, LoginAgain, StaleThrd, ClientClose, vars, Client,
      Reconnect, Take, Write, SenderEnds, RecvRead, SetRecvMsgList, DisPatch, ChannelTake, Receive,
      DeviceLogin

\* While no connection has failed and no server was restarted, a command is not lost
\* between the servers: only MsgCtrl loses it, if its device has no session, or its
\* device's session, if that is closed in favour of another login (CheckClient) or
\* by the threads of an earlier one (ClientClose).
THEOREM FaultlessLossesAreTheDevices ==
  Spec => [][faults' = 0 => \A m \in InTransit \ (InTransit \union Delivered)' :
               LET s == current[Target[m]]
               IN  \/ m \in In(RecvMsgList) /\ s = None
                   \/ /\ s # None /\ current'[Target[m]] = None
                      /\ m \in In(Channel(s)) \union In(Flight(s))]_vars
<1>1. Init => Undisturbed
  BY DEF Init, Table!Init, Undisturbed, Keys
<1>2. Inv /\ NoneStranded /\ Undisturbed /\ [Next]_vars => Undisturbed'
  BY UndisturbedStep
<1>3. Inv /\ NoneStranded /\ Undisturbed /\ [Next]_vars =>
        [faults' = 0 => \A m \in InTransit \ (InTransit \union Delivered)' :
           LET s == current[Target[m]]
           IN  \/ m \in In(RecvMsgList) /\ s = None
               \/ /\ s # None /\ current'[Target[m]] = None
                  /\ m \in In(Channel(s)) \union In(Flight(s))]_vars
  <2> SUFFICES ASSUME Inv, NoneStranded, Undisturbed, [Next]_vars, faults' = 0,
                      NEW m \in Lost,
                      ~(m \in In(RecvMsgList) /\ current[Target[m]] = None)
               PROVE  /\ current[Target[m]] # None /\ current'[Target[m]] = None
                      /\ \/ m \in In(Channel(current[Target[m]]))
                         \/ m \in In(Flight(current[Target[m]]))
    BY DEF Lost
  <2>1. faults = 0
    BY FaultsGrow
  <2>2. RestTyped /\ TableOK /\ AllBelong /\ queue \in [Places -> Seq(Cmds)]
    BY Parts DEF QueueInv, QueueTyped
  <2>3. ASSUME NEW c \in Conns \ (live \ broken) PROVE m \notin In(Taken(c))
    <3>1. c \in sender => c \in live \ broken
      BY <2>1, <2>2, CommandPathAssumption DEF Undisturbed, TableOK, Keys
    <3>2. queue[Taken(c)] = <<>>
      BY <3>1 DEF NoneStranded
    <3> QED
      BY <3>2 DEF In
  <2>4. PICK k \in Keys : /\ current[k] # None /\ current'[k] = None
                          /\ m \in OnSession(k)
                          /\ k = Ctrl => Gone(k) \/ k \in stale \/ sender # {current[k]}
    BY <2>1, <2>3, LossesExcused DEF Excused
  <2>5. k \in Devices /\ k # Ctrl /\ current[k] \in Conns
    BY <2>1, <2>2, <2>4, UndisturbedCloses, CommandPathAssumption DEF RestTyped
  <2>6. PICK p \in {Wire(current[k]), Channel(current[k]), Flight(current[k])} : m \in In(p)
    BY <2>4 DEF OnSession
  <2>7. p # Wire(current[k])
    <3>1. queue[Wire(current[k])] = <<>>
      BY <2>2, <2>4, <2>5 DEF NoneStranded, TableOK, Keys
    <3> QED
      BY <2>6, <3>1 DEF In
  <2>8. p \in Places /\ Belongs(m, p) /\ m \in Cmds
    <3>1. p \in Places
      BY <2>5, <2>6, PlacesOf
    <3>2. PICK i \in Positions(p) : m = queue[p][i]
      BY <2>6 DEF In, Positions
    <3> QED
      BY <2>2, <3>1, <3>2, PositionsOf DEF AllBelong
  <2>9. current[Target[m]] = current[k]
    BY <2>5, <2>6, <2>7, <2>8 DEF Belongs
  <2>10. Target[m] = k
    BY <2>2, <2>4, <2>8, <2>9, CommandPathAssumption DEF TableOK, Keys
  <2> QED
    BY <2>4, <2>6, <2>7, <2>10
<1> QED
  BY Invariance, NoCommandIsStranded, <1>1, <1>2, <1>3, PTL DEF Spec

-----------------------------------------------------------------------------
(* What a courier promises *)

\* A device has received no command but its own, and none twice.
ArrivedOnce ==
  \A d \in Devices : \A i \in DOMAIN queue[Device(d)] :
    /\ Target[queue[Device(d)][i]] = d
    /\ \A e \in Devices : \A j \in DOMAIN queue[Device(e)] :
         queue[Device(d)][i] = queue[Device(e)][j] => d = e /\ i = j

\* A command reaches no device but the one it is meant for, and none twice, in
\* spite of every reconnection and restart (the queues of TPCClient and TcpSvr
\* give up what they pass on, and a session's queue ends with it).
THEOREM CommandsArriveOnce == Spec => []ArrivedOnce
<1>1. Inv => ArrivedOnce
  <2> SUFFICES ASSUME Inv, NEW d \in Devices, NEW i \in DOMAIN queue[Device(d)]
               PROVE  /\ Target[queue[Device(d)][i]] = d
                      /\ \A e \in Devices : \A j \in DOMAIN queue[Device(e)] :
                           queue[Device(d)][i] = queue[Device(e)][j] => d = e /\ i = j
    BY DEF ArrivedOnce
  <2>1. Device(d) \in Places /\ i \in Positions(Device(d))
    BY PlacesOf DEF Positions
  <2>2. Belongs(queue[Device(d)][i], Device(d)) /\ Once
    BY <2>1 DEF Inv, QueueInv, AllBelong
  <2>3. ASSUME NEW e \in Devices, NEW j \in DOMAIN queue[Device(e)],
               queue[Device(d)][i] = queue[Device(e)][j]
        PROVE  d = e /\ i = j
    <3>1. Device(e) \in Places /\ j \in Positions(Device(e))
      BY PlacesOf DEF Positions
    <3>2. Device(d) = Device(e) /\ i = j
      BY <2>1, <2>2, <2>3, <3>1 DEF Once
    <3> QED
      BY <3>2, DevicesDiffer
  <2> QED
    BY <2>2, <2>3 DEF Belongs
<1> QED
  BY <1>1, Invariance, PTL

\* A command that has been delivered or lost is never under way again: nothing on
\* the path, and no reconnection, sends it a second time.
THEOREM SettledForGood == Spec => [][Accepted \ InTransit \subseteq (Accepted \ InTransit)']_vars
<1>1. Inv /\ [Next]_vars => [Accepted \ InTransit \subseteq (Accepted \ InTransit)']_vars
  <2> SUFFICES ASSUME Inv, [Next]_vars
               PROVE  Accepted \ InTransit \subseteq (Accepted \ InTransit)'
    OBVIOUS
  <2> QED
    BY CourierStep DEF Contract!Next, Contract!vars, Contract!Accept, Contract!Deliver,
                       Contract!Lose, Contract!Settle
<1> QED
  BY <1>1, Invariance, PTL DEF Spec
=============================================================================
