-------------------------- MODULE CommandPathProofs --------------------------
(***************************************************************************)
(* Proofs about CommandPath, for every set of commands, devices and        *)
(* connections, every target of the commands and every number of faults.   *)
(***************************************************************************)
EXTENDS CommandPath, SequenceTheorems, TLAPS

\* Where in a queue, in which place.
Positions(p) == DOMAIN queue[p]

\* No command is in two places, or twice in one.
Once ==
  \A p, q \in Places : \A i \in Positions(p), j \in Positions(q) :
    queue[p][i] = queue[q][j] => p = q /\ i = j

\* What is in a place has been submitted, and nothing is taken before that.
Numbered ==
  /\ \A p \in Places : \A i \in Positions(p) : number[queue[p][i]] # 0
  /\ \A m \in Cmds : number[m] = 0 => via[m] = None

\* The sessions of two clients are two.
TableOK ==
  /\ \A k \in Keys : current[k] # None => current[k] \in live
  /\ \A k, l \in Keys : current[k] = current[l] /\ current[k] # None => k = l

\* What a command's place says of it.
Belongs(m, p) ==
  /\ via[m] = None <=> p = SendMsgList
  /\ \A c \in Conns : /\ p \in UplinkPlaces(c) => via[m] = c
                      /\ p \in {Channel(c), Flight(c)} => current[Target[m]] = c
  /\ \A d \in Devices : p = Device(d) => Target[m] = d

AllBelong == \A p \in Places : \A i \in Positions(p) : Belongs(queue[p][i], p)

\* The RMI server's queue has the commands submitted last, in their order.
LastAreQueued ==
  \A i \in Positions(SendMsgList) : \A q \in Places : \A j \in Positions(q) :
    q # SendMsgList \/ j < i => number[queue[q][j]] < number[queue[SendMsgList][i]]

\* How far along the path a place is.
Stage == [sendMsgList |-> 1, taken |-> 2, wire |-> 3, buffer |-> 4, recvMsgList |-> 5,
          channel |-> 6, flight |-> 7, device |-> 8]
Rank(p) == Stage[p[1]]

\* Of two commands for one device that were taken for one connection, the one
\* submitted first is further along.
InLine ==
  \A p, q \in Places \ {SendMsgList} : \A i \in Positions(p), j \in Positions(q) :
    LET m == queue[p][i]
        n == queue[q][j]
    IN  via[m] = via[n] /\ Target[m] = Target[n] /\ number[m] < number[n]
          => Rank(q) <= Rank(p) /\ (p = q => i < j)

QueueInv == Once /\ Numbered /\ AllBelong /\ LastAreQueued /\ InLine

Inv == TypeOK /\ TableOK /\ QueueInv

-----------------------------------------------------------------------------
(* What a step does to the queues *)

\* The first n commands of p are now the last of r.
Moved(p, r, n) ==
  /\ p \in Places /\ r \in Places /\ p # r
  /\ n \in 1..Len(queue[p])
  /\ queue' \in [Places -> Seq(Cmds)]
  /\ \A q \in Places \ {p, r} : queue'[q] = queue[q]
  /\ Len(queue'[p]) = Len(queue[p]) - n
  /\ \A i \in 1..Len(queue[p]) - n : queue'[p][i] = queue[p][i + n]
  /\ Len(queue'[r]) = Len(queue[r]) + n
  /\ \A i \in 1..Len(queue[r]) : queue'[r][i] = queue[r][i]
  /\ \A i \in 1..n : queue'[r][Len(queue[r]) + i] = queue[p][i]

\* The first k[p] commands of each place p are gone.
Shrunk(k) ==
  /\ k \in [Places -> Nat]
  /\ queue' \in [Places -> Seq(Cmds)]
  /\ \A p \in Places :
       /\ k[p] <= Len(queue[p])
       /\ Len(queue'[p]) = Len(queue[p]) - k[p]
       /\ \A i \in 1..Len(queue[p]) - k[p] : queue'[p][i] = queue[p][i + k[p]]

LEMMA PositionsOf ==
  ASSUME queue \in [Places -> Seq(Cmds)], NEW p \in Places
  PROVE  /\ Len(queue[p]) \in Nat
         /\ Positions(p) = 1..Len(queue[p])
         /\ \A i \in Positions(p) : queue[p][i] \in Cmds
BY DEF Positions

LEMMA PositionsNext ==
  ASSUME queue' \in [Places -> Seq(Cmds)], NEW p \in Places
  PROVE  /\ Len(queue'[p]) \in Nat
         /\ Positions(p)' = 1..Len(queue'[p])
         /\ \A i \in Positions(p)' : queue'[p][i] \in Cmds
BY DEF Positions

LEMMA MoveMoves ==
  ASSUME queue \in [Places -> Seq(Cmds)], NEW p \in Places, NEW r \in Places, p # r,
         Move(p, r)
  PROVE  Moved(p, r, 1)
<1>1. Len(queue[p]) \in Nat /\ Len(queue[p]) >= 1
  BY DEF Move
<1>2. queue' \in [Places -> Seq(Cmds)]
  <2>1. Tail(queue[p]) \in Seq(Cmds) /\ Head(queue[p]) \in Cmds
    BY <1>1
  <2>2. Append(queue[r], Head(queue[p])) \in Seq(Cmds)
    BY <2>1
  <2> QED
    BY <2>1, <2>2 DEF Move
<1>3. queue'[p] = Tail(queue[p]) /\ queue'[r] = Append(queue[r], Head(queue[p]))
  BY DEF Move
<1>4. \A q \in Places \ {p, r} : queue'[q] = queue[q]
  BY DEF Move
<1> QED
  BY <1>1, <1>2, <1>3, <1>4 DEF Moved

LEMMA DropShrinks ==
  ASSUME queue \in [Places -> Seq(Cmds)], NEW p \in Places, Drop(p)
  PROVE  Shrunk([q \in Places |-> IF q = p THEN 1 ELSE 0])
<1>1. Len(queue[p]) \in Nat /\ Len(queue[p]) >= 1
  BY DEF Drop
<1>2. queue' \in [Places -> Seq(Cmds)] /\ queue'[p] = Tail(queue[p])
  BY DEF Drop
<1>3. \A q \in Places \ {p} : queue'[q] = queue[q]
  BY DEF Drop
<1> QED
  BY <1>1, <1>2, <1>3 DEF Shrunk

LEMMA ClearShrinks ==
  ASSUME queue \in [Places -> Seq(Cmds)], NEW P \in SUBSET Places, Clear(P)
  PROVE  Shrunk([q \in Places |-> IF q \in P THEN Len(queue[q]) ELSE 0])
BY DEF Shrunk, Clear

\* Where the command was that is now at position j of place q.
FromPlace(q, j, p, r) == IF q = r /\ j > Len(queue[r]) THEN p ELSE q
FromPosition(q, j, p, r, n) ==
  IF q = p THEN j + n
  ELSE IF q = r /\ j > Len(queue[r]) THEN j - Len(queue[r])
  ELSE j

LEMMA MovedOrigin ==
  ASSUME queue \in [Places -> Seq(Cmds)],
         NEW p, NEW r, NEW n, Moved(p, r, n), NEW q \in Places, NEW j \in Positions(q)'
  PROVE  LET o == FromPlace(q, j, p, r)
             h == FromPosition(q, j, p, r, n)
         IN  o \in Places /\ h \in Positions(o) /\ queue'[q][j] = queue[o][h]
<1>0. /\ p \in Places /\ r \in Places /\ p # r
      /\ n \in Nat /\ Len(queue[p]) \in Nat /\ Len(queue[r]) \in Nat /\ n <= Len(queue[p])
      /\ j \in Nat /\ 1 <= j /\ j <= Len(queue'[q]) /\ n >= 1
      /\ Positions(p) = 1..Len(queue[p]) /\ Positions(r) = 1..Len(queue[r])
      /\ Positions(q) = 1..Len(queue[q]) /\ Len(queue[q]) \in Nat
  BY PositionsOf, PositionsNext DEF Moved
<1>1. CASE q = p
  BY <1>0, <1>1 DEF Moved, FromPlace, FromPosition
<1>2. CASE q = r /\ j > Len(queue[r])
  <2>1. j - Len(queue[r]) \in 1..n /\ j = Len(queue[r]) + (j - Len(queue[r]))
    BY <1>0, <1>2 DEF Moved
  <2>2. queue'[r][j] = queue[p][j - Len(queue[r])]
    BY <2>1 DEF Moved
  <2> QED
    BY <1>0, <1>2, <2>1, <2>2 DEF FromPlace, FromPosition
<1>3. CASE q = r /\ ~(j > Len(queue[r]))
  BY <1>0, <1>3 DEF Moved, FromPlace, FromPosition
<1>4. CASE q # p /\ q # r
  BY <1>0, <1>4 DEF Moved, FromPlace, FromPosition
<1> QED
  BY <1>1, <1>2, <1>3, <1>4

LEMMA MovedBounds ==
  ASSUME queue \in [Places -> Seq(Cmds)],
         NEW p, NEW r, NEW n, Moved(p, r, n), NEW q \in Places, NEW j \in Positions(q)'
  PROVE  /\ n \in Nat /\ Len(queue[p]) \in Nat /\ Len(queue[r]) \in Nat /\ j \in Nat
         /\ p \in Places /\ r \in Places /\ p # r /\ n <= Len(queue[p]) /\ n >= 1
         /\ j <= Len(queue'[q]) /\ j >= 1 /\ Len(queue'[r]) = Len(queue[r]) + n
BY PositionsOf, PositionsNext DEF Moved

LEMMA MovedOnce ==
  ASSUME queue \in [Places -> Seq(Cmds)], Once,
         NEW p, NEW r, NEW n, Moved(p, r, n)
  PROVE  Once'
<1> SUFFICES ASSUME NEW a \in Places, NEW b \in Places,
                    NEW i \in Positions(a)', NEW j \in Positions(b)',
                    queue'[a][i] = queue'[b][j]
             PROVE  a = b /\ i = j
  BY DEF Once
<1>1. /\ FromPlace(a, i, p, r) = FromPlace(b, j, p, r)
      /\ FromPosition(a, i, p, r, n) = FromPosition(b, j, p, r, n)
  BY MovedOrigin DEF Once
<1>2. /\ n \in Nat /\ Len(queue[r]) \in Nat /\ i \in Nat /\ j \in Nat /\ p # r
      /\ Len(queue[p]) \in Nat /\ n <= Len(queue[p])
      /\ i <= Len(queue'[a]) /\ j <= Len(queue'[b]) /\ i >= 1 /\ j >= 1
      /\ Len(queue'[r]) = Len(queue[r]) + n
  BY PositionsOf, PositionsNext DEF Moved
<1> QED
  BY <1>1, <1>2 DEF FromPlace, FromPosition

LEMMA ShrunkOrigin ==
  ASSUME queue \in [Places -> Seq(Cmds)], NEW k, Shrunk(k),
         NEW q \in Places, NEW j \in Positions(q)'
  PROVE  /\ j \in Nat /\ k[q] \in Nat
         /\ j + k[q] \in Positions(q)
         /\ queue'[q][j] = queue[q][j + k[q]]
<1>1. /\ Len(queue[q]) \in Nat /\ Len(queue'[q]) \in Nat
      /\ Positions(q) = 1..Len(queue[q]) /\ Positions(q)' = 1..Len(queue'[q])
  BY PositionsOf, PositionsNext DEF Shrunk
<1> QED
  BY <1>1 DEF Shrunk

LEMMA ShrunkOnce ==
  ASSUME queue \in [Places -> Seq(Cmds)], Once, NEW k, Shrunk(k)
  PROVE  Once'
<1> SUFFICES ASSUME NEW a \in Places, NEW b \in Places,
                    NEW i \in Positions(a)', NEW j \in Positions(b)',
                    queue'[a][i] = queue'[b][j]
             PROVE  a = b /\ i = j
  BY DEF Once
<1> QED
  BY ShrunkOrigin DEF Once

-----------------------------------------------------------------------------
(* The places and their order *)

LEMMA PlaceForms ==
  ASSUME NEW p \in Places
  PROVE  \/ p = SendMsgList \/ p = RecvMsgList
         \/ \E c \in Conns : p \in {Taken(c), Wire(c), Buffer(c), Channel(c), Flight(c)}
         \/ \E d \in Devices : p = Device(d)
BY DEF Places, RmiPlaces, GatewayPlaces, DevicePlaces

LEMMA PlacesOf ==
  /\ SendMsgList \in Places /\ RecvMsgList \in Places
  /\ \A c \in Conns : {Taken(c), Wire(c), Buffer(c), Channel(c), Flight(c)} \subseteq Places
  /\ \A d \in Devices : Device(d) \in Places
BY DEF Places, RmiPlaces, GatewayPlaces, DevicePlaces

LEMMA RankOf ==
  /\ Rank(SendMsgList) = 1 /\ Rank(RecvMsgList) = 5
  /\ \A c \in Conns : /\ Rank(Taken(c)) = 2 /\ Rank(Wire(c)) = 3
                      /\ Rank(Buffer(c)) = 4 /\ Rank(Channel(c)) = 6 /\ Rank(Flight(c)) = 7
  /\ \A d \in Devices : Rank(Device(d)) = 8
BY DEF Rank, Stage, SendMsgList, RecvMsgList, Taken, Wire, Buffer, Channel, Flight, Device

LEMMA RankIsNat ==
  ASSUME NEW p \in Places
  PROVE  Rank(p) \in Nat
BY PlaceForms, RankOf

\* Two commands at the same stage that have the connection and the device in
\* common are in the same place.
LEMMA SamePlace ==
  ASSUME NEW p \in Places, NEW q \in Places, p # SendMsgList, q # SendMsgList,
         Rank(p) = Rank(q), NEW m \in Cmds, NEW n \in Cmds,
         Belongs(m, p), Belongs(n, q), via[m] = via[n], Target[m] = Target[n]
  PROVE  p = q
<1>1. CASE \E c \in Conns : p \in UplinkPlaces(c)
  <2>1. PICK c \in Conns : p \in {Taken(c), Wire(c), Buffer(c)}
    BY <1>1 DEF UplinkPlaces
  <2>2. PICK b \in Conns : q \in {Taken(b), Wire(b), Buffer(b)}
    BY <2>1, PlaceForms, RankOf
  <2>3. via[m] = c /\ via[n] = b
    BY <2>1, <2>2 DEF Belongs, UplinkPlaces
  <2>4. b = c
    BY <2>3
  <2> QED
    BY <2>1, <2>2, <2>4, RankOf
<1>2. CASE \E c \in Conns : p \in {Channel(c), Flight(c)}
  <2>1. PICK c \in Conns : p \in {Channel(c), Flight(c)}
    BY <1>2
  <2>2. PICK b \in Conns : q \in {Channel(b), Flight(b)}
    BY <2>1, PlaceForms, RankOf
  <2>3. current[Target[m]] = c /\ current[Target[n]] = b
    BY <2>1, <2>2 DEF Belongs
  <2> QED
    BY <2>1, <2>2, <2>3, RankOf
<1>3. CASE \E d \in Devices : p = Device(d)
  <2>1. PICK d \in Devices : p = Device(d)
    BY <1>3
  <2>2. PICK e \in Devices : q = Device(e)
    BY <2>1, PlaceForms, RankOf
  <2>3. Target[m] = d /\ Target[n] = e
    BY <2>1, <2>2 DEF Belongs
  <2> QED
    BY <2>1, <2>2, <2>3
<1>4. CASE p = RecvMsgList
  <2>1. Rank(q) = 5
    BY <1>4, RankOf
  <2> QED
    BY <2>1, <1>4, PlaceForms, RankOf
<1> QED
  BY <1>1, <1>2, <1>3, <1>4, PlaceForms DEF UplinkPlaces

-----------------------------------------------------------------------------
(* Commands that move keep the invariant *)

LEMMA MovedNumbered ==
  ASSUME queue \in [Places -> Seq(Cmds)], Numbered, number' = number,
         NEW p, NEW r, NEW n, Moved(p, r, n)
  PROVE  \A q \in Places : \A i \in Positions(q)' : number'[queue'[q][i]] # 0
BY MovedOrigin DEF Numbered

LEMMA ShrunkNumbered ==
  ASSUME queue \in [Places -> Seq(Cmds)], Numbered, number' = number,
         NEW k, Shrunk(k)
  PROVE  \A q \in Places : \A i \in Positions(q)' : number'[queue'[q][i]] # 0
BY ShrunkOrigin DEF Numbered

\* It suffices that what moves belongs where it comes to and the rest stays right.
LEMMA MovedBelong ==
  ASSUME queue \in [Places -> Seq(Cmds)],
         NEW p, NEW r, NEW n, Moved(p, r, n),
         \A q \in Places, m \in Cmds : \A i \in Positions(q) :
           m = queue[q][i] /\ (q = p => i > n) => Belongs(m, q)',
         \A m \in Cmds : \A i \in 1..n : m = queue[p][i] => Belongs(m, r)'
  PROVE  AllBelong'
<1> SUFFICES ASSUME NEW q \in Places, NEW j \in Positions(q)', NEW m \in Cmds,
                    m = queue'[q][j]
             PROVE  Belongs(m, q)'
  BY PositionsNext DEF AllBelong, Moved
<1>1. /\ n \in Nat /\ Len(queue[p]) \in Nat /\ Len(queue[r]) \in Nat /\ j \in Nat
      /\ p \in Places /\ r \in Places /\ p # r /\ n <= Len(queue[p])
      /\ j <= Len(queue'[q]) /\ j >= 1 /\ Len(queue'[r]) = Len(queue[r]) + n
  BY MovedBounds
<1>2. /\ FromPlace(q, j, p, r) \in Places
      /\ FromPosition(q, j, p, r, n) \in Positions(FromPlace(q, j, p, r))
      /\ m = queue[FromPlace(q, j, p, r)][FromPosition(q, j, p, r, n)]
  BY MovedOrigin
<1>3. CASE q = r /\ j > Len(queue[r])
  <2>1. j - Len(queue[r]) \in 1..n /\ m = queue[p][j - Len(queue[r])]
    BY <1>1, <1>2, <1>3 DEF FromPlace, FromPosition
  <2> QED
    BY <2>1, <1>3
<1>4. CASE q = p
  <2>1. j + n \in Positions(p) /\ m = queue[p][j + n] /\ j + n > n
    BY <1>1, <1>2, <1>4 DEF FromPlace, FromPosition
  <2> QED
    BY <2>1, <1>4, <1>1
<1>5. CASE q # p /\ ~(q = r /\ j > Len(queue[r]))
  BY <1>1, <1>2, <1>5 DEF FromPlace, FromPosition
<1> QED
  BY <1>3, <1>4, <1>5

LEMMA ShrunkBelong ==
  ASSUME queue \in [Places -> Seq(Cmds)], NEW k, Shrunk(k),
         \A q \in Places, m \in Cmds : \A i \in Positions(q) :
           m = queue[q][i] /\ i > k[q] => Belongs(m, q)'
  PROVE  AllBelong'
<1> SUFFICES ASSUME NEW q \in Places, NEW j \in Positions(q)', NEW m \in Cmds,
                    m = queue'[q][j]
             PROVE  Belongs(m, q)'
  BY PositionsNext DEF AllBelong, Shrunk
<1>1. j >= 1
  BY PositionsNext DEF Shrunk
<1> QED
  BY <1>1, ShrunkOrigin

LEMMA MovedLastAreQueued ==
  ASSUME queue \in [Places -> Seq(Cmds)], number \in [Cmds -> Nat], number' = number,
         LastAreQueued,
         NEW p, NEW r, NEW n, Moved(p, r, n), r # SendMsgList
  PROVE  LastAreQueued'
<1> SUFFICES ASSUME NEW i \in Positions(SendMsgList)', NEW q \in Places,
                    NEW j \in Positions(q)', q # SendMsgList \/ j < i
             PROVE  number[queue'[q][j]] < number[queue'[SendMsgList][i]]
  BY DEF LastAreQueued
<1>1. /\ n \in Nat /\ Len(queue[p]) \in Nat /\ Len(queue[r]) \in Nat
      /\ j \in Nat /\ i \in Nat /\ i >= 1 /\ j >= 1
      /\ p \in Places /\ r \in Places /\ p # r /\ n <= Len(queue[p])
      /\ j <= Len(queue'[q]) /\ Len(queue'[r]) = Len(queue[r]) + n
  BY MovedBounds, PlacesOf
<1>2. /\ FromPlace(q, j, p, r) \in Places
      /\ FromPosition(q, j, p, r, n) \in Positions(FromPlace(q, j, p, r))
      /\ queue'[q][j] = queue[FromPlace(q, j, p, r)][FromPosition(q, j, p, r, n)]
  BY MovedOrigin
<1>3. /\ FromPosition(SendMsgList, i, p, r, n) \in Positions(SendMsgList)
      /\ queue'[SendMsgList][i] = queue[SendMsgList][FromPosition(SendMsgList, i, p, r, n)]
  BY MovedOrigin, PlacesOf DEF FromPlace
<1>4. \/ FromPlace(q, j, p, r) # SendMsgList
      \/ FromPosition(q, j, p, r, n) < FromPosition(SendMsgList, i, p, r, n)
  BY <1>1 DEF FromPlace, FromPosition
<1> QED
  BY <1>2, <1>3, <1>4 DEF LastAreQueued

LEMMA ShrunkLastAreQueued ==
  ASSUME queue \in [Places -> Seq(Cmds)], number \in [Cmds -> Nat], number' = number,
         LastAreQueued, NEW k, Shrunk(k)
  PROVE  LastAreQueued'
<1> SUFFICES ASSUME NEW i \in Positions(SendMsgList)', NEW q \in Places,
                    NEW j \in Positions(q)', q # SendMsgList \/ j < i
             PROVE  number[queue'[q][j]] < number[queue'[SendMsgList][i]]
  BY DEF LastAreQueued
<1>1. /\ i \in Nat /\ k[SendMsgList] \in Nat /\ i + k[SendMsgList] \in Positions(SendMsgList)
      /\ queue'[SendMsgList][i] = queue[SendMsgList][i + k[SendMsgList]]
  BY ShrunkOrigin, PlacesOf
<1>2. /\ j \in Nat /\ k[q] \in Nat /\ j + k[q] \in Positions(q)
      /\ queue'[q][j] = queue[q][j + k[q]]
  BY ShrunkOrigin
<1>3. q # SendMsgList \/ j + k[q] < i + k[SendMsgList]
  BY <1>1, <1>2
<1> QED
  BY <1>1, <1>2, <1>3 DEF LastAreQueued

LEMMA MovedInLine ==
  ASSUME queue \in [Places -> Seq(Cmds)], number \in [Cmds -> Nat],
         number' = number, via' = via, AllBelong, InLine,
         NEW p, NEW r, NEW n, Moved(p, r, n),
         p # SendMsgList, r # SendMsgList, Rank(r) = Rank(p) + 1
  PROVE  InLine'
<1> SUFFICES ASSUME NEW a \in Places \ {SendMsgList}, NEW b \in Places \ {SendMsgList},
                    NEW i \in Positions(a)', NEW j \in Positions(b)',
                    via[queue'[a][i]] = via[queue'[b][j]],
                    Target[queue'[a][i]] = Target[queue'[b][j]],
                    number[queue'[a][i]] < number[queue'[b][j]]
             PROVE  Rank(b) <= Rank(a) /\ (a = b => i < j)
  BY DEF InLine, Rank
<1> DEFINE o == FromPlace(a, i, p, r)
           h == FromPosition(a, i, p, r, n)
           u == FromPlace(b, j, p, r)
           l == FromPosition(b, j, p, r, n)
<1>1. /\ n \in Nat /\ Len(queue[p]) \in Nat /\ Len(queue[r]) \in Nat
      /\ i \in Nat /\ j \in Nat /\ i >= 1 /\ j >= 1
      /\ p \in Places /\ r \in Places /\ p # r /\ n <= Len(queue[p])
      /\ i <= Len(queue'[a]) /\ j <= Len(queue'[b])
      /\ Len(queue'[r]) = Len(queue[r]) + n
  BY MovedBounds
<1>2. /\ o \in Places /\ h \in Positions(o) /\ queue'[a][i] = queue[o][h]
      /\ u \in Places /\ l \in Positions(u) /\ queue'[b][j] = queue[u][l]
  BY MovedOrigin
<1>3. o # SendMsgList /\ u # SendMsgList
  BY DEF FromPlace
<1>4. h \in Nat /\ l \in Nat
  BY <1>2, PositionsOf
<1>5. Rank(u) <= Rank(o) /\ (o = u => h < l)
  <2> HIDE DEF o, h, u, l
  <2> QED
    BY <1>2, <1>3 DEF InLine
<1>6. o = u \/ Rank(u) # Rank(o)
  <2> HIDE DEF o, h, u, l
  <2>1. /\ queue[o][h] \in Cmds /\ queue[u][l] \in Cmds
        /\ Belongs(queue[o][h], o) /\ Belongs(queue[u][l], u)
    BY <1>2, PositionsOf DEF AllBelong
  <2> QED
    BY <2>1, <1>2, <1>3, SamePlace
<1>7. /\ Rank(a) \in Nat /\ Rank(b) \in Nat /\ Rank(o) \in Nat
      /\ Rank(u) \in Nat /\ Rank(p) \in Nat /\ Rank(r) \in Nat
  BY <1>1, <1>2, RankIsNat
<1>8. CASE a = r /\ i > Len(queue[r])
  <2>1. o = p /\ h = i - Len(queue[r])
    BY <1>1, <1>8 DEF FromPlace, FromPosition
  <2>2. CASE b = r /\ j > Len(queue[r])
    <3>1. u = p /\ l = j - Len(queue[r])
      BY <1>1, <2>2 DEF FromPlace, FromPosition
    <3> HIDE DEF o, h, u, l
    <3> QED
      BY <1>1, <1>5, <1>7, <1>8, <2>1, <2>2, <3>1
  <2>3. CASE ~(b = r /\ j > Len(queue[r]))
    <3>1. u = b
      BY <2>3 DEF FromPlace
    <3> HIDE DEF o, h, u, l
    <3> QED
      BY <1>1, <1>5, <1>7, <1>8, <2>1, <3>1
  <2> QED
    BY <2>2, <2>3
<1>9. CASE ~(a = r /\ i > Len(queue[r]))
  <2>1. o = a /\ h = IF a = p THEN i + n ELSE i
    BY <1>1, <1>9 DEF FromPlace, FromPosition
  <2>2. CASE b = r /\ j > Len(queue[r])
    <3>1. u = p /\ l = j - Len(queue[r]) /\ l <= n
      BY <1>1, <2>2 DEF FromPlace, FromPosition
    <3> HIDE DEF o, h, u, l
    <3>2. a # p
      BY <1>1, <1>4, <1>5, <2>1, <3>1
    <3>3. Rank(p) < Rank(a)
      BY <1>5, <1>6, <1>7, <2>1, <3>1, <3>2
    <3>4. a = r => i <= Len(queue[r])
      BY <1>1, <1>9
    <3> QED
      BY <1>1, <1>7, <2>2, <3>3, <3>4
  <2>3. CASE ~(b = r /\ j > Len(queue[r]))
    <3>1. u = b /\ l = IF b = p THEN j + n ELSE j
      BY <1>1, <2>3 DEF FromPlace, FromPosition
    <3> HIDE DEF o, h, u, l
    <3> QED
      BY <1>1, <1>5, <2>1, <3>1
  <2> QED
    BY <2>2, <2>3
<1> QED
  BY <1>8, <1>9

LEMMA ShrunkInLine ==
  ASSUME queue \in [Places -> Seq(Cmds)], number' = number, via' = via, InLine,
         NEW k, Shrunk(k)
  PROVE  InLine'
<1> SUFFICES ASSUME NEW a \in Places \ {SendMsgList}, NEW b \in Places \ {SendMsgList},
                    NEW i \in Positions(a)', NEW j \in Positions(b)',
                    via[queue'[a][i]] = via[queue'[b][j]],
                    Target[queue'[a][i]] = Target[queue'[b][j]],
                    number[queue'[a][i]] < number[queue'[b][j]]
             PROVE  Rank(b) <= Rank(a) /\ (a = b => i < j)
  BY DEF InLine, Rank
<1>1. /\ i \in Nat /\ k[a] \in Nat /\ i + k[a] \in Positions(a)
      /\ queue'[a][i] = queue[a][i + k[a]]
  BY ShrunkOrigin
<1>2. /\ j \in Nat /\ k[b] \in Nat /\ j + k[b] \in Positions(b)
      /\ queue'[b][j] = queue[b][j + k[b]]
  BY ShrunkOrigin
<1>3. Rank(b) <= Rank(a) /\ (a = b => i + k[a] < j + k[b])
  BY <1>1, <1>2 DEF InLine
<1> QED
  BY <1>1, <1>2, <1>3

-----------------------------------------------------------------------------
(* Each kind of step keeps the invariant of the queues *)

QueueTyped == /\ queue \in [Places -> Seq(Cmds)]
              /\ \A c \in Conns : Len(queue[Taken(c)]) <= 1

LEMMA TypedNumbers ==
  ASSUME TypeOK
  PROVE  number \in [Cmds -> Nat] /\ QueueTyped
BY DEF TypeOK, QueueTyped

LEMMA UnchangedBelongs ==
  ASSUME NEW m \in Cmds, NEW q \in Places, UNCHANGED <<via, current>>
  PROVE  Belongs(m, q)' <=> Belongs(m, q)
BY DEF Belongs, UplinkPlaces, SendMsgList, Taken, Wire, Buffer, Channel, Flight, Device

LEMMA MovedKeeps ==
  ASSUME TypeOK, QueueInv, UNCHANGED <<number, via, current>>,
         NEW p, NEW r, NEW n, Moved(p, r, n),
         p # SendMsgList, r # SendMsgList, \A c \in Conns : r # Taken(c),
         Rank(r) = Rank(p) + 1,
         \A m \in Cmds : \A i \in 1..n : m = queue[p][i] => Belongs(m, r)
  PROVE  QueueTyped' /\ QueueInv'
<1>0. /\ queue \in [Places -> Seq(Cmds)] /\ number \in [Cmds -> Nat]
      /\ number' = number /\ via' = via
      /\ Once /\ Numbered /\ AllBelong /\ LastAreQueued /\ InLine
      /\ p \in Places /\ r \in Places
  BY TypedNumbers DEF QueueTyped, QueueInv, Moved
<1>1. QueueTyped'
  <2> SUFFICES ASSUME NEW c \in Conns
               PROVE  Len(queue'[Taken(c)]) <= 1
    BY DEF QueueTyped, Moved, Taken
  <2>1. Taken(c) \in Places /\ Taken(c) # r /\ Len(queue[Taken(c)]) <= 1
        /\ Len(queue[Taken(c)]) \in Nat
    BY TypedNumbers, PlacesOf, PositionsOf DEF QueueTyped
  <2>2. n \in Nat /\ Len(queue'[p]) = Len(queue[p]) - n
        /\ \A q \in Places \ {p, r} : queue'[q] = queue[q]
    BY DEF Moved
  <2>3. CASE p = Taken(c)
    BY <2>1, <2>2, <2>3
  <2>4. CASE p # Taken(c)
    <3>1. queue'[Taken(c)] = queue[Taken(c)]
      BY <2>1, <2>2, <2>4
    <3>2. Len(queue'[Taken(c)]) = Len(queue[Taken(c)])
      BY <3>1, Zenon
    <3> QED
      BY <3>2, <2>1
  <2> QED
    BY <2>3, <2>4
<1>2. Once'
  BY <1>0, MovedOnce
<1>3. Numbered'
  BY <1>0, MovedNumbered DEF Numbered
<1>4. AllBelong'
  <2>1. \A q \in Places, m \in Cmds : \A i \in Positions(q) :
           m = queue[q][i] => Belongs(m, q)'
    BY <1>0, UnchangedBelongs DEF AllBelong
  <2>2. \A m \in Cmds : \A i \in 1..n : m = queue[p][i] => Belongs(m, r)'
    BY <1>0, UnchangedBelongs
  <2> QED
    BY <1>0, <2>1, <2>2, MovedBelong
<1>5. LastAreQueued'
  BY <1>0, MovedLastAreQueued
<1>6. InLine'
  BY <1>0, MovedInLine
<1> QED
  BY <1>1, <1>2, <1>3, <1>4, <1>5, <1>6 DEF QueueInv

LEMMA ShrunkKeeps ==
  ASSUME TypeOK, QueueInv, UNCHANGED <<number, via>>, NEW k, Shrunk(k),
         \A q \in Places, m \in Cmds : \A i \in Positions(q) :
           m = queue[q][i] /\ i > k[q] => Belongs(m, q)'
  PROVE  QueueTyped' /\ QueueInv'
<1>0. /\ queue \in [Places -> Seq(Cmds)] /\ number \in [Cmds -> Nat]
      /\ number' = number /\ via' = via
      /\ Once /\ Numbered /\ AllBelong /\ LastAreQueued /\ InLine
  BY TypedNumbers DEF QueueTyped, QueueInv
<1>1. QueueTyped'
  <2> SUFFICES ASSUME NEW c \in Conns
               PROVE  Len(queue'[Taken(c)]) <= 1
    BY DEF QueueTyped, Shrunk, Taken
  <2>1. Taken(c) \in Places /\ Len(queue[Taken(c)]) <= 1
        /\ Len(queue[Taken(c)]) \in Nat
    BY TypedNumbers, PlacesOf, PositionsOf DEF QueueTyped
  <2> QED
    BY <2>1 DEF Shrunk
<1>2. Once'
  BY <1>0, ShrunkOnce
<1>3. Numbered'
  BY <1>0, ShrunkNumbered DEF Numbered
<1>4. AllBelong'
  BY <1>0, ShrunkBelong
<1>5. LastAreQueued'
  BY <1>0, ShrunkLastAreQueued
<1>6. InLine'
  BY <1>0, ShrunkInLine
<1> QED
  BY <1>1, <1>2, <1>3, <1>4, <1>5, <1>6 DEF QueueInv

\* A command leaves the front of a place and is lost.
LEMMA DropKeeps ==
  ASSUME TypeOK, QueueInv, UNCHANGED <<number, via, current>>,
         NEW p \in Places, Drop(p)
  PROVE  QueueTyped' /\ QueueInv'
<1>1. queue \in [Places -> Seq(Cmds)]
  BY DEF TypeOK
<1>2. Shrunk([q \in Places |-> IF q = p THEN 1 ELSE 0])
  BY <1>1, DropShrinks
<1>3. \A q \in Places, m \in Cmds : \A i \in Positions(q) :
         m = queue[q][i] => Belongs(m, q)'
  BY <1>1, UnchangedBelongs DEF AllBelong, QueueInv
<1> QED
  BY <1>2, <1>3, ShrunkKeeps

\* Nothing happens to the commands.
LEMMA IdleKeeps ==
  ASSUME TypeOK, QueueInv, UNCHANGED <<queue, number, via>>,
         \A q \in Places, m \in Cmds : Belongs(m, q) => Belongs(m, q)'
  PROVE  QueueTyped' /\ QueueInv'
<1>1. AllBelong'
  <2> SUFFICES ASSUME NEW q \in Places, NEW j \in Positions(q), NEW m \in Cmds,
                      m = queue[q][j]
               PROVE  Belongs(m, q)'
    BY PositionsOf DEF AllBelong, TypeOK, Positions
  <2> QED
    BY DEF AllBelong, QueueInv
<1>2. QueueTyped'
  BY DEF QueueTyped, TypeOK, Taken
<1>3. Once' /\ Numbered' /\ LastAreQueued' /\ InLine'
  BY DEF QueueInv, Once, Numbered, LastAreQueued, InLine, Positions, Rank, SendMsgList
<1> QED
  BY <1>1, <1>2, <1>3 DEF QueueInv

-----------------------------------------------------------------------------
(* The actions *)

\* What TypeOK says besides the queues.
RestTyped ==
  /\ current \in [Keys -> Conns \union {None}]
  /\ live \subseteq Conns
  /\ broken \subseteq live
  /\ stale \subseteq Keys
  /\ sender \subseteq Conns
  /\ count \in Nat
  /\ number \in [Cmds -> 0..count]
  /\ via \in [Cmds -> Conns \union {None}]
  /\ faults \in 0..MaxFaults

LEMMA Parts == Inv <=> RestTyped /\ QueueTyped /\ TableOK /\ QueueInv
BY DEF Inv, TypeOK, RestTyped, QueueTyped

LEMMA PartsNext == Inv' <=> RestTyped' /\ QueueTyped' /\ TableOK' /\ QueueInv'
BY DEF Inv, TypeOK, RestTyped, QueueTyped, Taken

LEMMA LoginKeeps ==
  ASSUME RestTyped, TableOK, NEW k \in Keys, NEW c \in Conns, Table!Login(k, c), via' = via
  PROVE  /\ current' \in [Keys -> Conns \union {None}]
         /\ live' \subseteq Conns /\ live \subseteq live'
         /\ TableOK'
         /\ \A q \in Places, m \in Cmds : Belongs(m, q) => Belongs(m, q)'
<1>1. /\ current[k] = None /\ c \notin live /\ live' = live \union {c}
      /\ current' = [current EXCEPT ![k] = c]
  BY DEF Table!Login
<1>2. current' \in [Keys -> Conns \union {None}] /\ live' \subseteq Conns /\ live \subseteq live'
  BY <1>1 DEF RestTyped
<1>3. current'[k] = c /\ \A l \in Keys \ {k} : current'[l] = current[l]
  BY <1>1 DEF RestTyped
<1>4. TableOK'
  BY <1>1, <1>3 DEF TableOK
<1>5. ASSUME NEW q \in Places, NEW m \in Cmds, Belongs(m, q) PROVE Belongs(m, q)'
  <2>1. ASSUME NEW b \in Conns, q \in {Channel(b), Flight(b)} PROVE current'[Target[m]] = b
    <3>1. current[Target[m]] = b /\ Target[m] \in Keys /\ b # None
      BY <1>5, <2>1, CommandPathAssumption DEF Belongs, Keys
    <3> QED
      BY <3>1, <1>1, <1>3
  <2> QED
    BY <1>5, <2>1 DEF Belongs, UplinkPlaces, SendMsgList, Taken, Wire, Buffer, Channel, Flight, Device
<1> QED
  BY <1>2, <1>4, <1>5

LEMMA ClientKeeps ==
  ASSUME Inv, NEW m \in Cmds, Client(m)
  PROVE  Inv'
<1>0. /\ RestTyped /\ QueueTyped /\ TableOK /\ QueueInv
      /\ SendMsgList \in Places /\ queue \in [Places -> Seq(Cmds)]
  BY Parts, PlacesOf DEF QueueTyped
<1>1. /\ number[m] = 0 /\ via[m] = None /\ count \in Nat
      /\ number' = [number EXCEPT ![m] = count + 1] /\ count' = count + 1
      /\ queue' = [queue EXCEPT ![SendMsgList] = Append(@, m)]
      /\ UNCHANGED <<current, live, broken, stale, sender, via, faults>>
  BY <1>0 DEF Client, QueueInv, Numbered, RestTyped
<1>2. RestTyped' /\ TableOK'
  BY <1>0, <1>1 DEF RestTyped, TableOK
<1>3. /\ queue' \in [Places -> Seq(Cmds)]
      /\ \A q \in Places \ {SendMsgList} : queue'[q] = queue[q]
      /\ queue'[SendMsgList] = Append(queue[SendMsgList], m)
  BY <1>0, <1>1
<1>4. /\ Len(queue[SendMsgList]) \in Nat
      /\ Len(queue'[SendMsgList]) = Len(queue[SendMsgList]) + 1
      /\ queue'[SendMsgList][Len(queue[SendMsgList]) + 1] = m
      /\ \A i \in 1..Len(queue[SendMsgList]) : queue'[SendMsgList][i] = queue[SendMsgList][i]
  BY <1>0, <1>3
\* What is in the queues now is m, in the last position, or was there before.
<1>5. ASSUME NEW q \in Places, NEW j \in Positions(q)'
      PROVE  \/ /\ q = SendMsgList /\ j = Len(queue[SendMsgList]) + 1 /\ queue'[q][j] = m
             \/ /\ j \in Positions(q) /\ queue'[q][j] = queue[q][j]
                /\ queue[q][j] # m /\ queue[q][j] \in Cmds
                /\ q = SendMsgList => j < Len(queue[SendMsgList]) + 1
  <2>1. Positions(q) = 1..Len(queue[q]) /\ Positions(q)' = 1..Len(queue'[q])
        /\ Len(queue[q]) \in Nat
    BY <1>0, <1>3, PositionsOf, PositionsNext
  <2>2. \A i \in Positions(q) : queue[q][i] # m /\ queue[q][i] \in Cmds
    BY <1>0, <1>1, PositionsOf DEF QueueInv, Numbered
  <2> QED
    BY <1>3, <1>4, <2>1, <2>2
<1>6. QueueTyped'
  <2> SUFFICES ASSUME NEW c \in Conns
               PROVE  Len(queue'[Taken(c)]) <= 1
    BY <1>3 DEF QueueTyped, Taken
  <2>1. Taken(c) \in Places \ {SendMsgList}
    BY PlacesOf, RankOf
  <2> QED
    BY <1>0, <1>3, <2>1 DEF QueueTyped
<1>7. Once'
  <2> SUFFICES ASSUME NEW a \in Places, NEW b \in Places,
                      NEW i \in Positions(a)', NEW j \in Positions(b)',
                      queue'[a][i] = queue'[b][j]
               PROVE  a = b /\ i = j
    BY DEF Once
  <2> QED
    BY <1>0, <1>5 DEF QueueInv, Once
<1>8. \A n \in Cmds \ {m} : number'[n] = number[n]
  BY <1>0, <1>1 DEF RestTyped
<1>9. number'[m] = count + 1 /\ number'[m] # 0 /\ \A n \in Cmds \ {m} : number'[n] < number'[m]
  BY <1>0, <1>1, <1>8 DEF RestTyped
<1>10. Numbered'
  <2>1. \A q \in Places : \A i \in Positions(q)' : number'[queue'[q][i]] # 0
    BY <1>0, <1>5, <1>8, <1>9 DEF QueueInv, Numbered
  <2>2. ASSUME NEW n \in Cmds, number'[n] = 0 PROVE via'[n] = None
    <3>1. number[n] = 0
      BY <1>8, <1>9, <2>2
    <3> QED
      BY <1>0, <1>1, <3>1 DEF QueueInv, Numbered
  <2> QED
    BY <2>1, <2>2 DEF Numbered
<1>11. AllBelong'
  <2> SUFFICES ASSUME NEW q \in Places, NEW j \in Positions(q)', NEW n \in Cmds,
                      n = queue'[q][j]
               PROVE  Belongs(n, q)'
    BY <1>3, PositionsNext DEF AllBelong
  <2>1. Belongs(m, SendMsgList)
    BY <1>1, RankOf DEF Belongs, UplinkPlaces
  <2>2. Belongs(n, q)
    BY <1>0, <1>5, <2>1 DEF QueueInv, AllBelong
  <2> QED
    BY <1>1, <2>2, UnchangedBelongs
<1>12. LastAreQueued'
  <2> SUFFICES ASSUME NEW i \in Positions(SendMsgList)', NEW q \in Places,
                      NEW j \in Positions(q)', q # SendMsgList \/ j < i
               PROVE  number'[queue'[q][j]] < number'[queue'[SendMsgList][i]]
    BY DEF LastAreQueued
  <2>1. CASE i \in Positions(SendMsgList) /\ queue'[SendMsgList][i] = queue[SendMsgList][i]
             /\ i < Len(queue[SendMsgList]) + 1 /\ queue[SendMsgList][i] # m
             /\ queue[SendMsgList][i] \in Cmds
    <3>1. j \in Positions(q) /\ queue'[q][j] = queue[q][j] /\ queue[q][j] # m
          /\ queue[q][j] \in Cmds
      BY <1>0, <1>4, <1>5, <2>1, PositionsOf
    <3> QED
      BY <1>0, <1>8, <2>1, <3>1 DEF QueueInv, LastAreQueued
  <2>2. CASE i = Len(queue[SendMsgList]) + 1 /\ queue'[SendMsgList][i] = m
    <3>1. queue'[q][j] \in Cmds /\ queue'[q][j] # m
      BY <1>5, <2>2
    <3> QED
      BY <1>9, <2>2, <3>1
  <2> QED
    BY <1>0, <1>5, <2>1, <2>2
<1>13. InLine'
  <2> SUFFICES ASSUME NEW a \in Places \ {SendMsgList}, NEW b \in Places \ {SendMsgList},
                      NEW i \in Positions(a)', NEW j \in Positions(b)',
                      via[queue'[a][i]] = via[queue'[b][j]],
                      Target[queue'[a][i]] = Target[queue'[b][j]],
                      number'[queue'[a][i]] < number'[queue'[b][j]]
               PROVE  Rank(b) <= Rank(a) /\ (a = b => i < j)
    BY <1>1 DEF InLine, Rank, SendMsgList
  <2>1. /\ i \in Positions(a) /\ queue'[a][i] = queue[a][i] /\ queue[a][i] \in Cmds \ {m}
        /\ j \in Positions(b) /\ queue'[b][j] = queue[b][j] /\ queue[b][j] \in Cmds \ {m}
    BY <1>5
  <2> QED
    BY <1>0, <1>8, <2>1 DEF QueueInv, InLine
<1> QED
  BY <1>2, <1>6, <1>7, <1>10, <1>11, <1>12, <1>13, PartsNext DEF QueueInv

LEMMA ReconnectKeeps ==
  ASSUME Inv, NEW c \in Conns, Reconnect(c)
  PROVE  Inv'
<1>0. RestTyped /\ QueueTyped /\ TableOK /\ QueueInv /\ TypeOK
  BY Parts DEF Inv
<1>1. /\ Table!Login(Ctrl, c) /\ sender' = sender \union {c}
      /\ UNCHANGED <<broken, stale, queue, count, number, via, faults>>
  BY DEF Reconnect
<1>2. /\ current' \in [Keys -> Conns \union {None}]
      /\ live' \subseteq Conns /\ live \subseteq live' /\ TableOK'
      /\ \A q \in Places, m \in Cmds : Belongs(m, q) => Belongs(m, q)'
  BY <1>0, <1>1, LoginKeeps DEF Keys
<1>3. RestTyped'
  BY <1>0, <1>1, <1>2 DEF RestTyped
<1>4. QueueTyped' /\ QueueInv'
  BY <1>0, <1>1, <1>2, IdleKeeps
<1> QED
  BY <1>2, <1>3, <1>4, PartsNext

LEMMA DeviceLoginKeeps ==
  ASSUME Inv, NEW c \in Conns, NEW d \in Devices, DeviceLogin(d, c)
  PROVE  Inv'
<1>0. RestTyped /\ QueueTyped /\ TableOK /\ QueueInv /\ TypeOK
  BY Parts DEF Inv
<1>1. /\ Table!Login(d, c)
      /\ UNCHANGED <<broken, stale, sender, queue, count, number, via, faults>>
  BY DEF DeviceLogin
<1>2. /\ current' \in [Keys -> Conns \union {None}]
      /\ live' \subseteq Conns /\ live \subseteq live' /\ TableOK'
      /\ \A q \in Places, m \in Cmds : Belongs(m, q) => Belongs(m, q)'
  BY <1>0, <1>1, LoginKeeps DEF Keys
<1>3. RestTyped'
  BY <1>0, <1>1, <1>2 DEF RestTyped
<1>4. QueueTyped' /\ QueueInv'
  BY <1>0, <1>1, <1>2, IdleKeeps
<1> QED
  BY <1>2, <1>3, <1>4, PartsNext

\* The frame taken is the one submitted last among those taken so far.
LEMMA TakeKeeps ==
  ASSUME Inv, NEW c \in Conns, Take(c)
  PROVE  Inv'
<1> DEFINE p == SendMsgList
           r == Taken(c)
<1>0. /\ RestTyped /\ QueueTyped /\ TableOK /\ TypeOK
      /\ Once /\ Numbered /\ AllBelong /\ LastAreQueued /\ InLine
      /\ p \in Places /\ r \in Places /\ p # r
      /\ queue \in [Places -> Seq(Cmds)] /\ number \in [Cmds -> Nat]
  BY Parts, PlacesOf, RankOf, TypedNumbers DEF Inv, QueueTyped, QueueInv
<1>a. /\ queue[r] = <<>> /\ queue[p] # <<>> /\ Move(p, r)
      /\ via' = [via EXCEPT ![queue[p][1]] = c]
      /\ UNCHANGED <<current, live, broken, stale, sender, count, number, faults>>
  BY DEF Take, Move
<1>b. queue[p][1] \in Cmds /\ 1 \in Positions(p)
  BY <1>0, <1>a, PositionsOf
<1>c. PICK x \in Cmds : x = queue[p][1]
  BY <1>b
<1>1. /\ queue[r] = <<>> /\ Move(p, r) /\ via' = [via EXCEPT ![x] = c]
      /\ UNCHANGED <<current, live, broken, stale, sender, count, number, faults>>
  BY <1>a, <1>c
<1>2. /\ Moved(p, r, 1) /\ x \in Cmds /\ x = queue[p][1] /\ 1 \in Positions(p)
      /\ Len(queue[r]) = 0 /\ queue' \in [Places -> Seq(Cmds)]
  BY <1>0, <1>a, <1>b, <1>c, MoveMoves DEF Moved
<1>d. Len(queue'[r]) = 1 /\ queue'[r][1] = x
  <2>1. queue'[r] = Append(<<>>, x)
    BY <1>0, <1>1, <1>2 DEF Move
  <2> QED
    BY <2>1
<1>3. via'[x] = c /\ \A m \in Cmds \ {x} : via'[m] = via[m]
  BY <1>0, <1>1, <1>2 DEF RestTyped
<1> HIDE DEF p, r
<1>4. RestTyped' /\ TableOK'
  BY <1>0, <1>1, <1>2 DEF RestTyped, TableOK
<1>5. QueueTyped'
  <2> SUFFICES ASSUME NEW b \in Conns
               PROVE  Len(queue'[Taken(b)]) <= 1
    BY <1>2 DEF QueueTyped, Taken
  <2>1. Taken(b) \in Places /\ Taken(b) # p
    BY PlacesOf, RankOf DEF p
  <2>2. CASE Taken(b) = r
    <3>1. Len(queue'[Taken(b)]) = 1
      BY <1>d, <2>2, Zenon
    <3> QED
      BY <3>1
  <2>3. CASE Taken(b) # r
    <3>1. queue'[Taken(b)] = queue[Taken(b)]
      BY <1>2, <2>1, <2>3 DEF Moved
    <3> QED
      BY <1>0, <3>1 DEF QueueTyped
  <2> QED
    BY <2>2, <2>3
<1>6. Once'
  BY <1>0, <1>2, MovedOnce
<1>7. Numbered'
  <2>1. \A q \in Places : \A i \in Positions(q)' : number'[queue'[q][i]] # 0
    BY <1>0, <1>1, <1>2, MovedNumbered
  <2>2. number[x] # 0
    BY <1>0, <1>2 DEF Numbered, p
  <2>3. \A n \in Cmds : number'[n] = 0 => via'[n] = None
    BY <1>0, <1>1, <1>3, <2>2 DEF Numbered
  <2> QED
    BY <2>1, <2>3 DEF Numbered
<1>8. ASSUME NEW q \in Places, NEW i \in Positions(q), queue[q][i] = x
      PROVE  q = p /\ i = 1
  BY <1>0, <1>2, <1>8 DEF Once, p
<1>9. AllBelong'
  <2>1. ASSUME NEW q \in Places, NEW m \in Cmds, NEW i \in Positions(q),
               m = queue[q][i], q = p => i > 1
        PROVE  Belongs(m, q)'
    <3>1. m # x /\ Belongs(m, q)
      BY <1>0, <1>8, <2>1 DEF AllBelong
    <3> QED
      BY <1>1, <1>3, <3>1
      DEF Belongs, UplinkPlaces, SendMsgList, Taken, Wire, Buffer, Channel, Flight, Device
  <2>2. Belongs(x, r)'
    BY <1>3, PlacesOf, RankOf, CommandPathAssumption
    DEF Belongs, UplinkPlaces, SendMsgList, Taken, Wire, Buffer, Channel, Flight, Device, r
  <2>3. \A m \in Cmds : \A i \in 1..1 : m = queue[p][i] => Belongs(m, r)'
    BY <1>2, <2>2
  <2> QED
    BY <1>0, <1>2, <2>1, <2>3, MovedBelong
<1>10. LastAreQueued'
  BY <1>0, <1>1, <1>2, MovedLastAreQueued DEF p
<1>11. InLine'
  <2> SUFFICES ASSUME NEW a \in Places \ {SendMsgList}, NEW b \in Places \ {SendMsgList},
                      NEW i \in Positions(a)', NEW j \in Positions(b)',
                      via'[queue'[a][i]] = via'[queue'[b][j]],
                      Target[queue'[a][i]] = Target[queue'[b][j]],
                      number[queue'[a][i]] < number[queue'[b][j]]
               PROVE  Rank(b) <= Rank(a) /\ (a = b => i < j)
    BY <1>1 DEF InLine, Rank, SendMsgList
  <2>1. ASSUME NEW q \in Places \ {SendMsgList}, NEW h \in Positions(q)'
        PROVE  \/ q = r /\ h = 1 /\ queue'[q][h] = x
               \/ q # r /\ h \in Positions(q) /\ queue'[q][h] = queue[q][h]
                  /\ queue[q][h] # x /\ queue[q][h] \in Cmds
    <3>1. CASE q = r
      <4>1. Positions(q)' = 1..1
        BY <1>2, <1>d, <3>1, PositionsNext
      <4> QED
        BY <1>d, <3>1, <4>1
    <3>2. CASE q # r
      <4>1. queue'[q] = queue[q]
        BY <1>2, <3>2 DEF Moved, p
      <4> QED
        BY <1>0, <1>8, <3>2, <4>1, PositionsOf DEF Positions, p
    <3> QED
      BY <3>1, <3>2
  <2>2. CASE a = r /\ queue'[a][i] = x
    <3>1. (b = r /\ queue'[b][j] = x) \/ number[queue'[b][j]] < number[x]
      BY <1>0, <1>2, <2>1 DEF LastAreQueued, p
    <3> QED
      BY <1>0, <1>2, <2>1, <2>2, <3>1, PositionsNext
  <2>3. CASE a # r /\ i \in Positions(a) /\ queue'[a][i] = queue[a][i] /\ queue[a][i] # x
             /\ queue[a][i] \in Cmds
    <3>1. CASE b = r
      <4>1. Rank(a) >= 2
        BY PlaceForms, RankOf
      <4> QED
        BY <2>3, <3>1, <4>1, RankOf DEF r
    <3>2. CASE b # r
      <4>1. j \in Positions(b) /\ queue'[b][j] = queue[b][j] /\ queue[b][j] # x
            /\ queue[b][j] \in Cmds
        BY <2>1, <3>2
      <4>2. via[queue[a][i]] = via[queue[b][j]]
        BY <1>3, <2>3, <4>1
      <4> QED
        BY <1>0, <2>3, <4>1, <4>2 DEF InLine
    <3> QED
      BY <3>1, <3>2
  <2> QED
    BY <2>1, <2>2, <2>3
<1> QED
  BY <1>4, <1>5, <1>6, <1>7, <1>9, <1>10, <1>11, PartsNext DEF QueueInv

LEMMA StayBelongs ==
  ASSUME UNCHANGED <<via, current>>
  PROVE  \A q \in Places, m \in Cmds : Belongs(m, q) => Belongs(m, q)'
BY UnchangedBelongs

LEMMA WriteKeeps ==
  ASSUME Inv, NEW c \in Conns, Write(c)
  PROVE  Inv'
<1>0. /\ RestTyped /\ QueueTyped /\ TableOK /\ QueueInv /\ TypeOK
      /\ queue \in [Places -> Seq(Cmds)]
      /\ Taken(c) \in Places /\ Wire(c) \in Places
  BY Parts, PlacesOf DEF Inv, QueueTyped
<1>1. /\ UNCHANGED <<current, live, stale, count, number, via, faults>>
      /\ sender' \subseteq sender /\ broken' \subseteq broken \union live
      /\ Move(Taken(c), Wire(c)) \/ Drop(Taken(c))
  BY DEF Write, CloseShared
<1>2. RestTyped' /\ TableOK'
  BY <1>0, <1>1 DEF RestTyped, TableOK
<1>3. CASE Drop(Taken(c))
  BY <1>0, <1>1, <1>2, <1>3, DropKeeps, PartsNext
<1>4. CASE Move(Taken(c), Wire(c))
  <2>1. /\ Moved(Taken(c), Wire(c), 1) /\ Taken(c) # SendMsgList /\ Wire(c) # SendMsgList
        /\ \A b \in Conns : Wire(c) # Taken(b)
        /\ Rank(Wire(c)) = Rank(Taken(c)) + 1
    BY <1>0, <1>4, RankOf, MoveMoves
  <2>2. \A m \in Cmds : \A i \in 1..1 : m = queue[Taken(c)][i] => Belongs(m, Wire(c))
    <3> SUFFICES ASSUME NEW m \in Cmds, m = queue[Taken(c)][1]
                 PROVE  Belongs(m, Wire(c))
      OBVIOUS
    <3>1. 1 \in Positions(Taken(c))
      BY <1>0, <2>1, PositionsOf DEF Moved
    <3>2. via[m] = c
      BY <1>0, <3>1 DEF QueueInv, AllBelong, Belongs, UplinkPlaces
    <3> QED
      BY <3>2, CommandPathAssumption
      DEF Belongs, UplinkPlaces, SendMsgList, Taken, Wire, Buffer, Channel, Flight, Device
  <2>3. QueueTyped' /\ QueueInv'
    BY <1>0, <1>1, <2>1, <2>2, MovedKeeps
  <2> QED
    BY <1>2, <2>3, PartsNext
<1> QED
  BY <1>1, <1>3, <1>4

LEMMA RecvReadMoves ==
  ASSUME Inv, NEW c \in Conns, RecvRead(c)
  PROVE  \E n \in Nat : Moved(Wire(c), Buffer(c), n)
<1> DEFINE p == Wire(c)
           r == Buffer(c)
<1>0. /\ queue \in [Places -> Seq(Cmds)]
      /\ p \in Places /\ r \in Places /\ p # r
  BY Parts, PlacesOf, RankOf DEF Inv, QueueTyped
<1>1. PICK n \in DOMAIN queue[p] :
        queue' = [queue EXCEPT ![p] = SubSeq(@, n + 1, Len(@)),
                               ![r] = SubSeq(queue[p], 1, n)]
  BY DEF RecvRead
<1>2. queue[r] = <<>>
  BY DEF RecvRead
<1>3. /\ Len(queue[p]) \in Nat /\ n \in 1..Len(queue[p])
      /\ queue[p] \in Seq(Cmds) /\ Len(queue[r]) = 0
  BY <1>0, <1>1, <1>2
<1>4. /\ SubSeq(queue[p], n + 1, Len(queue[p])) \in Seq(Cmds)
      /\ Len(SubSeq(queue[p], n + 1, Len(queue[p]))) = Len(queue[p]) - n
      /\ \A i \in 1..Len(queue[p]) - n :
           SubSeq(queue[p], n + 1, Len(queue[p]))[i] = queue[p][i + n]
  BY <1>3
<1>5. /\ SubSeq(queue[p], 1, n) \in Seq(Cmds)
      /\ Len(SubSeq(queue[p], 1, n)) = n
      /\ \A i \in 1..n : SubSeq(queue[p], 1, n)[i] = queue[p][i]
  BY <1>3
<1>6. /\ queue' \in [Places -> Seq(Cmds)]
      /\ queue'[p] = SubSeq(queue[p], n + 1, Len(queue[p]))
      /\ queue'[r] = SubSeq(queue[p], 1, n)
      /\ \A q \in Places \ {p, r} : queue'[q] = queue[q]
  BY <1>0, <1>1, <1>4, <1>5
<1>7. \A i \in 1..n : Len(queue[r]) + i = i
  BY <1>3
<1> HIDE DEF p, r
<1>8. /\ Len(queue'[p]) = Len(queue[p]) - n
      /\ \A i \in 1..Len(queue[p]) - n : queue'[p][i] = queue[p][i + n]
  <2>1. queue'[p] = SubSeq(queue[p], n + 1, Len(queue[p]))
    BY <1>6
  <2> QED
    BY <2>1, <1>4, Zenon
<1>9. /\ Len(queue'[r]) = Len(queue[r]) + n
      /\ \A i \in 1..Len(queue[r]) : queue'[r][i] = queue[r][i]
      /\ \A i \in 1..n : queue'[r][Len(queue[r]) + i] = queue[p][i]
  <2>1. queue'[r] = SubSeq(queue[p], 1, n)
    BY <1>6
  <2>2. Len(queue'[r]) = n /\ \A i \in 1..n : queue'[r][i] = queue[p][i]
    BY <2>1, <1>5, Zenon
  <2> QED
    BY <2>2, <1>3, <1>7
<1>10. Moved(p, r, n)
  BY <1>0, <1>3, <1>6, <1>8, <1>9, Zenon DEF Moved
<1> QED
  BY <1>3, <1>10 DEF p, r

LEMMA RecvReadKeeps ==
  ASSUME Inv, NEW c \in Conns, RecvRead(c)
  PROVE  Inv'
<1> DEFINE p == Wire(c)
           r == Buffer(c)
<1>0. /\ RestTyped /\ QueueTyped /\ TableOK /\ QueueInv /\ TypeOK
      /\ queue \in [Places -> Seq(Cmds)]
      /\ p \in Places /\ r \in Places /\ p # r
  BY Parts, PlacesOf, RankOf DEF Inv, QueueTyped
<1>1. PICK n \in Nat : Moved(p, r, n)
  BY RecvReadMoves
<1>2. UNCHANGED <<current, live, broken, stale, sender, count, number, via, faults>>
  BY DEF RecvRead
<1>3. RestTyped' /\ TableOK'
  BY <1>0, <1>2 DEF RestTyped, TableOK
<1>4. Moved(p, r, n)
  BY <1>1
<1>5. /\ p # SendMsgList /\ r # SendMsgList /\ \A b \in Conns : r # Taken(b)
      /\ Rank(r) = Rank(p) + 1
  BY RankOf
<1>6. \A m \in Cmds : \A i \in 1..n : m = queue[p][i] => Belongs(m, r)
  <2> SUFFICES ASSUME NEW m \in Cmds, NEW i \in 1..n, m = queue[p][i]
               PROVE  Belongs(m, r)
    OBVIOUS
  <2>1. i \in Positions(p)
    BY <1>0, <1>4, PositionsOf DEF Moved
  <2>2. via[m] = c
    BY <1>0, <2>1 DEF QueueInv, AllBelong, Belongs, UplinkPlaces
  <2> QED
    BY <2>2, CommandPathAssumption
    DEF Belongs, UplinkPlaces, SendMsgList, Taken, Wire, Buffer, Channel, Flight, Device
<1> HIDE DEF p, r
<1>7. QueueTyped' /\ QueueInv'
  BY <1>0, <1>2, <1>4, <1>5, <1>6, MovedKeeps
<1> QED
  BY <1>3, <1>7, PartsNext

LEMMA SetRecvMsgListKeeps ==
  ASSUME Inv, NEW c \in Conns, SetRecvMsgList(c)
  PROVE  Inv'
<1>0. /\ RestTyped /\ QueueTyped /\ TableOK /\ QueueInv /\ TypeOK
      /\ queue \in [Places -> Seq(Cmds)]
      /\ Buffer(c) \in Places /\ RecvMsgList \in Places
  BY Parts, PlacesOf DEF Inv, QueueTyped
<1>1. /\ Move(Buffer(c), RecvMsgList)
      /\ UNCHANGED <<current, live, broken, stale, sender, count, number, via, faults>>
  BY DEF SetRecvMsgList
<1>2. RestTyped' /\ TableOK'
  BY <1>0, <1>1 DEF RestTyped, TableOK
<1>3. /\ Moved(Buffer(c), RecvMsgList, 1)
      /\ Buffer(c) # SendMsgList /\ RecvMsgList # SendMsgList
      /\ \A b \in Conns : RecvMsgList # Taken(b)
      /\ Rank(RecvMsgList) = Rank(Buffer(c)) + 1
  BY <1>0, <1>1, RankOf, MoveMoves
<1>4. \A m \in Cmds : \A i \in 1..1 : m = queue[Buffer(c)][i] => Belongs(m, RecvMsgList)
  <2> SUFFICES ASSUME NEW m \in Cmds, m = queue[Buffer(c)][1]
               PROVE  Belongs(m, RecvMsgList)
    OBVIOUS
  <2>1. 1 \in Positions(Buffer(c))
    BY <1>0, <1>3, PositionsOf DEF Moved
  <2>2. via[m] = c
    BY <1>0, <2>1 DEF QueueInv, AllBelong, Belongs, UplinkPlaces
  <2> QED
    BY <2>2, CommandPathAssumption
    DEF Belongs, UplinkPlaces, SendMsgList, RecvMsgList, Taken, Wire, Buffer, Channel, Flight, Device
<1>5. QueueTyped' /\ QueueInv'
  BY <1>0, <1>1, <1>3, <1>4, MovedKeeps
<1> QED
  BY <1>2, <1>5, PartsNext

LEMMA DisPatchKeeps ==
  ASSUME Inv, DisPatch
  PROVE  Inv'
<1> DEFINE h == queue[RecvMsgList][1]
           s == current[Target[h]]
<1>0. /\ RestTyped /\ QueueTyped /\ TableOK /\ QueueInv /\ TypeOK
      /\ queue \in [Places -> Seq(Cmds)] /\ RecvMsgList \in Places
  BY Parts, PlacesOf DEF Inv, QueueTyped
<1>1. /\ UNCHANGED <<current, live, broken, stale, sender, count, number, via, faults>>
      /\ \/ s # None /\ Move(RecvMsgList, Channel(s))
         \/ s = None /\ Drop(RecvMsgList)
      /\ queue[RecvMsgList] # <<>>
  BY DEF DisPatch
<1>2. RestTyped' /\ TableOK'
  BY <1>0, <1>1 DEF RestTyped, TableOK
<1>3. CASE Drop(RecvMsgList)
  BY <1>0, <1>1, <1>2, <1>3, DropKeeps, PartsNext
<1>4. CASE s # None /\ Move(RecvMsgList, Channel(s))
  <2>1. 1 \in Positions(RecvMsgList) /\ h \in Cmds
    BY <1>0, <1>1, PositionsOf
  <2>2. PICK c \in Conns : c = s
    <3>1. Target[h] \in Keys
      BY <2>1, CommandPathAssumption DEF Keys
    <3> QED
      BY <1>0, <1>4, <3>1 DEF RestTyped
  <2>3. /\ Moved(RecvMsgList, Channel(c), 1)
        /\ RecvMsgList # SendMsgList /\ Channel(c) # SendMsgList
        /\ \A b \in Conns : Channel(c) # Taken(b)
        /\ Rank(Channel(c)) = Rank(RecvMsgList) + 1
    BY <1>0, <1>4, <2>2, RankOf, PlacesOf, MoveMoves
  <2>4. \A m \in Cmds : \A i \in 1..1 : m = queue[RecvMsgList][i] => Belongs(m, Channel(c))
    <3> SUFFICES ASSUME NEW m \in Cmds, m = h
                 PROVE  Belongs(m, Channel(c))
      OBVIOUS
    <3>1. via[m] # None
      BY <1>0, <2>1, <2>3 DEF QueueInv, AllBelong, Belongs
    <3>2. current[Target[m]] = c
      BY <2>2
    <3> HIDE DEF h, s
    <3> QED
      BY <3>1, <3>2
      DEF Belongs, UplinkPlaces, SendMsgList, Taken, Wire, Buffer, Channel, Flight, Device
  <2>5. QueueTyped' /\ QueueInv'
    BY <1>0, <1>1, <2>3, <2>4, MovedKeeps
  <2> QED
    BY <1>2, <2>5, PartsNext
<1> QED
  BY <1>1, <1>3, <1>4

LEMMA ChannelTakeKeeps ==
  ASSUME Inv, NEW c \in Conns, ChannelTake(c)
  PROVE  Inv'
<1>0. /\ RestTyped /\ QueueTyped /\ TableOK /\ QueueInv /\ TypeOK
      /\ queue \in [Places -> Seq(Cmds)]
      /\ Channel(c) \in Places /\ Flight(c) \in Places
  BY Parts, PlacesOf DEF Inv, QueueTyped
<1>1. /\ UNCHANGED <<current, live, broken, stale, sender, count, number, via, faults>>
      /\ Move(Channel(c), Flight(c))
  BY DEF ChannelTake
<1>2. RestTyped' /\ TableOK'
  BY <1>0, <1>1 DEF RestTyped, TableOK
<1>3. /\ Moved(Channel(c), Flight(c), 1)
      /\ Channel(c) # SendMsgList /\ Flight(c) # SendMsgList
      /\ \A b \in Conns : Flight(c) # Taken(b)
      /\ Rank(Flight(c)) = Rank(Channel(c)) + 1
  BY <1>0, <1>1, RankOf, MoveMoves
<1>4. \A m \in Cmds : \A i \in 1..1 : m = queue[Channel(c)][i] => Belongs(m, Flight(c))
  <2> SUFFICES ASSUME NEW m \in Cmds, m = queue[Channel(c)][1]
               PROVE  Belongs(m, Flight(c))
    OBVIOUS
  <2>1. 1 \in Positions(Channel(c))
    BY <1>0, <1>3, PositionsOf DEF Moved
  <2>2. Belongs(m, Channel(c))
    BY <1>0, <2>1 DEF QueueInv, AllBelong
  <2>3. via[m] # None /\ current[Target[m]] = c
    BY <1>3, <2>2 DEF Belongs
  <2> QED
    BY <2>3
    DEF Belongs, UplinkPlaces, SendMsgList, Taken, Wire, Buffer, Channel, Flight, Device
<1>5. QueueTyped' /\ QueueInv'
  BY <1>0, <1>1, <1>3, <1>4, MovedKeeps
<1> QED
  BY <1>2, <1>5, PartsNext

LEMMA ReceiveKeeps ==
  ASSUME Inv, NEW c \in Conns, Receive(c)
  PROVE  Inv'
<1>0. /\ RestTyped /\ QueueTyped /\ TableOK /\ QueueInv /\ TypeOK
      /\ queue \in [Places -> Seq(Cmds)] /\ Flight(c) \in Places
  BY Parts, PlacesOf DEF Inv, QueueTyped
<1>1. UNCHANGED <<current, live, broken, stale, sender, count, number, via, faults>>
  BY DEF Receive
<1>2. RestTyped' /\ TableOK'
  BY <1>0, <1>1 DEF RestTyped, TableOK
<1>3. PICK d \in Devices : current[d] = c /\ Move(Flight(c), Device(d))
  BY DEF Receive
<1>4. /\ Moved(Flight(c), Device(d), 1)
      /\ Flight(c) # SendMsgList /\ Device(d) # SendMsgList
      /\ \A b \in Conns : Device(d) # Taken(b)
      /\ Rank(Device(d)) = Rank(Flight(c)) + 1
  BY <1>0, <1>3, RankOf, PlacesOf, MoveMoves
<1>5. \A m \in Cmds : \A i \in 1..1 : m = queue[Flight(c)][i] => Belongs(m, Device(d))
  <2> SUFFICES ASSUME NEW m \in Cmds, m = queue[Flight(c)][1]
               PROVE  Belongs(m, Device(d))
    OBVIOUS
  <2>1. 1 \in Positions(Flight(c))
    BY <1>0, <1>4, PositionsOf DEF Moved
  <2>2. Belongs(m, Flight(c))
    BY <1>0, <2>1 DEF QueueInv, AllBelong
  <2>3. via[m] # None /\ current[Target[m]] = c
    BY <1>4, <2>2 DEF Belongs
  <2>4. Target[m] = d
    BY <1>0, <1>3, <2>3, CommandPathAssumption DEF TableOK, Keys
  <2> QED
    BY <2>3, <2>4
    DEF Belongs, UplinkPlaces, SendMsgList, Taken, Wire, Buffer, Channel, Flight, Device
<1>6. QueueTyped' /\ QueueInv'
  BY <1>0, <1>1, <1>4, <1>5, MovedKeeps
<1> QED
  BY <1>2, <1>6, PartsNext

\* Clearing a session's queue is what keeps commands from the next client of a
\* connection: no command waits in the queue of a session that is not current.
LEMMA ClientCloseKeeps ==
  ASSUME Inv, NEW k \in Keys, ClientClose(k)
  PROVE  Inv'
<1> DEFINE c == current[k]
           P == {Wire(c), Channel(c), Flight(c)}
<1>0. /\ RestTyped /\ QueueTyped /\ TableOK /\ QueueInv /\ TypeOK
      /\ queue \in [Places -> Seq(Cmds)]
  BY Parts DEF Inv, QueueTyped
<1>1. /\ c # None /\ current' = [current EXCEPT ![k] = None]
      /\ live' = live \ {c} /\ broken' = broken \ {c} /\ Clear(P)
      /\ stale' = stale \union {k}
      /\ UNCHANGED <<sender, count, number, via, faults>>
  BY DEF ClientClose, Table!Logout
<1>2. c \in Conns /\ P \subseteq Places
  BY <1>0, <1>1, PlacesOf DEF RestTyped
<1>3. current'[k] = None /\ \A l \in Keys \ {k} : current'[l] = current[l]
  BY <1>0, <1>1 DEF RestTyped
<1>4. RestTyped'
  BY <1>0, <1>1 DEF RestTyped
<1>5. TableOK'
  BY <1>0, <1>1, <1>3 DEF TableOK
<1>6. PICK x \in Conns : x = c
  BY <1>2
<1>7. Shrunk([q \in Places |-> IF q \in P THEN Len(queue[q]) ELSE 0])
  BY <1>0, <1>1, <1>2, ClearShrinks
<1>8. ASSUME NEW q \in Places, NEW m \in Cmds, NEW i \in Positions(q), m = queue[q][i],
             i > [u \in Places |-> IF u \in P THEN Len(queue[u]) ELSE 0][q]
      PROVE  Belongs(m, q)'
  <2>1. q \notin P
    BY <1>0, <1>8, PositionsOf
  <2>2. Belongs(m, q)
    BY <1>0, <1>8 DEF QueueInv, AllBelong
  <2>3. ASSUME NEW b \in Conns, q \in {Channel(b), Flight(b)} PROVE current'[Target[m]] = b
    <3>1. current[Target[m]] = b /\ Target[m] \in Keys
      BY <2>2, <2>3, CommandPathAssumption DEF Belongs, Keys
    <3>2. b # c
      BY <2>1, <2>3
    <3> QED
      BY <3>1, <3>2, <1>3
  <2> QED
    BY <1>1, <2>2, <2>3
    DEF Belongs, UplinkPlaces, SendMsgList, Taken, Wire, Buffer, Channel, Flight, Device
<1>9. QueueTyped' /\ QueueInv'
  BY <1>0, <1>1, <1>7, <1>8, ShrunkKeeps
<1> QED
  BY <1>4, <1>5, <1>9, PartsNext

LEMMA GatewayRestartKeeps ==
  ASSUME Inv, GatewayRestart
  PROVE  Inv'
<1>0. /\ RestTyped /\ QueueTyped /\ TableOK /\ QueueInv /\ TypeOK
      /\ queue \in [Places -> Seq(Cmds)]
  BY Parts DEF Inv, QueueTyped
<1>1. /\ current' = [l \in Keys |-> None] /\ live' = {} /\ broken' = {} /\ stale' = {}
      /\ Clear(GatewayPlaces) /\ UNCHANGED <<sender, count, number, via>>
      /\ faults < MaxFaults /\ faults' = faults + 1
  BY DEF GatewayRestart, Fault
<1>2. RestTyped' /\ TableOK'
  BY <1>0, <1>1, CommandPathAssumption DEF RestTyped, TableOK
<1>3. Shrunk([q \in Places |-> IF q \in GatewayPlaces THEN Len(queue[q]) ELSE 0])
  BY <1>0, <1>1, ClearShrinks DEF Places
<1>4. ASSUME NEW q \in Places, NEW m \in Cmds, NEW i \in Positions(q), m = queue[q][i],
             i > [u \in Places |-> IF u \in GatewayPlaces THEN Len(queue[u]) ELSE 0][q]
      PROVE  Belongs(m, q)'
  <2>1. q \notin GatewayPlaces
    BY <1>0, <1>4, PositionsOf
  <2>2. Belongs(m, q)
    BY <1>0, <1>4 DEF QueueInv, AllBelong
  <2>3. \A b \in Conns : q # Channel(b) /\ q # Flight(b)
    BY <2>1 DEF GatewayPlaces
  <2> QED
    BY <1>1, <2>2, <2>3
    DEF Belongs, UplinkPlaces, SendMsgList, Taken, Wire, Buffer, Channel, Flight, Device
<1>5. QueueTyped' /\ QueueInv'
  BY <1>0, <1>1, <1>3, <1>4, ShrunkKeeps
<1> QED
  BY <1>2, <1>5, PartsNext

LEMMA RmiRestartKeeps ==
  ASSUME Inv, RmiRestart
  PROVE  Inv'
<1>0. /\ RestTyped /\ QueueTyped /\ TableOK /\ QueueInv /\ TypeOK
      /\ queue \in [Places -> Seq(Cmds)]
  BY Parts DEF Inv, QueueTyped
<1>1. /\ sender' = {} /\ broken' \subseteq broken \union live
      /\ Clear(RmiPlaces) /\ UNCHANGED <<current, live, stale, count, number, via>>
      /\ faults < MaxFaults /\ faults' = faults + 1
  BY DEF RmiRestart, CloseShared, Fault
<1>2. RestTyped' /\ TableOK'
  BY <1>0, <1>1, CommandPathAssumption DEF RestTyped, TableOK
<1>3. Shrunk([q \in Places |-> IF q \in RmiPlaces THEN Len(queue[q]) ELSE 0])
  BY <1>0, <1>1, ClearShrinks DEF Places
<1>4. \A q \in Places, m \in Cmds : \A i \in Positions(q) :
         m = queue[q][i] => Belongs(m, q)'
  BY <1>0, <1>1, UnchangedBelongs DEF QueueInv, AllBelong
<1>5. QueueTyped' /\ QueueInv'
  BY <1>0, <1>1, <1>3, <1>4, ShrunkKeeps
<1> QED
  BY <1>2, <1>5, PartsNext

\* The actions that leave the commands where they are.
LEMMA QuietKeeps ==
  ASSUME Inv, \/ UNCHANGED vars \/ \E c \in Conns : SenderEnds(c) \/ Break(c)
              \/ \E k \in Keys : StaleThrd(k) /\ ~ClientClose(k)
  PROVE  Inv'
<1>0. RestTyped /\ QueueTyped /\ TableOK /\ QueueInv /\ TypeOK
  BY Parts DEF Inv
<1>1. /\ UNCHANGED <<current, live, queue, count, number, via>>
      /\ sender' \subseteq sender /\ broken' \subseteq broken \union live
      /\ stale' \subseteq stale /\ faults' \in 0..MaxFaults
  BY <1>0, CommandPathAssumption
  DEF vars, SenderEnds, CloseShared, Break, Fault, Up, StaleThrd, RestTyped
<1>2. RestTyped' /\ TableOK'
  BY <1>0, <1>1 DEF RestTyped, TableOK
<1>3. QueueTyped' /\ QueueInv'
  BY <1>0, <1>1, StayBelongs, IdleKeeps
<1> QED
  BY <1>2, <1>3, PartsNext

LEMMA InitInv == Init => Inv
<1> SUFFICES ASSUME Init PROVE Inv
  OBVIOUS
<1>1. /\ queue \in [Places -> Seq(Cmds)]
      /\ \A p \in Places : queue[p] = <<>> /\ Positions(p) = {} /\ Len(queue[p]) = 0
  BY DEF Init, Positions
<1>2. RestTyped /\ TableOK
  BY CommandPathAssumption DEF Init, Table!Init, RestTyped, TableOK
<1>3. QueueTyped
  BY <1>1, PlacesOf DEF QueueTyped
<1>4. Once /\ AllBelong /\ LastAreQueued /\ InLine
  BY <1>1, PlacesOf DEF Once, AllBelong, LastAreQueued, InLine
<1>5. Numbered
  BY <1>1 DEF Numbered, Init
<1> QED
  BY <1>2, <1>3, <1>4, <1>5, Parts DEF QueueInv

LEMMA NextInv == Inv /\ [Next]_vars => Inv'
<1> SUFFICES ASSUME Inv, [Next]_vars PROVE Inv'
  OBVIOUS
<1>1. ASSUME NEW m \in Cmds, Client(m) PROVE Inv'
  BY <1>1, ClientKeeps
<1>2. ASSUME NEW c \in Conns, Reconnect(c) PROVE Inv'
  BY <1>2, ReconnectKeeps
<1>3. ASSUME NEW c \in Conns, SendThrd(c) PROVE Inv'
  BY <1>3, TakeKeeps, WriteKeeps DEF SendThrd
<1>4. ASSUME NEW c \in Conns, Session(c) PROVE Inv'
  BY <1>4, RecvReadKeeps, SetRecvMsgListKeeps, ChannelTakeKeeps, ReceiveKeeps
  DEF Session, RecvThrd
<1>6. ASSUME NEW c \in Conns, NEW d \in Devices, DeviceLogin(d, c) PROVE Inv'
  BY <1>6, DeviceLoginKeeps
<1>7. CASE DisPatch
  BY <1>7, DisPatchKeeps
<1>8. ASSUME NEW k \in Keys, Evict(k) \/ LoginAgain(k) \/ StaleThrd(k) PROVE Inv'
  BY <1>8, ClientCloseKeeps, QuietKeeps DEF Evict, LoginAgain
<1>9. CASE UNCHANGED vars \/ \E c \in Conns : SenderEnds(c) \/ Break(c)
  BY <1>9, QuietKeeps
<1>10. CASE GatewayRestart \/ RmiRestart
  BY <1>10, GatewayRestartKeeps, RmiRestartKeeps
<1> QED
  BY <1>1, <1>2, <1>3, <1>4, <1>6, <1>7, <1>8, <1>9, <1>10 DEF Next

LEMMA Invariance == Spec => []Inv
BY InitInv, NextInv, PTL DEF Spec

\* Every variable of the path has its type: no send thread holds more than one
\* frame, and no client counts as gone that has no session (SendThrd and the
\* session table of TcpSvr).
THEOREM CommandPathTypeCorrect == Spec => []TypeOK
<1>1. Inv => TypeOK
  BY DEF Inv
<1> QED
  BY <1>1, Invariance, PTL

\* Commands for one device reach it in the order in which the web submitted them,
\* unless the RMI server reconnected between them (the queues of TPCClient and
\* TcpSvr, their threads, and MsgCtrl).
THEOREM CommandsKeepTheirOrder == Spec => []OvertakenOnlyByReconnect
<1>1. ASSUME Inv PROVE OvertakenOnlyByReconnect
  <2> SUFFICES ASSUME NEW d \in Devices, NEW i \in DOMAIN queue[Device(d)],
                      NEW j \in DOMAIN queue[Device(d)], i < j,
                      number[queue[Device(d)][j]] < number[queue[Device(d)][i]],
                      via[queue[Device(d)][i]] = via[queue[Device(d)][j]]
               PROVE  FALSE
    BY DEF OvertakenOnlyByReconnect
  <2>1. /\ QueueInv /\ Device(d) \in Places \ {SendMsgList}
        /\ i \in Positions(Device(d)) /\ j \in Positions(Device(d)) /\ i \in Nat /\ j \in Nat
    BY <1>1, Parts, PlacesOf, RankOf, PositionsOf DEF Positions, QueueTyped
  <2>2. Target[queue[Device(d)][i]] = d /\ Target[queue[Device(d)][j]] = d
    BY <2>1 DEF QueueInv, AllBelong, Belongs
  <2>3. j < i
    BY <2>1, <2>2 DEF QueueInv, InLine
  <2> QED
    BY <2>1, <2>3
<1> QED
  BY <1>1, Invariance, PTL

-----------------------------------------------------------------------------
(* The path implements Courier *)

LEMMA TransitOf ==
  ASSUME NEW m
  PROVE  m \in InTransit
           <=> \E p \in Places \ DevicePlaces : \E i \in Positions(p) : m = queue[p][i]
BY DEF InTransit, In, Positions

LEMMA TransitNext ==
  ASSUME NEW m
  PROVE  m \in InTransit'
           <=> \E p \in Places \ DevicePlaces : \E i \in Positions(p)' : m = queue'[p][i]
BY DEF InTransit, In, Positions

LEMMA NotDevices ==
  /\ {SendMsgList, RecvMsgList} \subseteq Places \ DevicePlaces
  /\ \A c \in Conns : {Taken(c), Wire(c), Buffer(c), Channel(c), Flight(c)} \subseteq Places \ DevicePlaces
BY PlacesOf, RankOf DEF DevicePlaces

LEMMA DevicesDiffer ==
  ASSUME NEW d \in Devices, NEW e \in Devices, Device(d) = Device(e)
  PROVE  d = e
BY DEF Device

LEMMA TransitAccepted ==
  ASSUME Inv
  PROVE  InTransit \subseteq Accepted
<1> SUFFICES ASSUME NEW m \in InTransit PROVE m \in Accepted
  OBVIOUS
<1>1. PICK p \in Places \ DevicePlaces : \E i \in Positions(p) : m = queue[p][i]
  BY TransitOf
<1>2. PICK i \in Positions(p) : m = queue[p][i]
  BY <1>1
<1>3. m \in Cmds /\ number[m] # 0
  BY <1>2, PositionsOf, Parts DEF Inv, QueueTyped, QueueInv, Numbered
<1> QED
  BY <1>3 DEF Accepted

\* A command that moves is under way before and after, but for the last move.
LEMMA MovedTransit ==
  ASSUME queue \in [Places -> Seq(Cmds)], NEW p, NEW r, NEW n, Moved(p, r, n),
         p \notin DevicePlaces, r \notin DevicePlaces
  PROVE  /\ InTransit' = InTransit
         /\ \A d \in Devices : queue'[Device(d)] = queue[Device(d)]
<1>0. /\ p \in Places /\ r \in Places /\ p # r
      /\ n \in Nat /\ Len(queue[p]) \in Nat /\ Len(queue[r]) \in Nat
      /\ Len(queue'[p]) = Len(queue[p]) - n /\ Len(queue'[r]) = Len(queue[r]) + n
      /\ queue' \in [Places -> Seq(Cmds)]
      /\ \A q \in Places \ {p, r} : queue'[q] = queue[q]
  BY PositionsOf DEF Moved
<1>1. ASSUME NEW m \in InTransit' PROVE m \in InTransit
  <2>1. PICK q \in Places \ DevicePlaces : \E j \in Positions(q)' : m = queue'[q][j]
    BY TransitNext
  <2>2. PICK j \in Positions(q)' : m = queue'[q][j]
    BY <2>1
  <2>3. /\ FromPlace(q, j, p, r) \in Places
        /\ FromPosition(q, j, p, r, n) \in Positions(FromPlace(q, j, p, r))
        /\ m = queue[FromPlace(q, j, p, r)][FromPosition(q, j, p, r, n)]
    BY <2>2, MovedOrigin
  <2>4. FromPlace(q, j, p, r) \notin DevicePlaces
    BY DEF FromPlace
  <2> QED
    BY <2>3, <2>4, TransitOf
<1>2. ASSUME NEW m \in InTransit PROVE m \in InTransit'
  <2>1. PICK q \in Places \ DevicePlaces : \E i \in Positions(q) : m = queue[q][i]
    BY TransitOf
  <2>2. PICK i \in Positions(q) : m = queue[q][i]
    BY <2>1
  <2>3. i \in Nat /\ i >= 1 /\ i <= Len(queue[q]) /\ Len(queue[q]) \in Nat
    BY <2>2, PositionsOf
  <2>4. CASE q = p /\ i > n
    <3>1. i - n \in 1..Len(queue[p]) - n /\ (i - n) + n = i
      BY <1>0, <2>3, <2>4
    <3>2. queue'[p][i - n] = queue[p][i] /\ i - n \in Positions(p)'
      BY <1>0, <3>1, PositionsNext DEF Moved
    <3> QED
      BY <3>2, <2>2, <2>4, <1>0, TransitNext
  <2>5. CASE q = p /\ ~(i > n)
    <3>1. i \in 1..n /\ Len(queue[r]) + i \in 1..Len(queue'[r])
      BY <1>0, <2>3, <2>5
    <3>2. queue'[r][Len(queue[r]) + i] = queue[p][i] /\ Len(queue[r]) + i \in Positions(r)'
      BY <1>0, <3>1, PositionsNext DEF Moved
    <3> QED
      BY <3>2, <2>2, <2>5, <1>0, TransitNext
  <2>6. CASE q = r
    <3>1. i \in 1..Len(queue[r]) /\ i \in 1..Len(queue'[r])
      BY <1>0, <2>3, <2>6
    <3>2. queue'[r][i] = queue[r][i] /\ i \in Positions(r)'
      BY <1>0, <3>1, PositionsNext DEF Moved
    <3> QED
      BY <3>2, <2>2, <2>6, <1>0, TransitNext
  <2>7. CASE q # p /\ q # r
    <3>1. queue'[q] = queue[q] /\ i \in Positions(q)'
      BY <1>0, <2>7, <2>2 DEF Positions
    <3> QED
      BY <3>1, <2>2, TransitNext
  <2> QED
    BY <2>4, <2>5, <2>6, <2>7
<1>3. \A d \in Devices : queue'[Device(d)] = queue[Device(d)]
  BY <1>0, PlacesOf DEF DevicePlaces
<1> QED
  BY <1>1, <1>2, <1>3

\* With the last move a command is no longer under way.
LEMMA MovedToDevice ==
  ASSUME queue \in [Places -> Seq(Cmds)], Once, NEW p, NEW d \in Devices,
         Moved(p, Device(d), 1), p \notin DevicePlaces
  PROVE  /\ queue[p][1] \in InTransit
         /\ InTransit' = InTransit \ {queue[p][1]}
<1> DEFINE r == Device(d)
<1>0. /\ p \in Places /\ r \in Places /\ p # r /\ r \in DevicePlaces
      /\ Len(queue[p]) \in Nat /\ Len(queue[p]) >= 1
      /\ Len(queue'[p]) = Len(queue[p]) - 1
      /\ queue' \in [Places -> Seq(Cmds)]
      /\ \A q \in Places \ {p, r} : queue'[q] = queue[q]
  BY PositionsOf DEF Moved, DevicePlaces
<1>1. 1 \in Positions(p) /\ queue[p][1] \in InTransit
  BY <1>0, PositionsOf, TransitOf
<1>2. ASSUME NEW m \in InTransit' PROVE m \in InTransit /\ m # queue[p][1]
  <2>1. PICK q \in Places \ DevicePlaces : \E j \in Positions(q)' : m = queue'[q][j]
    BY TransitNext
  <2>2. PICK j \in Positions(q)' : m = queue'[q][j]
    BY <2>1
  <2>3. /\ FromPlace(q, j, p, r) \in Places
        /\ FromPosition(q, j, p, r, 1) \in Positions(FromPlace(q, j, p, r))
        /\ m = queue[FromPlace(q, j, p, r)][FromPosition(q, j, p, r, 1)]
    BY <2>2, MovedOrigin
  <2>4. q # r /\ j \in Nat /\ j >= 1
    BY <1>0, <2>2, PositionsNext
  <2>5. /\ FromPlace(q, j, p, r) = q
        /\ FromPosition(q, j, p, r, 1) = IF q = p THEN j + 1 ELSE j
    BY <2>4 DEF FromPlace, FromPosition
  <2>6. ~(FromPlace(q, j, p, r) = p /\ FromPosition(q, j, p, r, 1) = 1)
    BY <2>4, <2>5
  <2>7. m # queue[p][1]
    BY <1>0, <1>1, <2>3, <2>6 DEF Once
  <2> QED
    BY <2>3, <2>5, <2>7, TransitOf
<1>3. ASSUME NEW m \in InTransit, m # queue[p][1] PROVE m \in InTransit'
  <2>1. PICK q \in Places \ DevicePlaces : \E i \in Positions(q) : m = queue[q][i]
    BY TransitOf
  <2>2. PICK i \in Positions(q) : m = queue[q][i]
    BY <2>1
  <2>3. i \in Nat /\ i >= 1 /\ i <= Len(queue[q])
    BY <2>2, PositionsOf
  <2>4. CASE q = p
    <3>1. i # 1
      BY <1>3, <2>2, <2>4
    <3>2. i - 1 \in 1..Len(queue[p]) - 1 /\ (i - 1) + 1 = i
      BY <1>0, <2>3, <2>4, <3>1
    <3>3. queue'[p][i - 1] = queue[p][i] /\ i - 1 \in Positions(p)'
      BY <1>0, <3>2, PositionsNext DEF Moved
    <3> QED
      BY <3>3, <2>2, <2>4, <1>0, TransitNext
  <2>5. CASE q # p
    <3>1. queue'[q] = queue[q] /\ i \in Positions(q)'
      BY <1>0, <2>5, <2>2 DEF Positions
    <3> QED
      BY <3>1, <2>2, TransitNext
  <2> QED
    BY <2>4, <2>5
<1> QED
  BY <1>1, <1>2, <1>3

LEMMA ShrunkTransit ==
  ASSUME queue \in [Places -> Seq(Cmds)], NEW k, Shrunk(k)
  PROVE  InTransit' \subseteq InTransit
<1> SUFFICES ASSUME NEW m \in InTransit' PROVE m \in InTransit
  OBVIOUS
<1>1. PICK q \in Places \ DevicePlaces : \E j \in Positions(q)' : m = queue'[q][j]
  BY TransitNext
<1>2. PICK j \in Positions(q)' : m = queue'[q][j]
  BY <1>1
<1>3. j + k[q] \in Positions(q) /\ m = queue[q][j + k[q]]
  BY <1>2, ShrunkOrigin
<1> QED
  BY <1>3, TransitOf

\* What the devices received, and whether anything was submitted, is as before.
Quiet == /\ number' = number
         /\ \A d \in Devices : queue'[Device(d)] = queue[Device(d)]

LEMMA QuietLoses ==
  ASSUME Inv, Quiet, InTransit' \subseteq InTransit
  PROVE  [Contract!Next]_Contract!vars
<1>1. Accepted' = Accepted /\ InTransit \subseteq Accepted
  BY TransitAccepted DEF Quiet, Accepted
<1>2. [d \in Devices |-> queue[Device(d)]]' = [d \in Devices |-> queue[Device(d)]]
  BY DEF Quiet
<1>3. PICK S \in SUBSET InTransit : S = InTransit \ InTransit'
  OBVIOUS
<1>4. /\ InTransit' = InTransit \ S
      /\ (Accepted \ InTransit)' = (Accepted \ InTransit) \union S
  BY <1>1, <1>3
<1>5. Contract!Lose(S)
  BY <1>2, <1>4 DEF Contract!Lose, Contract!Settle
<1> QED
  BY <1>5 DEF Contract!Next

LEMMA MoveIsQuiet ==
  ASSUME Inv, number' = number, NEW p \in Places \ DevicePlaces,
         NEW r \in Places \ DevicePlaces, NEW n, Moved(p, r, n)
  PROVE  [Contract!Next]_Contract!vars
BY MovedTransit, QuietLoses, Parts DEF Quiet, Inv, QueueTyped

LEMMA DropIsQuiet ==
  ASSUME Inv, number' = number, NEW p \in Places \ DevicePlaces, Drop(p)
  PROVE  [Contract!Next]_Contract!vars
<1>1. queue \in [Places -> Seq(Cmds)]
  BY Parts DEF Inv, QueueTyped
<1>2. InTransit' \subseteq InTransit
  BY <1>1, DropShrinks, ShrunkTransit
<1>3. Quiet
  BY <1>1, PlacesOf DEF Quiet, Drop, DevicePlaces
<1> QED
  BY <1>2, <1>3, QuietLoses

LEMMA ClearIsQuiet ==
  ASSUME Inv, number' = number, NEW P \in SUBSET (Places \ DevicePlaces), Clear(P)
  PROVE  [Contract!Next]_Contract!vars
<1>1. queue \in [Places -> Seq(Cmds)]
  BY Parts DEF Inv, QueueTyped
<1>2. InTransit' \subseteq InTransit
  BY <1>1, ClearShrinks, ShrunkTransit
<1>3. Quiet
  BY <1>1, PlacesOf DEF Quiet, Clear, DevicePlaces
<1> QED
  BY <1>2, <1>3, QuietLoses

LEMMA StayIsQuiet ==
  ASSUME Inv, UNCHANGED <<queue, number>>
  PROVE  [Contract!Next]_Contract!vars
<1>1. InTransit' = InTransit /\ Quiet
  BY DEF InTransit, In, Quiet
<1> QED
  BY <1>1, QuietLoses

LEMMA ClientAccepts ==
  ASSUME Inv, NEW m \in Cmds, Client(m)
  PROVE  Contract!Accept(m)
<1>0. /\ queue \in [Places -> Seq(Cmds)] /\ SendMsgList \in Places \ DevicePlaces
      /\ number \in [Cmds -> Nat] /\ count \in Nat
  BY Parts, NotDevices DEF Inv, QueueTyped, TypeOK
<1>1. /\ number[m] = 0 /\ number' = [number EXCEPT ![m] = count + 1]
      /\ queue' = [queue EXCEPT ![SendMsgList] = Append(@, m)]
  BY DEF Client
<1>2. InTransit \subseteq Accepted /\ m \notin Accepted
  BY <1>1, TransitAccepted DEF Accepted
<1>3. Accepted' = Accepted \union {m}
  BY <1>0, <1>1 DEF Accepted
<1>4. In(SendMsgList)' = In(SendMsgList) \union {m}
  <2>1. queue'[SendMsgList] = Append(queue[SendMsgList], m)
    BY <1>0, <1>1
  <2>2. PICK t \in Seq(Cmds) : t = queue[SendMsgList]
    BY <1>0
  <2>3. {Append(t, m)[i] : i \in DOMAIN Append(t, m)} = {t[i] : i \in DOMAIN t} \union {m}
    <3>1. /\ DOMAIN Append(t, m) = 1..(Len(t) + 1) /\ DOMAIN t = 1..Len(t) /\ Len(t) \in Nat
          /\ Append(t, m)[Len(t) + 1] = m
          /\ \A i \in 1..Len(t) : Append(t, m)[i] = t[i]
      OBVIOUS
    <3> QED
      BY <3>1
  <2> QED
    BY <2>1, <2>2, <2>3 DEF In
<1>5. \A p \in Places \ {SendMsgList} : In(p)' = In(p)
  BY <1>0, <1>1 DEF In
<1>6. InTransit' = InTransit \union {m}
  BY <1>0, <1>4, <1>5 DEF InTransit
<1>7. [d \in Devices |-> queue[Device(d)]]' = [d \in Devices |-> queue[Device(d)]]
  BY <1>0, <1>1, PlacesOf DEF DevicePlaces
<1> QED
  BY <1>2, <1>3, <1>6, <1>7 DEF Contract!Accept

LEMMA DeviceDelivers ==
  ASSUME Inv, NEW c \in Conns, NEW d \in Devices, current[d] = c,
         Move(Flight(c), Device(d)), number' = number
  PROVE  \E m \in Cmds : Contract!Deliver(m)
<1>0. /\ queue \in [Places -> Seq(Cmds)] /\ Flight(c) \in Places \ DevicePlaces
      /\ Device(d) \in Places /\ Device(d) \in DevicePlaces
      /\ TypeOK /\ TableOK /\ QueueInv
  BY Parts, NotDevices, PlacesOf DEF Inv, QueueTyped, DevicePlaces
<1>1. Moved(Flight(c), Device(d), 1)
  BY <1>0, MoveMoves
<1>2. 1 \in Positions(Flight(c))
  BY <1>0, <1>1, PositionsOf DEF Moved
<1>3. PICK m \in Cmds : m = queue[Flight(c)][1]
  BY <1>0, <1>2, PositionsOf
<1>4. m \in InTransit /\ InTransit' = InTransit \ {m}
  BY <1>0, <1>1, <1>3, MovedToDevice DEF QueueInv
<1>5. Target[m] = d
  <2>1. Belongs(m, Flight(c))
    BY <1>0, <1>2, <1>3 DEF QueueInv, AllBelong
  <2> QED
    BY <1>0, <2>1, CommandPathAssumption DEF Belongs, TableOK, Keys
<1>6. Accepted' = Accepted /\ InTransit \subseteq Accepted
  BY TransitAccepted DEF Accepted
<1>7. (Accepted \ InTransit)' = (Accepted \ InTransit) \union {m}
  BY <1>4, <1>6
<1>8. queue'[Device(d)] = Append(queue[Device(d)], m)
  BY <1>0, <1>3 DEF Move
<1>9. \A e \in Devices \ {d} : queue'[Device(e)] = queue[Device(e)]
  BY <1>0, DevicesDiffer, PlacesOf DEF Move, DevicePlaces
<1>10. [e \in Devices |-> queue[Device(e)]]'
         = [[e \in Devices |-> queue[Device(e)]] EXCEPT
              ![Target[m]] = Append(@, m)]
  BY <1>5, <1>8, <1>9
<1>11. Contract!Deliver(m)
  BY <1>4, <1>7, <1>10 DEF Contract!Deliver, Contract!Settle
<1> QED
  BY <1>11

LEMMA CourierStep == Inv /\ [Next]_vars => [Contract!Next]_Contract!vars
<1> SUFFICES ASSUME Inv, [Next]_vars PROVE [Contract!Next]_Contract!vars
  OBVIOUS
<1>0. queue \in [Places -> Seq(Cmds)]
  BY Parts DEF Inv, QueueTyped
<1>1. ASSUME NEW m \in Cmds, Client(m) PROVE [Contract!Next]_Contract!vars
  BY <1>1, ClientAccepts DEF Contract!Next
<1>2. ASSUME NEW c \in Conns, Reconnect(c) PROVE [Contract!Next]_Contract!vars
  BY <1>2, StayIsQuiet DEF Reconnect
<1>3. ASSUME NEW c \in Conns, Take(c) PROVE [Contract!Next]_Contract!vars
  <2>1. Moved(SendMsgList, Taken(c), 1) /\ number' = number
    BY <1>0, <1>3, RankOf, PlacesOf, MoveMoves DEF Take
  <2> QED
    BY <2>1, NotDevices, MoveIsQuiet
<1>4. ASSUME NEW c \in Conns, Write(c) PROVE [Contract!Next]_Contract!vars
  <2>1. CASE Move(Taken(c), Wire(c))
    <3>1. Moved(Taken(c), Wire(c), 1) /\ number' = number
      BY <1>0, <1>4, <2>1, RankOf, PlacesOf, MoveMoves DEF Write
    <3> QED
      BY <3>1, NotDevices, MoveIsQuiet
  <2>2. CASE Drop(Taken(c))
    BY <1>4, <2>2, NotDevices, DropIsQuiet DEF Write
  <2> QED
    BY <1>4, <2>1, <2>2 DEF Write
<1>5. ASSUME NEW c \in Conns, RecvRead(c) PROVE [Contract!Next]_Contract!vars
  <2>1. PICK n : Moved(Wire(c), Buffer(c), n)
    BY <1>5, RecvReadMoves
  <2>2. number' = number
    BY <1>5 DEF RecvRead
  <2> QED
    BY <2>1, <2>2, NotDevices, MoveIsQuiet
<1>6. ASSUME NEW c \in Conns, SetRecvMsgList(c) PROVE [Contract!Next]_Contract!vars
  <2>1. Moved(Buffer(c), RecvMsgList, 1) /\ number' = number
    BY <1>0, <1>6, RankOf, PlacesOf, MoveMoves DEF SetRecvMsgList
  <2> QED
    BY <2>1, NotDevices, MoveIsQuiet
<1>7. ASSUME NEW c \in Conns, ChannelTake(c) PROVE [Contract!Next]_Contract!vars
  <2>1. Moved(Channel(c), Flight(c), 1) /\ number' = number
    BY <1>0, <1>7, RankOf, PlacesOf, MoveMoves DEF ChannelTake
  <2> QED
    BY <2>1, NotDevices, MoveIsQuiet
<1>a. ASSUME NEW c \in Conns, Receive(c) PROVE [Contract!Next]_Contract!vars
  BY <1>a, DeviceDelivers DEF Receive, Contract!Next
<1>8. CASE DisPatch
  <2> DEFINE s == current[Target[Head(queue[RecvMsgList])]]
  <2>1. number' = number
    BY <1>8 DEF DisPatch
  <2>2. CASE Drop(RecvMsgList)
    BY <2>1, <2>2, NotDevices, DropIsQuiet
  <2>3. CASE s # None /\ Move(RecvMsgList, Channel(s))
    <3>1. Head(queue[RecvMsgList]) \in Cmds
      BY <1>0, <2>3, PlacesOf DEF Move
    <3>2. s \in Conns
      BY <2>3, <3>1, CommandPathAssumption DEF Inv, TypeOK, Keys
    <3>3. PICK c \in Conns : c = s
      BY <3>2
    <3>4. Moved(RecvMsgList, Channel(c), 1)
      BY <1>0, <2>3, <3>3, RankOf, PlacesOf, MoveMoves
    <3> QED
      BY <2>1, <3>4, NotDevices, MoveIsQuiet
  <2> QED
    BY <1>8, <2>2, <2>3 DEF DisPatch
<1>9. ASSUME NEW c \in Conns, NEW d \in Devices, DeviceLogin(d, c)
      PROVE  [Contract!Next]_Contract!vars
  BY <1>9, StayIsQuiet DEF DeviceLogin
<1>10. ASSUME NEW k \in Keys, ClientClose(k) PROVE [Contract!Next]_Contract!vars
  <2>1. current[k] \in Conns
    BY <1>10 DEF Inv, TypeOK, ClientClose, Table!Logout
  <2>2. {Wire(current[k]), Channel(current[k]), Flight(current[k])} \subseteq Places \ DevicePlaces
    BY <2>1, NotDevices
  <2> QED
    BY <1>10, <2>2, ClearIsQuiet DEF ClientClose
<1>11. CASE \/ UNCHANGED vars \/ \E c \in Conns : SenderEnds(c) \/ Break(c)
            \/ \E k \in Keys : StaleThrd(k) /\ ~ClientClose(k)
  BY <1>11, StayIsQuiet DEF vars, SenderEnds, Break, StaleThrd
<1>12. CASE GatewayRestart \/ RmiRestart
  <2>1. GatewayPlaces \subseteq Places \ DevicePlaces /\ RmiPlaces \subseteq Places \ DevicePlaces
    BY NotDevices DEF GatewayPlaces, RmiPlaces
  <2> QED
    BY <1>12, <2>1, ClearIsQuiet DEF GatewayRestart, RmiRestart
<1> QED
  BY <1>1, <1>2, <1>3, <1>4, <1>5, <1>6, <1>7, <1>a, <1>8, <1>9, <1>10, <1>11, <1>12
  DEF Next, SendThrd, RecvThrd, Session, Evict, LoginAgain

LEMMA CourierInit == Init => Contract!Init
<1> SUFFICES ASSUME Init PROVE Contract!Init
  OBVIOUS
<1>1. \A p \in Places : In(p) = {} /\ queue[p] = <<>>
  BY DEF Init, In
<1>2. InTransit = {} /\ Accepted = {}
  BY <1>1 DEF InTransit, Accepted, Init
<1>3. [d \in Devices |-> queue[Device(d)]] = [d \in Devices |-> <<>>]
  BY <1>1, PlacesOf
<1> QED
  BY <1>2, <1>3 DEF Contract!Init

\* Whatever fails or restarts, an accepted command reaches its own device once or
\* is lost: the way of a command from RmiImpl.Client to the send thread of the
\* device's session implements the courier.
THEOREM CommandPathImplementsCourier == Spec => ImplementsCourier
BY CourierInit, CourierStep, Invariance, PTL DEF Spec, Contract!Spec, ImplementsCourier
=============================================================================
