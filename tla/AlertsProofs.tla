---------------------------- MODULE AlertsProofs ----------------------------
(***************************************************************************)
(* Proofs about Alerts, for every set of gateways, devices, attributes and *)
(* operators, every bound and every set of faults.                         *)
(*                                                                         *)
(* StoreFollowsReports is not inductive: between a report's arrival and    *)
(* the end of its statements the tables lag behind.  What carries it       *)
(* through (Inv) is that the last report queued for a key is what was last *)
(* reported of it, that the statements of a report leave their part of the *)
(* effect behind them (Underway), and that operators only ever shrink the  *)
(* set of open rows.  The refinement rests on RowsOK: a row is open exactly *)
(* as long as nobody is entered as its operator.  AnsweredIsHandled rests   *)
(* on NowOK and RequestsOK: an sn of alert_now belongs to one key.          *)
(***************************************************************************)
EXTENDS Alerts, SequenceTheorems, TLAPS

\* A row's operator and its status say the same.
RowsOK ==
  \A i \in DOMAIN alert_info :
    /\ alert_info[i].status = "0" <=> alert_info[i].operator = None
    /\ alert_info[i].status = "2" <=> alert_info[i].operator = AUTO

\* The sn of a row of alert_now tells its key.
NowOK ==
  \A k \in Keys : alert_now[k] # NoRow =>
    alert_now[k].sn \in DOMAIN alert_info /\ alert_info[alert_now[k].sn].key = k

\* Who deals with an alert has a key, the SN of a row of that key, and has seen
\* nothing that is not in the log.
RequestsOK ==
  \A o \in Operators :
    request[o].at # "idle" =>
      /\ request[o].key \in Keys
      /\ request[o].sn \in DOMAIN alert_info
      /\ alert_info[request[o].sn].key = request[o].key
      /\ request[o].seen \subseteq DOMAIN alert_info

\* MsgCtrl is at a statement that its report has.
StmtOK ==
  /\ stmt = "onoff" => report.key \in Gateways
  /\ stmt \in {"data", "data_now"} => report.key \in Attrs
  /\ stmt = "insert" => report.kind = "raise"
  /\ stmt \in {"info", "now"} => report.kind = "clear"

Queued(k) == \E i \in DOMAIN inbox : inbox[i].key = k

\* The last report about k in the inbox, or else the one being executed, is
\* the last one made.
LastIsReported(k) ==
  /\ \A i \in DOMAIN inbox :
       inbox[i].key = k /\ (\A j \in DOMAIN inbox : inbox[j].key = k => j <= i)
         => inbox[i].kind = reported[k]
  /\ stmt # "idle" /\ report.key = k /\ ~Queued(k) => report.kind = reported[k]

\* What the statements of the report being executed have done so far.
Underway(k) ==
  stmt # "idle" /\ report.key = k /\ ~failed[k] =>
    /\ k \in Gateways /\ stmt # "onoff" => onoff[k] = IF report.kind = "raise" THEN "1" ELSE "0"
    /\ stmt = "now" => OpenRows(k) = {}

KeyInv(k) ==
  /\ LastIsReported(k)
  /\ Underway(k)
  /\ ~Pending(k) /\ ~failed[k] => Stored(k)

Inv == /\ TypeOK /\ RowsOK /\ NowOK /\ RequestsOK /\ StmtOK
       /\ \A k \in Keys : KeyInv(k)
       /\ AnsweredIsHandled

-----------------------------------------------------------------------------
(* What the statements do to the rows *)

LEMMA SeqOfFunction ==
  ASSUME NEW S, NEW n \in Nat, NEW f \in [1..n -> S]
  PROVE  f \in Seq(S) /\ DOMAIN f = 1..n /\ Len(f) = n
BY IsASeq, LenProperties

\* Closing rows changes them and nothing else.
LEMMA CloseRowsEffect ==
  ASSUME TypeOK, NEW S, NEW status \in {"1", "2"}, NEW who \in Operators \union {AUTO},
         CloseRows(S, status, who)
  PROVE  /\ alert_info' \in Seq(Row)
         /\ DOMAIN alert_info' = DOMAIN alert_info
         /\ \A i \in DOMAIN alert_info :
              /\ alert_info'[i].key = alert_info[i].key
              /\ i \notin S => alert_info'[i] = alert_info[i]
              /\ i \in S => alert_info'[i].status = status /\ alert_info'[i].operator = who
<1>1. Len(alert_info) \in Nat /\ DOMAIN alert_info = 1..Len(alert_info)
  BY LenProperties DEF TypeOK
<1>2. \A i \in DOMAIN alert_info : alert_info[i] \in Row
  BY <1>1, ElementOfSeq DEF TypeOK
<1>3. ASSUME NEW i \in DOMAIN alert_info
      PROVE  [alert_info[i] EXCEPT !.status = status, !.operator = who] \in Row
  BY <1>2, <1>3 DEF Row
<1>4. alert_info' = [i \in 1..Len(alert_info) |->
                       IF i \in S
                         THEN [alert_info[i] EXCEPT !.status = status, !.operator = who]
                         ELSE alert_info[i]]
  BY <1>1 DEF CloseRows
<1>5. alert_info' \in [1..Len(alert_info) -> Row]
  BY <1>1, <1>2, <1>3, <1>4
<1>6. alert_info' \in Seq(Row) /\ DOMAIN alert_info' = DOMAIN alert_info
  BY <1>1, <1>5, SeqOfFunction
<1> QED
  BY <1>1, <1>2, <1>4, <1>6 DEF Row

LEMMA InsertEffect ==
  ASSUME TypeOK, NEW k \in Keys, Insert(k)
  PROVE  /\ alert_info' \in Seq(Row)
         /\ Len(alert_info) \in Nat
         /\ DOMAIN alert_info = 1..Len(alert_info)
         /\ DOMAIN alert_info' = 1..(Len(alert_info) + 1)
         /\ \A i \in DOMAIN alert_info : alert_info'[i] = alert_info[i]
         /\ alert_info'[Len(alert_info) + 1] = [key |-> k, status |-> "0", operator |-> None]
         /\ Len(alert_info') = Len(alert_info) + 1
<1>1. [key |-> k, status |-> "0", operator |-> None] \in Row
  BY DEF Row
<1>2. Len(alert_info) \in Nat /\ DOMAIN alert_info = 1..Len(alert_info)
  BY LenProperties DEF TypeOK
<1> QED
  BY <1>1, <1>2, AppendProperties DEF TypeOK, Insert

LEMMA TriggerEffect ==
  ASSUME TypeOK, NEW k \in Keys, Insert(k), Trigger(k)
  PROVE  /\ alert_now' \in [Keys -> NowRow]
         /\ \A q \in Keys \ {k} : alert_now'[q] = alert_now[q]
         /\ alert_now'[k].status = "0"
         /\ \/ alert_now'[k].sn = Len(alert_info) + 1
            \/ alert_now[k] # NoRow /\ alert_now'[k].sn = alert_now[k].sn
<1>1. Len(alert_info') = Len(alert_info) + 1 /\ Len(alert_info) \in Nat
  BY InsertEffect
<1>2. PICK sn : /\ alert_now' = [alert_now EXCEPT ![k] = [sn |-> sn, status |-> "0", operator |-> None]]
                /\ sn = Len(alert_info) + 1 \/ (alert_now[k] # NoRow /\ sn = alert_now[k].sn)
  BY <1>1 DEF Trigger
<1>3. alert_now[k].sn \in Nat /\ sn \in Nat
  BY <1>1, <1>2 DEF TypeOK, NowRow
<1>4. [sn |-> sn, status |-> "0", operator |-> None] \in NowRow
  BY <1>3 DEF NowRow
<1> QED
  BY <1>2, <1>4 DEF TypeOK

-----------------------------------------------------------------------------
(* Types *)

LEMMA RequestUpdate ==
  ASSUME TypeOK, NEW o \in Operators, NEW at \in {"idle", "list", "listNow", "map", "mapInfo"},
         Goto(o, at)
  PROVE  /\ request' \in [Operators -> Request]
         /\ \A p \in Operators \ {o} : request'[p] = request[p]
         /\ request'[o].at = at /\ request'[o].lost = FALSE
         /\ request'[o].key = request[o].key /\ request'[o].sn = request[o].sn
         /\ request'[o].seen = request[o].seen
BY DEF TypeOK, Goto, Request

LEMMA RequestDone ==
  ASSUME TypeOK, NEW o \in Operators, Done(o)
  PROVE  /\ request' \in [Operators -> Request]
         /\ \A p \in Operators \ {o} : request'[p] = request[p]
         /\ request'[o] = NoRequest
BY DEF TypeOK, Done, NoRequest, Request

LEMMA CloseNowEffect ==
  ASSUME TypeOK, NEW S, NEW status \in {"1", "2"}, NEW who \in Operators \union {AUTO},
         CloseNow(S, status, who)
  PROVE  /\ alert_now' \in [Keys -> NowRow]
         /\ \A q \in Keys :
              /\ alert_now'[q].sn = alert_now[q].sn
              /\ q \in S /\ alert_now[q].status = "0" =>
                   alert_now'[q].status = status /\ alert_now'[q].operator = who
              /\ ~(q \in S /\ alert_now[q].status = "0") => alert_now'[q] = alert_now[q]
<1>1. ASSUME NEW q \in Keys
      PROVE  /\ alert_now[q] \in NowRow
             /\ [alert_now[q] EXCEPT !.status = status, !.operator = who] \in NowRow
             /\ [alert_now[q] EXCEPT !.status = status, !.operator = who].sn = alert_now[q].sn
             /\ [alert_now[q] EXCEPT !.status = status, !.operator = who].status = status
             /\ [alert_now[q] EXCEPT !.status = status, !.operator = who].operator = who
  BY DEF TypeOK, NowRow
<1> QED
  BY <1>1 DEF CloseNow

\* Types hold at the start.
LEMMA TypeInit == Init => TypeOK
BY EmptySeq DEF Init, TypeOK, Stmts, Request, NoRequest, NoReport, NowRow, NoRow

-----------------------------------------------------------------------------
(* What operators do *)

\* A step of an operator as the tables see it: open rows may be closed by an
\* operator, and what the map shows as open may be shown as handled.
ByOperators ==
  /\ UNCHANGED <<serverVars, onoff>>
  /\ alert_info' \in Seq(Row)
  /\ alert_now' \in [Keys -> NowRow]
  /\ DOMAIN alert_info' = DOMAIN alert_info
  /\ \A i \in DOMAIN alert_info :
       \/ alert_info'[i] = alert_info[i]
       \/ /\ alert_info[i].status = "0"
          /\ alert_info'[i].key = alert_info[i].key
          /\ alert_info'[i].status = "1"
          /\ alert_info'[i].operator \in Operators
  /\ \A k \in Keys :
       \/ alert_now'[k] = alert_now[k]
       \/ /\ alert_now[k].status = "0" /\ alert_now'[k].status = "1"
          /\ alert_now'[k].sn = alert_now[k].sn

LEMMA OperatorsClose ==
  ASSUME TypeOK, NEW o \in Operators, NEW S, CloseRows(S, "1", o),
         \A i \in S : i \in DOMAIN alert_info => alert_info[i].status = "0",
         UNCHANGED <<serverVars, alert_now, onoff>>
  PROVE  /\ ByOperators
         /\ \A i \in DOMAIN alert_info : i \in S =>
              alert_info'[i].operator = o /\ alert_info'[i].status = "1"
<1>1. /\ alert_info' \in Seq(Row)
      /\ DOMAIN alert_info' = DOMAIN alert_info
      /\ \A i \in DOMAIN alert_info :
           /\ alert_info'[i].key = alert_info[i].key
           /\ i \notin S => alert_info'[i] = alert_info[i]
           /\ i \in S => alert_info'[i].status = "1" /\ alert_info'[i].operator = o
  BY CloseRowsEffect
<1>2. alert_info \in Seq(Row) /\ alert_now \in [Keys -> NowRow]
  BY DEF TypeOK
<1> QED
  BY <1>1, <1>2 DEF ByOperators, serverVars

LEMMA OperatorsCloseNow ==
  ASSUME TypeOK, NEW o \in Operators, NEW S, CloseNow(S, "1", o),
         UNCHANGED <<serverVars, alert_info, onoff>>
  PROVE  ByOperators
<1>1. /\ alert_now' \in [Keys -> NowRow]
      /\ \A q \in Keys :
           /\ alert_now'[q].sn = alert_now[q].sn
           /\ q \in S /\ alert_now[q].status = "0" => alert_now'[q].status = "1"
           /\ ~(q \in S /\ alert_now[q].status = "0") => alert_now'[q] = alert_now[q]
  BY CloseNowEffect
<1>2. alert_info \in Seq(Row) /\ alert_now \in [Keys -> NowRow]
  BY DEF TypeOK
<1> QED
  BY <1>1, <1>2 DEF ByOperators, serverVars

LEMMA OperatorsIdle ==
  ASSUME TypeOK, UNCHANGED <<serverVars, storeVars>>
  PROVE  ByOperators
<1>1. alert_info \in Seq(Row) /\ alert_now \in [Keys -> NowRow]
  BY DEF TypeOK
<1> QED
  BY <1>1 DEF ByOperators, serverVars, storeVars

\* Operators disturb nothing of what the server has done or has yet to do.
LEMMA OperatorsKeepKeyInv ==
  ASSUME Inv, ByOperators
  PROVE  RowsOK' /\ NowOK' /\ StmtOK' /\ \A k \in Keys : KeyInv(k)'
<1>0. AUTO \notin Operators /\ None \notin Operators
  BY AlertsAssumption
<1>1. RowsOK'
  BY <1>0 DEF Inv, ByOperators, RowsOK
<1>2. StmtOK'
  BY DEF Inv, ByOperators, StmtOK, serverVars
<1>4. NowOK'
  BY DEF Inv, ByOperators, NowOK, NoRow
<1>3. ASSUME NEW k \in Keys PROVE KeyInv(k)'
  <2>1. LastIsReported(k)'
    BY DEF Inv, KeyInv, ByOperators, LastIsReported, Queued, serverVars
  <2>2. OpenRows(k) = {} => OpenRows(k)' = {}
    BY DEF ByOperators, OpenRows, RowsOf
  <2>3. Underway(k)'
    BY <2>2 DEF Inv, KeyInv, ByOperators, Underway, serverVars
  <2>4. ASSUME Stored(k) PROVE Stored(k)'
    <3>1. CASE reported[k] = "clear"
      BY <2>2, <2>4, <3>1 DEF Stored, ByOperators, serverVars
    <3>2. CASE reported[k] # "clear"
      <4>1. PICK i \in DOMAIN alert_info :
              /\ alert_info[i].key = k
              /\ alert_info[i].operator # AUTO
              /\ \A j \in DOMAIN alert_info : alert_info[j].key = k => j <= i
        BY <2>4, <3>2 DEF Stored
      <4>2. /\ i \in DOMAIN alert_info'
            /\ alert_info'[i].key = k
            /\ alert_info'[i].operator # AUTO
            /\ \A j \in DOMAIN alert_info' : alert_info'[j].key = k => j <= i
        BY <1>0, <4>1 DEF ByOperators
      <4>3. alert_now'[k].status \in {"0", "1"}
        BY <2>4, <3>2 DEF Stored, ByOperators
      <4> QED
        BY <2>4, <3>2, <4>2, <4>3 DEF Stored, ByOperators, serverVars
    <3> QED
      BY <3>1, <3>2
  <2>5. Pending(k)' = Pending(k) /\ failed' = failed
    BY DEF ByOperators, Pending, serverVars
  <2> QED
    BY <2>1, <2>3, <2>4, <2>5 DEF Inv, KeyInv
<1> QED
  BY <1>1, <1>2, <1>3, <1>4

\* An operator who turns to a row or a key that exists, goes on with it or
\* leaves it, and is answered only when the row is his.
LEMMA OperatorsKeepRequests ==
  ASSUME Inv, ByOperators, NEW o \in Operators,
         request' \in [Operators -> Request],
         \A p \in Operators \ {o} : request'[p] = request[p],
         request'[o].at # "idle" =>
           /\ request'[o].key \in Keys
           /\ request'[o].sn \in DOMAIN alert_info
           /\ alert_info[request'[o].sn].key = request'[o].key
           /\ request'[o].seen \subseteq DOMAIN alert_info,
         request'[o].at = "listNow" /\ ~request'[o].lost =>
           /\ alert_info'[request'[o].sn].operator = o
           /\ alert_info'[request'[o].sn].status = "1",
         request'[o].at = "mapInfo" /\ ~request'[o].lost =>
           /\ alert_now'[request'[o].key].operator = o
           /\ alert_now'[request'[o].key].status = "1"
  PROVE  TypeOK' /\ RequestsOK' /\ AnsweredIsHandled'
<1>1. TypeOK'
  BY DEF Inv, TypeOK, ByOperators, serverVars
<1>2. RequestsOK'
  BY DEF Inv, RequestsOK, ByOperators
<1>3. AnsweredIsHandled'
  <2>1. CASE \A k \in Keys : RowsOf(k)' = RowsOf(k)
    <3> SUFFICES ASSUME NEW p \in Operators, ~request'[p].lost
                 PROVE  /\ request'[p].at = "listNow" =>
                             /\ alert_info'[request'[p].sn].operator = p
                             /\ alert_info'[request'[p].sn].status = "1"
                        /\ request'[p].at = "mapInfo" =>
                             \/ LoggedSince(p, request[p].key)'
                             \/ /\ alert_now'[request'[p].key].operator = p
                                /\ alert_now'[request'[p].key].status = "1"
      BY DEF AnsweredIsHandled
    <3>1. CASE p = o
      BY <3>1
    <3>2. CASE p # o /\ request[p].at = "listNow"
      <4>1. /\ request[p].sn \in DOMAIN alert_info
            /\ alert_info[request[p].sn].operator = p
            /\ alert_info[request[p].sn].status = "1"
        BY <3>2 DEF Inv, RequestsOK, AnsweredIsHandled
      <4> QED
        BY <3>2, <4>1 DEF ByOperators
    <3>3. CASE p # o /\ request[p].at = "mapInfo"
      <4>1. /\ request[p].key \in Keys
            /\ \/ LoggedSince(p, request[p].key)
               \/ /\ alert_now[request[p].key].operator = p
                  /\ alert_now[request[p].key].status = "1"
        BY <3>3 DEF Inv, RequestsOK, AnsweredIsHandled
      <4>2. LoggedSince(p, request[p].key) => LoggedSince(p, request[p].key)'
        BY <2>1, <3>3, <4>1 DEF LoggedSince
      <4> QED
        BY <3>3, <4>1, <4>2 DEF ByOperators
    <3> QED
      BY <3>1, <3>2, <3>3
  <2> QED
    BY <2>1 DEF RowsOf, ByOperators
<1> QED
  BY <1>1, <1>2, <1>3

LEMMA OperatorStep ==
  ASSUME Inv, NEW o \in Operators, Operator(o)
  PROVE  Inv'
<1>0. /\ TypeOK /\ RequestsOK /\ o \notin {AUTO, None}
      /\ request[o] \in Request
  BY AlertsAssumption DEF Inv, TypeOK
<1>1. CASE ListClick(o)
  <2>1. ByOperators
    BY <1>0, <1>1, OperatorsIdle DEF ListClick
  <2>2. PICK i \in DOMAIN alert_info :
          request' = [request EXCEPT ![o] =
            [at |-> "list", key |-> alert_info[i].key, sn |-> i, seen |-> {i}, lost |-> FALSE]]
    BY <1>1 DEF ListClick
  <2>3. alert_info[i].key \in Keys /\ i \in Nat
    <3>1. Len(alert_info) \in Nat /\ i \in 1..Len(alert_info)
      BY <1>0, LenProperties DEF TypeOK
    <3>2. alert_info[i] \in Row
      BY <1>0, <3>1, ElementOfSeq DEF TypeOK
    <3> QED
      BY <3>1, <3>2 DEF Row
  <2>4. [at |-> "list", key |-> alert_info[i].key, sn |-> i, seen |-> {i}, lost |-> FALSE] \in Request
    BY <2>3 DEF Request
  <2>5. /\ request' \in [Operators -> Request]
        /\ \A p \in Operators \ {o} : request'[p] = request[p]
        /\ request'[o] = [at |-> "list", key |-> alert_info[i].key, sn |-> i, seen |-> {i}, lost |-> FALSE]
    BY <1>0, <2>2, <2>4 DEF TypeOK
  <2>6. TypeOK' /\ RequestsOK' /\ AnsweredIsHandled'
    BY <2>1, <2>3, <2>5, OperatorsKeepRequests
  <2> QED
    BY <2>1, <2>6, OperatorsKeepKeyInv DEF Inv
<1>2. CASE DealInfo(o)
  <2> DEFINE i == request[o].sn
  <2>0. /\ request[o].at = "list" /\ request[o].key \in Keys
        /\ i \in DOMAIN alert_info /\ alert_info[i].key = request[o].key
        /\ request[o].seen \subseteq DOMAIN alert_info
    BY <1>0, <1>2 DEF DealInfo, RequestsOK
  <2>1. CASE alert_info[i].status = "0" /\ CloseRows({i}, "1", o) /\ Goto(o, "listNow")
    <3>1. ByOperators
      BY <1>0, <1>2, <2>1, OperatorsClose DEF DealInfo
    <3>2. alert_info'[i].operator = o /\ alert_info'[i].status = "1"
      <4>1. \A j \in DOMAIN alert_info : j \in {i} =>
              alert_info'[j].operator = o /\ alert_info'[j].status = "1"
        BY <1>0, <1>2, <2>1, OperatorsClose DEF DealInfo
      <4> QED
        BY <2>0, <4>1
    <3>3. /\ request' \in [Operators -> Request]
          /\ \A p \in Operators \ {o} : request'[p] = request[p]
          /\ request'[o].key = request[o].key /\ request'[o].sn = i
          /\ request'[o].seen = request[o].seen /\ request'[o].at = "listNow"
      BY <1>0, <2>1, RequestUpdate
    <3>4. TypeOK' /\ RequestsOK' /\ AnsweredIsHandled'
      BY <2>0, <3>1, <3>2, <3>3, OperatorsKeepRequests
    <3> QED
      BY <3>1, <3>4, OperatorsKeepKeyInv DEF Inv
  <2>2. CASE /\ request' = [request EXCEPT ![o].at = "listNow", ![o].lost = TRUE]
             /\ UNCHANGED alert_info
    <3>1. ByOperators
      BY <1>0, <1>2, <2>2, OperatorsIdle DEF DealInfo, storeVars
    <3>2. /\ request' \in [Operators -> Request]
          /\ \A p \in Operators \ {o} : request'[p] = request[p]
          /\ request'[o].key = request[o].key /\ request'[o].sn = i /\ request'[o].lost = TRUE
          /\ request'[o].seen = request[o].seen
      BY <1>0, <2>2 DEF TypeOK, Request
    <3>3. TypeOK' /\ RequestsOK' /\ AnsweredIsHandled'
      BY <2>0, <3>1, <3>2, OperatorsKeepRequests
    <3> QED
      BY <3>1, <3>3, OperatorsKeepKeyInv DEF Inv
  <2>3. CASE Goto(o, "list") /\ UNCHANGED alert_info
    <3>1. ByOperators
      BY <1>0, <1>2, <2>3, OperatorsIdle DEF DealInfo, storeVars
    <3>2. /\ request' \in [Operators -> Request]
          /\ \A p \in Operators \ {o} : request'[p] = request[p]
          /\ request'[o].key = request[o].key /\ request'[o].sn = i /\ request'[o].at = "list"
          /\ request'[o].seen = request[o].seen
      BY <1>0, <2>3, RequestUpdate
    <3>3. TypeOK' /\ RequestsOK' /\ AnsweredIsHandled'
      BY <2>0, <3>1, <3>2, OperatorsKeepRequests
    <3> QED
      BY <3>1, <3>3, OperatorsKeepKeyInv DEF Inv
  <2> QED
    BY <1>2, <2>1, <2>2, <2>3 DEF DealInfo
<1>3. CASE DealNow(o)
  <2>0. /\ request[o].at = "listNow" /\ request[o].key \in Keys
        /\ request[o].sn \in DOMAIN alert_info
        /\ alert_info[request[o].sn].key = request[o].key
        /\ request[o].seen \subseteq DOMAIN alert_info
    BY <1>0, <1>3 DEF DealNow, RequestsOK
  <2>1. ByOperators
    <3>1. CASE CloseNow({request[o].key}, "1", o)
      BY <1>0, <1>3, <3>1, OperatorsCloseNow DEF DealNow
    <3>2. CASE UNCHANGED alert_now
      BY <1>0, <1>3, <3>2, OperatorsIdle DEF DealNow, storeVars
    <3> QED
      BY <1>3, <3>1, <3>2 DEF DealNow
  <2>2. Goto(o, "list") \/ Done(o)
    BY <1>3 DEF DealNow
  <2>3. /\ request' \in [Operators -> Request]
        /\ \A p \in Operators \ {o} : request'[p] = request[p]
        /\ \/ request'[o].at = "idle"
           \/ /\ request'[o].at = "list"
              /\ request'[o].key = request[o].key /\ request'[o].sn = request[o].sn
              /\ request'[o].seen = request[o].seen
    <3>1. CASE Goto(o, "list")
      BY <1>0, <3>1, RequestUpdate
    <3>2. CASE Done(o)
      BY <1>0, <3>2, RequestDone DEF NoRequest
    <3> QED
      BY <2>2, <3>1, <3>2
  <2>4. TypeOK' /\ RequestsOK' /\ AnsweredIsHandled'
    BY <2>0, <2>1, <2>3, OperatorsKeepRequests
  <2> QED
    BY <2>1, <2>4, OperatorsKeepKeyInv DEF Inv
<1>4. CASE MapClick(o)
  <2> DEFINE req(k) == [at |-> "map", key |-> k, sn |-> alert_now[k].sn, seen |-> RowsOf(k),
                        lost |-> FALSE]
  <2>1. ByOperators
    BY <1>0, <1>4, OperatorsIdle DEF MapClick
  <2>2. PICK k \in Keys : alert_now[k].status = "0" /\ request' = [request EXCEPT ![o] = req(k)]
    BY <1>4 DEF MapClick
  <2>3. /\ alert_now[k].sn \in Nat /\ RowsOf(k) \subseteq DOMAIN alert_info
        /\ alert_now[k].sn \in DOMAIN alert_info /\ alert_info[alert_now[k].sn].key = k
    BY <1>0, <2>2 DEF TypeOK, NowRow, RowsOf, Inv, NowOK, NoRow
  <2>4. req(k) \in Request
    <3>1. DOMAIN alert_info \subseteq Nat
      BY <1>0, LenProperties DEF TypeOK
    <3> QED
      BY <2>3, <3>1 DEF Request
  <2>5. /\ request' \in [Operators -> Request]
        /\ \A p \in Operators \ {o} : request'[p] = request[p]
        /\ request'[o].at = "map" /\ request'[o].key = k
        /\ request'[o].sn = alert_now[k].sn /\ request'[o].seen = RowsOf(k)
    BY <1>0, <2>2, <2>4 DEF TypeOK
  <2>6. TypeOK' /\ RequestsOK' /\ AnsweredIsHandled'
    BY <2>1, <2>3, <2>5, OperatorsKeepRequests
  <2> QED
    BY <2>1, <2>6, OperatorsKeepKeyInv DEF Inv
<1>5. CASE GISNow(o)
  <2> DEFINE k == request[o].key
             S == {q \in Keys : alert_now[q].sn = request[o].sn}
  <2>0. /\ request[o].at = "map" /\ k \in Keys
        /\ request[o].sn \in DOMAIN alert_info /\ alert_info[request[o].sn].key = k
        /\ request[o].seen \subseteq DOMAIN alert_info
    BY <1>0, <1>5 DEF GISNow, RequestsOK
  <2>1. ByOperators
    <3>1. CASE CloseNow(S, "1", o)
      BY <1>0, <1>5, <3>1, OperatorsCloseNow DEF GISNow
    <3>2. CASE UNCHANGED alert_now
      BY <1>0, <1>5, <3>2, OperatorsIdle DEF GISNow, storeVars
    <3> QED
      BY <1>5, <3>1, <3>2 DEF GISNow
  <2>2. \/ /\ Goto(o, "mapInfo") /\ CloseNow(S, "1", o)
           /\ \E q \in S : alert_now[q].status = "0"
        \/ request' = [request EXCEPT ![o].at = "mapInfo", ![o].lost = TRUE]
        \/ Goto(o, "map")
    BY <1>5 DEF GISNow
  <2>3. /\ request' \in [Operators -> Request]
        /\ \A p \in Operators \ {o} : request'[p] = request[p]
        /\ request'[o].at \in {"map", "mapInfo"} /\ request'[o].key = k
        /\ request'[o].sn = request[o].sn /\ request'[o].seen = request[o].seen
    <3>1. CASE request' = [request EXCEPT ![o].at = "mapInfo", ![o].lost = TRUE]
      BY <1>0, <3>1 DEF TypeOK, Request
    <3> QED
      BY <1>0, <2>2, <3>1, RequestUpdate
  <2>4. request'[o].at = "mapInfo" /\ ~request'[o].lost =>
          alert_now'[k].operator = o /\ alert_now'[k].status = "1"
    <3>1. CASE Goto(o, "mapInfo") /\ CloseNow(S, "1", o) /\ \E q \in S : alert_now[q].status = "0"
      <4>1. k \in S /\ alert_now[k].status = "0"
        <5>1. PICK q \in S : alert_now[q].status = "0"
          BY <3>1
        <5>2. alert_info[alert_now[q].sn].key = q
          BY <5>1 DEF Inv, NowOK, NoRow
        <5>3. q = k
          BY <2>0, <5>1, <5>2
        <5> QED
          BY <5>1, <5>3
      <4>2. ASSUME NEW T, CloseNow(T, "1", o)
            PROVE  \A q \in Keys : q \in T /\ alert_now[q].status = "0" =>
                     alert_now'[q].status = "1" /\ alert_now'[q].operator = o
        BY <1>0, <4>2, CloseNowEffect
      <4> QED
        BY <2>0, <3>1, <4>1, <4>2
    <3>2. CASE request' = [request EXCEPT ![o].at = "mapInfo", ![o].lost = TRUE]
      BY <1>0, <3>2 DEF TypeOK, Request
    <3>3. CASE Goto(o, "map")
      BY <1>0, <3>3, RequestUpdate
    <3> QED
      BY <2>2, <3>1, <3>2, <3>3
  <2>5. TypeOK' /\ RequestsOK' /\ AnsweredIsHandled'
    <3> HIDE DEF k, S
    <3>1. k = request'[o].key
      BY <2>3
    <3>2. request'[o].at # "listNow"
      BY <2>3
    <3> QED
      BY <2>0, <2>1, <2>3, <2>4, <3>1, <3>2, OperatorsKeepRequests
  <2> QED
    BY <2>1, <2>5, OperatorsKeepKeyInv DEF Inv
<1>6. CASE GISInfo(o)
  <2>0. /\ request[o].at = "mapInfo" /\ request[o].key \in Keys
        /\ request[o].sn \in DOMAIN alert_info
        /\ alert_info[request[o].sn].key = request[o].key
        /\ request[o].seen \subseteq DOMAIN alert_info
    BY <1>0, <1>6 DEF GISInfo, RequestsOK
  <2>1. ByOperators
    <3>1. CASE CloseRows(OpenRows(request[o].key), "1", o)
      BY <1>0, <1>6, <3>1, OperatorsClose DEF GISInfo, OpenRows, RowsOf
    <3>2. CASE UNCHANGED alert_info
      BY <1>0, <1>6, <3>2, OperatorsIdle DEF GISInfo, storeVars
    <3> QED
      BY <1>6, <3>1, <3>2 DEF GISInfo
  <2>2. Done(o) \/ Goto(o, "map")
    BY <1>6 DEF GISInfo
  <2>3. /\ request' \in [Operators -> Request]
        /\ \A p \in Operators \ {o} : request'[p] = request[p]
        /\ \/ request'[o].at = "idle"
           \/ /\ request'[o].at = "map"
              /\ request'[o].key = request[o].key /\ request'[o].sn = request[o].sn
              /\ request'[o].seen = request[o].seen
    <3>1. CASE Goto(o, "map")
      BY <1>0, <3>1, RequestUpdate
    <3>2. CASE Done(o)
      BY <1>0, <3>2, RequestDone DEF NoRequest
    <3> QED
      BY <2>2, <3>1, <3>2
  <2>4. TypeOK' /\ RequestsOK' /\ AnsweredIsHandled'
    BY <2>0, <2>1, <2>3, OperatorsKeepRequests
  <2> QED
    BY <2>1, <2>4, OperatorsKeepKeyInv DEF Inv
<1>7. CASE Leave(o)
  <2>1. ByOperators
    BY <1>0, <1>7, OperatorsIdle DEF Leave
  <2>2. /\ request' \in [Operators -> Request]
        /\ \A p \in Operators \ {o} : request'[p] = request[p]
        /\ request'[o].at = "idle"
    BY <1>0, <1>7, RequestDone DEF Leave, NoRequest
  <2>3. TypeOK' /\ RequestsOK' /\ AnsweredIsHandled'
    BY <2>1, <2>2, OperatorsKeepRequests
  <2> QED
    BY <2>1, <2>3, OperatorsKeepKeyInv DEF Inv
<1> QED
  BY <1>1, <1>2, <1>3, <1>4, <1>5, <1>6, <1>7 DEF Operator

-----------------------------------------------------------------------------
(* What the server does *)

\* The rows that operators deal with stay, and closed ones as they are.
LEMMA ServerKeepsRequests ==
  ASSUME Inv, request' = request, DOMAIN alert_info \subseteq DOMAIN alert_info',
         \A i \in DOMAIN alert_info :
           /\ alert_info'[i].key = alert_info[i].key
           /\ alert_info[i].status # "0" => alert_info'[i] = alert_info[i],
         \A k \in Keys :
           \/ alert_now[k].status # "1" \/ alert_now'[k] = alert_now[k]
           \/ \E i \in DOMAIN alert_info' : i \notin DOMAIN alert_info /\ alert_info'[i].key = k
  PROVE  RequestsOK' /\ AnsweredIsHandled'
<1>1. RequestsOK'
  BY DEF Inv, RequestsOK
<1>2. ASSUME NEW o \in Operators, ~request'[o].lost, request'[o].at = "listNow"
      PROVE  /\ alert_info'[request'[o].sn].operator = o
             /\ alert_info'[request'[o].sn].status = "1"
  BY <1>2 DEF Inv, RequestsOK, AnsweredIsHandled
<1>3. ASSUME NEW o \in Operators, ~request'[o].lost, request'[o].at = "mapInfo"
      PROVE  \/ LoggedSince(o, request[o].key)'
             \/ /\ alert_now'[request'[o].key].operator = o
                /\ alert_now'[request'[o].key].status = "1"
  <2> DEFINE k == request[o].key
  <2>1. /\ k \in Keys /\ request[o].seen \subseteq DOMAIN alert_info
        /\ \/ LoggedSince(o, k)
           \/ alert_now[k].operator = o /\ alert_now[k].status = "1"
    BY <1>3 DEF Inv, RequestsOK, AnsweredIsHandled
  <2>2. RowsOf(k) \subseteq RowsOf(k)'
    BY DEF RowsOf
  <2>3. LoggedSince(o, k) => LoggedSince(o, k)'
    BY <2>2 DEF LoggedSince
  <2>4. ASSUME NEW i \in DOMAIN alert_info', i \notin DOMAIN alert_info, alert_info'[i].key = k
        PROVE  LoggedSince(o, k)'
    BY <2>1, <2>4 DEF LoggedSince, RowsOf
  <2>5. CASE LoggedSince(o, k)
    BY <2>3, <2>5
  <2>6. CASE alert_now[k].operator = o /\ alert_now[k].status = "1"
    BY <2>1, <2>4, <2>6
  <2> QED
    BY <2>1, <2>5, <2>6
<1> QED
  BY <1>1, <1>2, <1>3 DEF AnsweredIsHandled

LEMMA StoreUntouched ==
  ASSUME Inv, UNCHANGED <<storeVars, request>>
  PROVE  /\ RowsOK' /\ NowOK' /\ RequestsOK' /\ AnsweredIsHandled'
         /\ \A k \in Keys : OpenRows(k)' = OpenRows(k)
BY DEF Inv, RowsOK, NowOK, RequestsOK, AnsweredIsHandled, LoggedSince, OpenRows, RowsOf, storeVars

LEMMA SendStep ==
  ASSUME Inv, NEW kind \in {"raise", "clear"}, NEW k \in Keys, Send(kind, k)
  PROVE  Inv'
<1> DEFINE n == Len(inbox)
<1>0. inbox \in Seq(Report) /\ n \in Nat /\ DOMAIN inbox = 1..n
  BY LenProperties DEF Inv, TypeOK
<1>1. /\ inbox' \in Seq(Report) /\ DOMAIN inbox' = 1..(n + 1)
      /\ \A i \in 1..n : inbox'[i] = inbox[i]
      /\ inbox'[n + 1] = [kind |-> kind, key |-> k]
  <2>1. [kind |-> kind, key |-> k] \in Report
    BY DEF Report
  <2> QED
    BY <1>0, <2>1, AppendProperties DEF Send
<1>2. TypeOK'
  BY <1>1 DEF Inv, TypeOK, Send, storeVars
<1>3. /\ RowsOK' /\ NowOK' /\ RequestsOK' /\ AnsweredIsHandled'
      /\ \A q \in Keys : OpenRows(q)' = OpenRows(q)
  BY StoreUntouched DEF Send
<1>4. StmtOK'
  BY DEF Inv, StmtOK, Send
<1>5. ASSUME NEW q \in Keys PROVE KeyInv(q)'
  <2>1. Underway(q)'
    BY <1>3, <1>5 DEF Inv, KeyInv, Underway, Send, storeVars
  <2>2. CASE q = k
    <3>1. n + 1 \in DOMAIN inbox' /\ inbox'[n + 1].key = k /\ reported'[k] = kind
      BY <1>0, <1>1 DEF Send, Inv, TypeOK
    <3>2. Pending(k)' /\ Queued(k)'
      BY <3>1 DEF Pending, Queued
    <3>3. LastIsReported(k)'
      <4>1. ASSUME NEW i \in DOMAIN inbox', inbox'[i].key = k,
                   \A j \in DOMAIN inbox' : inbox'[j].key = k => j <= i
            PROVE  inbox'[i].kind = reported'[k]
        <5>1. i = n + 1
          BY <1>0, <1>1, <3>1, <4>1
        <5> QED
          BY <1>1, <3>1, <5>1
      <4> QED
        BY <3>2, <4>1 DEF LastIsReported
    <3> QED
      BY <2>1, <2>2, <3>2, <3>3 DEF KeyInv
  <2>3. CASE q # k
    <3>1. reported'[q] = reported[q]
      BY <2>3 DEF Send, Inv, TypeOK
    <3>2. \A i \in DOMAIN inbox' : inbox'[i].key = q => i \in DOMAIN inbox
      BY <1>0, <1>1, <2>3
    <3>3. Pending(q)' = Pending(q) /\ Queued(q)' = Queued(q)
      BY <1>0, <1>1, <3>2 DEF Pending, Queued, Send
    <3>4. LastIsReported(q)'
      BY <1>0, <1>1, <1>5, <3>1, <3>2, <3>3 DEF Inv, KeyInv, LastIsReported, Send
    <3>5. Stored(q)' = Stored(q)
      BY <1>3, <3>1 DEF Stored, Send, storeVars
    <3> QED
      BY <1>5, <2>1, <3>3, <3>4, <3>5 DEF Inv, KeyInv, Send
  <2> QED
    BY <2>2, <2>3
<1> QED
  BY <1>2, <1>3, <1>4, <1>5 DEF Inv

LEMMA TakeStep ==
  ASSUME Inv, Take
  PROVE  Inv'
<1> DEFINE n == Len(inbox)
           k == inbox[1].key
<1>0. /\ inbox \in Seq(Report) /\ n \in Nat /\ n > 0 /\ DOMAIN inbox = 1..n
      /\ inbox[1] \in Report /\ k \in Keys
  <2>1. inbox \in Seq(Report) /\ inbox # <<>>
    BY DEF Inv, TypeOK, Take
  <2>2. n \in Nat /\ n > 0 /\ DOMAIN inbox = 1..n
    BY <2>1, LenProperties, EmptySeq
  <2>3. inbox[1] \in Report
    BY <2>1, <2>2, ElementOfSeq
  <2> QED
    BY <2>1, <2>2, <2>3 DEF Report
<1>1. /\ inbox' \in Seq(Report) /\ DOMAIN inbox' = 1..(n - 1)
      /\ \A i \in 1..(n - 1) : inbox'[i] = inbox[i + 1]
      /\ report' = inbox[1]
  BY <1>0, HeadTailProperties, LenProperties DEF Take
<1>2. /\ stmt = "idle" /\ stmt' \in First(inbox[1])
      /\ failed' = [failed EXCEPT ![k] = FALSE]
  BY <1>1 DEF Take
<1>3. \/ /\ stmt' = "onoff" /\ k \in Gateways
      \/ /\ stmt' = "data" /\ k \in Attrs /\ k \notin Gateways
      \/ /\ stmt' = "insert" /\ inbox[1].kind = "raise" /\ k \notin Gateways
      \/ /\ stmt' = "info" /\ inbox[1].kind = "clear" /\ k \notin Gateways
  BY <1>0, <1>2, AlertsAssumption DEF First, Keys, Report
<1>4. TypeOK'
  BY <1>0, <1>1, <1>2, <1>3 DEF Inv, TypeOK, Take, storeVars, Stmts
<1>5. /\ RowsOK' /\ NowOK' /\ RequestsOK' /\ AnsweredIsHandled'
      /\ \A q \in Keys : OpenRows(q)' = OpenRows(q)
  BY StoreUntouched DEF Take
<1>6. StmtOK'
  BY <1>1, <1>3 DEF StmtOK
<1>7. ASSUME NEW q \in Keys PROVE KeyInv(q)'
  <2>1. Underway(q)'
    BY <1>1, <1>3 DEF Underway
  <2>2. \A i \in DOMAIN inbox : inbox[i].key = q =>
          \/ i = 1 /\ q = k
          \/ i - 1 \in DOMAIN inbox' /\ inbox'[i - 1] = inbox[i]
    BY <1>0, <1>1
  <2>3. LastIsReported(q)'
    <3>1. ASSUME NEW i \in DOMAIN inbox', inbox'[i].key = q,
                 \A j \in DOMAIN inbox' : inbox'[j].key = q => j <= i
          PROVE  inbox'[i].kind = reported'[q]
      <4>1. i + 1 \in DOMAIN inbox /\ inbox[i + 1] = inbox'[i]
        BY <1>0, <1>1
      <4>2. ASSUME NEW j \in DOMAIN inbox, inbox[j].key = q PROVE j <= i + 1
        BY <1>0, <1>1, <2>2, <3>1, <4>2
      <4> QED
        BY <1>7, <3>1, <4>1, <4>2 DEF Inv, KeyInv, LastIsReported, Take
    <3>2. ASSUME q = k, ~Queued(q)' PROVE report'.kind = reported'[q]
      <4>1. \A j \in DOMAIN inbox : inbox[j].key = q => j <= 1
        BY <1>0, <2>2, <3>2 DEF Queued
      <4>2. 1 \in DOMAIN inbox /\ inbox[1].key = q
        BY <1>0, <3>2
      <4> QED
        BY <1>1, <1>7, <4>1, <4>2 DEF Inv, KeyInv, LastIsReported, Take
    <3> QED
      BY <1>1, <3>1, <3>2 DEF LastIsReported
  <2>4. CASE q = k
    <3>1. Pending(q)'
      BY <1>1, <1>3, <2>4 DEF Pending
    <3> QED
      BY <2>1, <2>3, <3>1 DEF KeyInv
  <2>5. CASE q # k
    <3>1. Pending(q) => Pending(q)'
      BY <1>2, <2>2, <2>5 DEF Pending
    <3>2. failed'[q] = failed[q]
      BY <1>2, <2>5 DEF Inv, TypeOK
    <3>3. Stored(q)' = Stored(q)
      BY <1>5 DEF Stored, Take, storeVars
    <3> QED
      BY <1>7, <2>1, <2>3, <3>1, <3>2, <3>3 DEF Inv, KeyInv
  <2> QED
    BY <2>4, <2>5
<1> QED
  BY <1>4, <1>5, <1>6, <1>7 DEF Inv

\* MsgCtrl goes on to a statement of the same report, or has finished it.
LEMMA ProceedEffect ==
  ASSUME Inv, stmt # "idle", Proceed(After(stmt, report.kind))
  PROVE  /\ report \in Report /\ report.key \in Keys
         /\ stmt' \in Stmts /\ StmtOK'
         /\ IF stmt' = "idle" THEN report' = NoReport ELSE report' = report
         /\ stmt' # "onoff"
         /\ stmt \in {"insert", "now"} <=> stmt' = "idle"
         /\ stmt = "info" <=> stmt' = "now"
<1>1. report \in Report /\ report.kind \in {"raise", "clear"} /\ report.key \in Keys
  BY DEF Inv, TypeOK, Report
<1>2. stmt \in {"onoff", "data", "data_now", "insert", "info", "now"}
  BY DEF Inv, TypeOK, Stmts
<1>3. stmt' = After(stmt, report.kind)
  BY DEF Proceed
<1>4. IF stmt' = "idle" THEN report' = NoReport ELSE report' = report
  BY <1>3 DEF Proceed
<1> QED
  BY <1>1, <1>2, <1>3, <1>4 DEF After, Stmts, StmtOK, Inv

\* A step within a report, as far as other keys see it.
LEMMA WithinReport ==
  ASSUME Inv, stmt # "idle", UNCHANGED <<reported, inbox>>, NEW q \in Keys,
         IF stmt' = "idle" THEN report' = NoReport ELSE report' = report
  PROVE  /\ LastIsReported(q)'
         /\ q # report.key /\ (~Pending(q) /\ ~failed'[q] => Stored(q)') => KeyInv(q)'
<1>1. LastIsReported(q)'
  BY DEF Inv, KeyInv, LastIsReported, Queued
<1>2. ASSUME q # report.key, ~Pending(q) /\ ~failed'[q] => Stored(q)' PROVE KeyInv(q)'
  <2>1. Underway(q)'
    BY <1>2 DEF Underway
  <2>2. Pending(q) => Pending(q)'
    BY <1>2 DEF Pending
  <2> QED
    BY <1>1, <1>2, <2>1, <2>2 DEF KeyInv
<1> QED
  BY <1>1, <1>2

\* Where a statement was lost nothing is promised of its key.
LEMMA LostStep ==
  ASSUME Inv, stmt # "idle", failed' = [failed EXCEPT ![report.key] = TRUE],
         UNCHANGED <<reported, inbox, storeVars, request>>,
         stmt' \in Stmts, StmtOK',
         IF stmt' = "idle" THEN report' = NoReport ELSE report' = report
  PROVE  Inv'
<1>0. report \in Report /\ report.key \in Keys
  BY DEF Inv, TypeOK, Report
<1>1. TypeOK'
  BY <1>0 DEF Inv, TypeOK, storeVars
<1>2. /\ RowsOK' /\ NowOK' /\ RequestsOK' /\ AnsweredIsHandled'
      /\ \A k \in Keys : OpenRows(k)' = OpenRows(k)
  BY StoreUntouched
<1>3. ASSUME NEW q \in Keys PROVE KeyInv(q)'
  <2>1. CASE q = report.key
    <3>1. failed'[q] = TRUE
      BY <2>1 DEF Inv, TypeOK
    <3>2. LastIsReported(q)'
      BY WithinReport
    <3> QED
      BY <3>1, <3>2 DEF KeyInv, Underway
  <2>2. CASE q # report.key
    <3>1. failed'[q] = failed[q]
      BY <2>2 DEF Inv, TypeOK
    <3>2. Stored(q)' = Stored(q)
      BY <1>2 DEF Stored, storeVars
    <3> QED
      BY <1>3, <2>2, <3>1, <3>2, WithinReport DEF Inv, KeyInv
  <2> QED
    BY <2>1, <2>2
<1> QED
  BY <1>1, <1>2, <1>3 DEF Inv

LEMMA FaultStep ==
  ASSUME Inv, StatementFails \/ ReportAbandoned
  PROVE  Inv'
<1>1. CASE StatementFails
  BY <1>1, ProceedEffect, LostStep DEF StatementFails
<1>2. CASE ReportAbandoned
  <2>1. stmt' = "idle" /\ report' = NoReport
    BY <1>2 DEF ReportAbandoned, Proceed
  <2>2. stmt' \in Stmts /\ StmtOK'
    BY <2>1 DEF Stmts, StmtOK
  <2> QED
    BY <1>2, <2>1, <2>2, LostStep DEF ReportAbandoned
<1> QED
  BY <1>1, <1>2

LEMMA RestartStep ==
  ASSUME Inv, Restart
  PROVE  Inv'
<1>1. stmt' = "idle" /\ report' = NoReport /\ inbox' = <<>>
  BY DEF Restart, Proceed
<1>2. TypeOK'
  BY <1>1, EmptySeq DEF Inv, TypeOK, Restart, storeVars, Stmts
<1>3. /\ RowsOK' /\ NowOK' /\ RequestsOK' /\ AnsweredIsHandled'
      /\ \A k \in Keys : OpenRows(k)' = OpenRows(k)
  BY StoreUntouched DEF Restart
<1>4. StmtOK'
  BY <1>1 DEF StmtOK
<1>5. ASSUME NEW q \in Keys PROVE KeyInv(q)'
  <2>1. DOMAIN inbox' = {}
    BY <1>1, EmptySeq
  <2>2. LastIsReported(q)' /\ Underway(q)'
    BY <1>1, <2>1 DEF LastIsReported, Underway
  <2>3. ~failed'[q] => ~failed[q] /\ ~Pending(q)
    BY DEF Restart, Inv, TypeOK
  <2>4. Stored(q)' = Stored(q)
    BY <1>3 DEF Stored, Restart, storeVars
  <2> QED
    BY <2>2, <2>3, <2>4 DEF Inv, KeyInv
<1> QED
  BY <1>2, <1>3, <1>4, <1>5 DEF Inv

LEMMA ExecuteOnOff ==
  ASSUME Inv, Execute, stmt \in {"onoff", "data", "data_now"}
  PROVE  Inv'
<1> DEFINE k == report.key
<1>0. /\ Proceed(After(stmt, report.kind)) /\ stmt # "idle"
      /\ UNCHANGED <<reported, inbox, failed, request, alert_info, alert_now>>
  BY DEF Execute, storeVars
<1>1. /\ report \in Report /\ k \in Keys
      /\ stmt' \in Stmts /\ StmtOK'
      /\ stmt' # "idle" /\ report' = report
      /\ stmt' # "onoff" /\ stmt' # "now"
  BY <1>0, ProceedEffect
<1>2. \/ /\ stmt = "onoff" /\ k \in Gateways
         /\ onoff' = [onoff EXCEPT ![k] = IF report.kind = "raise" THEN "1" ELSE "0"]
      \/ k \notin Gateways /\ onoff' = onoff
  BY AlertsAssumption DEF Execute, Inv, StmtOK, storeVars
<1>3. TypeOK'
  <2>1. onoff' \in [Gateways -> {"0", "1"}]
    BY <1>2 DEF Inv, TypeOK
  <2> QED
    BY <1>0, <1>1, <2>1 DEF Inv, TypeOK
<1>4. /\ RowsOK' /\ NowOK' /\ RequestsOK' /\ AnsweredIsHandled'
      /\ \A q \in Keys : OpenRows(q)' = OpenRows(q)
  BY <1>0 DEF Inv, RowsOK, NowOK, RequestsOK, AnsweredIsHandled, LoggedSince, OpenRows, RowsOf
<1>5. ASSUME NEW q \in Keys PROVE KeyInv(q)'
  <2>1. CASE q = k
    <3>1. LastIsReported(q)'
      BY <1>0, <1>1, WithinReport
    <3>2. Underway(q)'
      BY <1>1, <1>2, <2>1 DEF Underway, Inv, TypeOK
    <3>3. Pending(q)'
      BY <1>1, <2>1 DEF Pending
    <3> QED
      BY <3>1, <3>2, <3>3 DEF KeyInv
  <2>2. CASE q # k
    <3>1. q \in Gateways => onoff'[q] = onoff[q]
      BY <1>2, <2>2 DEF Inv, TypeOK
    <3>2. Stored(q)' = Stored(q)
      BY <1>0, <1>4, <3>1 DEF Stored
    <3> QED
      BY <1>0, <1>1, <1>5, <2>2, <3>2, WithinReport DEF Inv, KeyInv
  <2> QED
    BY <2>1, <2>2
<1> QED
  BY <1>1, <1>3, <1>4, <1>5 DEF Inv

LEMMA ExecuteInsert ==
  ASSUME Inv, Execute, stmt = "insert"
  PROVE  Inv'
<1> DEFINE k == report.key
           n == Len(alert_info)
<1>0. /\ Proceed(After(stmt, report.kind)) /\ stmt # "idle" /\ TypeOK
      /\ UNCHANGED <<reported, inbox, failed, request, onoff>>
      /\ Insert(k) /\ Trigger(k) /\ report.kind = "raise"
  BY DEF Execute, storeVars, Inv, StmtOK
<1>1. /\ report \in Report /\ k \in Keys
      /\ stmt' = "idle" /\ StmtOK' /\ report' = NoReport
  BY <1>0, ProceedEffect
<1>2. /\ alert_info' \in Seq(Row)
      /\ n \in Nat
      /\ DOMAIN alert_info = 1..n
      /\ DOMAIN alert_info' = 1..(n + 1)
      /\ \A i \in DOMAIN alert_info : alert_info'[i] = alert_info[i]
      /\ alert_info'[n + 1] = [key |-> k, status |-> "0", operator |-> None]
  BY <1>0, <1>1, InsertEffect
<1>7. /\ alert_now' \in [Keys -> NowRow]
      /\ \A q \in Keys \ {k} : alert_now'[q] = alert_now[q]
      /\ alert_now'[k].status = "0"
      /\ alert_now'[k].sn = n + 1 \/ (alert_now[k] # NoRow /\ alert_now'[k].sn = alert_now[k].sn)
  BY <1>0, <1>1, TriggerEffect
<1>3. TypeOK'
  BY <1>0, <1>1, <1>2, <1>7 DEF TypeOK, Stmts
<1>8. NowOK'
  <2> SUFFICES ASSUME NEW q \in Keys, alert_now'[q] # NoRow
               PROVE  alert_now'[q].sn \in DOMAIN alert_info' /\ alert_info'[alert_now'[q].sn].key = q
    BY DEF NowOK
  <2>1. \/ alert_now'[q].sn = n + 1 /\ q = k
        \/ alert_now'[q].sn = alert_now[q].sn /\ alert_now[q] # NoRow
    BY <1>7
  <2>2. CASE alert_now'[q].sn = alert_now[q].sn /\ alert_now[q] # NoRow
    <3>1. alert_now[q].sn \in DOMAIN alert_info /\ alert_info[alert_now[q].sn].key = q
      BY <2>2 DEF Inv, NowOK
    <3> QED
      BY <1>2, <2>2, <3>1
  <2>3. CASE alert_now'[q].sn = n + 1 /\ q = k
    BY <1>2, <2>3
  <2> QED
    BY <2>1, <2>2, <2>3
<1>4. RowsOK'
  <2>1. \A i \in DOMAIN alert_info' : i = n + 1 \/ i \in DOMAIN alert_info
    BY <1>2
  <2> QED
    BY <1>2, <2>1, AlertsAssumption DEF Inv, RowsOK
<1>5. RequestsOK' /\ AnsweredIsHandled'
  <2>1. DOMAIN alert_info \subseteq DOMAIN alert_info'
    BY <1>2
  <2>2. n + 1 \in DOMAIN alert_info' /\ n + 1 \notin DOMAIN alert_info /\ alert_info'[n + 1].key = k
    BY <1>2
  <2>3. \A q \in Keys : \/ alert_now'[q] = alert_now[q]
                         \/ \E i \in DOMAIN alert_info' :
                              i \notin DOMAIN alert_info /\ alert_info'[i].key = q
    BY <1>7, <2>2
  <2> QED
    BY <1>0, <1>2, <2>1, <2>3, ServerKeepsRequests
<1>6. ASSUME NEW q \in Keys PROVE KeyInv(q)'
  <2>0. LastIsReported(q)'
    BY <1>0, <1>1, WithinReport
  <2>1. CASE q = k
    <3>1. Underway(q)'
      BY <1>1 DEF Underway
    <3>2. ASSUME ~Pending(q)', ~failed'[q] PROVE Stored(q)'
      <4>1. reported'[q] = "raise"
        <5>1. ~Queued(q)
          BY <1>0, <3>2 DEF Pending, Queued
        <5> QED
          BY <1>0, <1>6, <2>1, <5>1 DEF Inv, KeyInv, LastIsReported
      <4>2. alert_now'[q].status = "0"
        BY <1>7, <2>1
      <4>3. q \in Gateways => onoff'[q] = "1"
        BY <1>0, <1>6, <2>1, <3>2 DEF Inv, KeyInv, Underway
      <4>4. /\ n + 1 \in DOMAIN alert_info'
            /\ alert_info'[n + 1].key = q
            /\ alert_info'[n + 1].operator # AUTO
            /\ \A j \in DOMAIN alert_info' : alert_info'[j].key = q => j <= n + 1
        BY <1>2, <2>1, AlertsAssumption
      <4> QED
        BY <4>1, <4>2, <4>3, <4>4 DEF Stored
    <3> QED
      BY <2>0, <3>1, <3>2 DEF KeyInv
  <2>2. CASE q # k
    <3>1. \A i \in DOMAIN alert_info' : alert_info'[i].key = q => i \in DOMAIN alert_info
      BY <1>2, <2>2
    <3>2. OpenRows(q)' = OpenRows(q)
      BY <1>2, <3>1 DEF OpenRows, RowsOf
    <3>3. alert_now'[q] = alert_now[q]
      BY <1>7, <2>2
    <3>4. Stored(q) => Stored(q)'
      BY <1>0, <1>2, <3>1, <3>2, <3>3 DEF Stored
    <3> QED
      BY <1>0, <1>1, <1>6, <2>2, <3>4, WithinReport DEF Inv, KeyInv
  <2> QED
    BY <2>1, <2>2
<1> QED
  BY <1>1, <1>3, <1>4, <1>5, <1>6, <1>8 DEF Inv

LEMMA ExecuteInfo ==
  ASSUME Inv, Execute, stmt = "info"
  PROVE  Inv'
<1> DEFINE k == report.key
<1>0. /\ Proceed(After(stmt, report.kind)) /\ stmt # "idle" /\ TypeOK
      /\ UNCHANGED <<reported, inbox, failed, request, onoff, alert_now>>
      /\ CloseRows(OpenRows(k), "2", AUTO)
  BY DEF Execute, Inv
<1>1. /\ report \in Report /\ k \in Keys
      /\ stmt' = "now" /\ StmtOK' /\ stmt' # "idle" /\ report' = report
  BY <1>0, ProceedEffect
<1>2. /\ alert_info' \in Seq(Row)
      /\ DOMAIN alert_info' = DOMAIN alert_info
      /\ \A i \in DOMAIN alert_info :
           /\ alert_info'[i].key = alert_info[i].key
           /\ i \notin OpenRows(k) => alert_info'[i] = alert_info[i]
           /\ i \in OpenRows(k) => alert_info'[i].status = "2" /\ alert_info'[i].operator = AUTO
  BY <1>0, CloseRowsEffect
<1>3. TypeOK'
  BY <1>0, <1>1, <1>2 DEF TypeOK, Stmts
<1>4. RowsOK'
  BY <1>2, AlertsAssumption DEF Inv, RowsOK
<1>7. NowOK'
  BY <1>0, <1>2 DEF Inv, NowOK
<1>5. RequestsOK' /\ AnsweredIsHandled'
  BY <1>0, <1>2, ServerKeepsRequests DEF OpenRows
<1>6. ASSUME NEW q \in Keys PROVE KeyInv(q)'
  <2>1. CASE q = k
    <3>1. LastIsReported(q)'
      BY <1>0, <1>1, WithinReport
    <3>2. OpenRows(q)' = {}
      BY <1>2, <2>1 DEF OpenRows, RowsOf
    <3>3. Underway(q)'
      BY <1>0, <1>1, <1>6, <3>2 DEF Inv, KeyInv, Underway
    <3>4. Pending(q)'
      BY <1>1, <2>1 DEF Pending
    <3> QED
      BY <3>1, <3>3, <3>4 DEF KeyInv
  <2>2. CASE q # k
    <3>1. \A i \in DOMAIN alert_info : alert_info[i].key = q => alert_info'[i] = alert_info[i]
      BY <1>2, <2>2 DEF OpenRows, RowsOf
    <3>2. OpenRows(q)' = OpenRows(q)
      BY <1>2, <3>1 DEF OpenRows, RowsOf
    <3>3. Stored(q) => Stored(q)'
      BY <1>0, <1>2, <3>1, <3>2 DEF Stored
    <3> QED
      BY <1>0, <1>1, <1>6, <2>2, <3>3, WithinReport DEF Inv, KeyInv
  <2> QED
    BY <2>1, <2>2
<1> QED
  BY <1>1, <1>3, <1>4, <1>5, <1>6, <1>7 DEF Inv

LEMMA ExecuteNow ==
  ASSUME Inv, Execute, stmt = "now"
  PROVE  Inv'
<1> DEFINE k == report.key
<1>0. /\ Proceed(After(stmt, report.kind)) /\ stmt # "idle" /\ TypeOK
      /\ UNCHANGED <<reported, inbox, failed, request, onoff, alert_info>>
      /\ CloseNow({k}, "2", AUTO) /\ report.kind = "clear"
  BY DEF Execute, Inv, StmtOK
<1>1. /\ report \in Report /\ k \in Keys
      /\ stmt' = "idle" /\ StmtOK' /\ report' = NoReport
  BY <1>0, ProceedEffect
<1>2. /\ alert_now' \in [Keys -> NowRow]
      /\ \A q \in Keys \ {k} : alert_now'[q] = alert_now[q]
      /\ \A q \in Keys : alert_now[q].status # "0" => alert_now'[q] = alert_now[q]
      /\ alert_now'[k].sn = alert_now[k].sn /\ alert_now'[k].status # "0"
  <2>1. /\ alert_now' \in [Keys -> NowRow]
        /\ \A q \in Keys :
             /\ alert_now'[q].sn = alert_now[q].sn
             /\ q \in {k} /\ alert_now[q].status = "0" =>
                  alert_now'[q].status = "2" /\ alert_now'[q].operator = AUTO
             /\ ~(q \in {k} /\ alert_now[q].status = "0") => alert_now'[q] = alert_now[q]
    BY <1>0, CloseNowEffect
  <2> QED
    BY <1>1, <2>1
<1>3. TypeOK'
  BY <1>0, <1>1, <1>2 DEF TypeOK, Stmts
<1>4. /\ RowsOK' /\ NowOK' /\ RequestsOK' /\ AnsweredIsHandled'
      /\ \A q \in Keys : OpenRows(q)' = OpenRows(q)
  <2>1. RowsOK' /\ \A q \in Keys : OpenRows(q)' = OpenRows(q)
    BY <1>0 DEF Inv, RowsOK, OpenRows, RowsOf
  <2>2. NowOK'
    <3>1. ASSUME NEW q \in Keys, alert_now'[q] # NoRow
          PROVE  alert_now[q] # NoRow /\ alert_now'[q].sn = alert_now[q].sn
      BY <1>2, <3>1 DEF NoRow
    <3> QED
      BY <1>0, <3>1 DEF Inv, NowOK
  <2>3. RequestsOK' /\ AnsweredIsHandled'
    BY <1>0, <1>2, ServerKeepsRequests
  <2> QED
    BY <2>1, <2>2, <2>3
<1>5. ASSUME NEW q \in Keys PROVE KeyInv(q)'
  <2>0. LastIsReported(q)'
    BY <1>0, <1>1, WithinReport
  <2>1. CASE q = k
    <3>1. Underway(q)'
      BY <1>1 DEF Underway
    <3>2. ASSUME ~Pending(q)', ~failed'[q] PROVE Stored(q)'
      <4>1. reported'[q] = "clear"
        <5>1. ~Queued(q)
          BY <1>0, <3>2 DEF Pending, Queued
        <5> QED
          BY <1>0, <1>5, <2>1, <5>1 DEF Inv, KeyInv, LastIsReported
      <4>2. OpenRows(q) = {} /\ (q \in Gateways => onoff[q] = "0")
        BY <1>0, <1>5, <2>1, <3>2 DEF Inv, KeyInv, Underway
      <4>3. alert_now'[q].status # "0"
        BY <1>2, <2>1
      <4> QED
        BY <1>0, <1>4, <4>1, <4>2, <4>3 DEF Stored
    <3> QED
      BY <2>0, <3>1, <3>2 DEF KeyInv
  <2>2. CASE q # k
    <3>1. Stored(q) => Stored(q)'
      BY <1>0, <1>2, <1>4, <2>2 DEF Stored
    <3> QED
      BY <1>0, <1>1, <1>5, <2>2, <3>1, WithinReport DEF Inv, KeyInv
  <2> QED
    BY <2>1, <2>2
<1> QED
  BY <1>1, <1>3, <1>4, <1>5 DEF Inv

-----------------------------------------------------------------------------
(* Theorems *)

LEMMA InvInit == Init => Inv
<1> SUFFICES ASSUME Init PROVE Inv
  OBVIOUS
<1>1. TypeOK
  BY TypeInit
<1>2. DOMAIN alert_info = {} /\ DOMAIN inbox = {}
  BY EmptySeq DEF Init
<1>3. RowsOK /\ NowOK /\ RequestsOK /\ StmtOK /\ AnsweredIsHandled
  BY <1>2 DEF Init, RowsOK, NowOK, RequestsOK, StmtOK, AnsweredIsHandled, NoRequest
<1>4. ASSUME NEW k \in Keys PROVE KeyInv(k)
  <2>1. LastIsReported(k) /\ Underway(k)
    BY <1>2 DEF Init, LastIsReported, Underway
  <2>2. Stored(k)
    BY <1>2 DEF Init, Stored, OpenRows, RowsOf, NoRow
  <2> QED
    BY <2>1, <2>2 DEF KeyInv
<1> QED
  BY <1>1, <1>3, <1>4 DEF Inv

LEMMA InvStep == Inv /\ [Next]_vars => Inv'
<1> SUFFICES ASSUME Inv, [Next]_vars PROVE Inv'
  OBVIOUS
<1>1. ASSUME NEW kind \in {"raise", "clear"}, NEW k \in Keys, Send(kind, k) PROVE Inv'
  BY <1>1, SendStep
<1>2. CASE Take
  BY <1>2, TakeStep
<1>3. CASE Execute
  <2>1. stmt \in {"onoff", "data", "data_now", "insert", "info", "now"}
    BY <1>3 DEF Execute
  <2> QED
    BY <1>3, <2>1, ExecuteOnOff, ExecuteInsert, ExecuteInfo, ExecuteNow
<1>4. CASE StatementFails \/ ReportAbandoned
  BY <1>4, FaultStep
<1>5. CASE Restart
  BY <1>5, RestartStep
<1>6. ASSUME NEW o \in Operators, Operator(o) PROVE Inv'
  BY <1>6, OperatorStep
<1>7. CASE UNCHANGED vars
  <2>1. /\ UNCHANGED <<serverVars, storeVars, request>>
    BY <1>7 DEF vars
  <2>2. ByOperators
    BY <2>1, OperatorsIdle DEF Inv
  <2>3. TypeOK' /\ RequestsOK' /\ AnsweredIsHandled'
    BY <2>1, StoreUntouched DEF Inv, TypeOK, serverVars, storeVars
  <2> QED
    BY <2>2, <2>3, OperatorsKeepKeyInv DEF Inv
<1> QED
  BY <1>1, <1>2, <1>3, <1>4, <1>5, <1>6, <1>7 DEF Next, Server

LEMMA Invariance == Spec => []Inv
BY InvInit, InvStep, PTL DEF Spec

\* Every variable keeps its type, whatever fails.
THEOREM AlertsTypeCorrect == Spec => []TypeOK
<1>1. Inv => TypeOK
  BY DEF Inv
<1> QED
  BY <1>1, Invariance, PTL

\* Once the reports about a key have been executed, the last one without loss,
\* the log, the map and the device table tell what was reported last: whatever
\* operators do between any two statements, and whatever was lost before.
THEOREM TablesFollowReports == Spec => []StoreFollowsReports
<1>1. Inv => StoreFollowsReports
  BY DEF Inv, KeyInv, StoreFollowsReports
<1> QED
  BY <1>1, Invariance, PTL

\* Whoever is about to be answered "0000" is entered in the row his page dealt with,
\* or has failed to commit: at the list in the log's, at the map in alert_now's as
\* long as no other alert has taken it over.
THEOREM AnsweredOperatorIsEntered == Spec => []AnsweredIsHandled
<1>1. Inv => AnsweredIsHandled
  BY DEF Inv
<1> QED
  BY <1>1, Invariance, PTL

\* Two operators, neither of whose commits failed, are answered "0000" for the same
\* alert at the same page only at the map, and only if another alert of its key has
\* been logged since one of them opened his.  (Two at different pages may both be.)
OneAnswerAtEachPage ==
  \A o, p \in Operators :
    o # p /\ ~request[o].lost /\ ~request[p].lost =>
      /\ request[o].at = "listNow" /\ request[p].at = "listNow" =>
           request[o].sn # request[p].sn
      /\ request[o].at = "mapInfo" /\ request[p].at = "mapInfo"
         /\ request[o].key = request[p].key =>
           LoggedSince(o, request[o].key) \/ LoggedSince(p, request[p].key)

THEOREM OneAnswerEach == Spec => []OneAnswerAtEachPage
<1>1. Inv => OneAnswerAtEachPage
  BY DEF Inv, AnsweredIsHandled, OneAnswerAtEachPage
<1> QED
  BY <1>1, Invariance, PTL

-----------------------------------------------------------------------------
(* Refinement *)

\* The log's open entries are the open rows.
LEMMA OpenInBook ==
  ASSUME Inv, NEW k \in Keys
  PROVE  Book!OpenOf(k) = OpenRows(k) /\ DOMAIN Log = DOMAIN alert_info
BY DEF Inv, RowsOK, Log, OpenRows, RowsOf, Book!OpenOf

\* Closing rows is closing them in the book.
LEMMA CloseInBook ==
  ASSUME Inv, NEW S, NEW sta, sta = "1" \/ sta = "2", NEW who \in Operators \union {AUTO},
         CloseRows(S, sta, who)
  PROVE  Book!Close(S, who)
<1>0. TypeOK
  BY DEF Inv
<1>1. /\ alert_info' \in Seq(Row)
      /\ DOMAIN alert_info' = DOMAIN alert_info
      /\ \A i \in DOMAIN alert_info :
           /\ alert_info'[i].key = alert_info[i].key
           /\ i \notin S => alert_info'[i] = alert_info[i]
           /\ i \in S => alert_info'[i].status = sta /\ alert_info'[i].operator = who
  <2>1. sta \in {"1", "2"}
    OBVIOUS
  <2> QED
    BY <1>0, <2>1, CloseRowsEffect
<1>2. DOMAIN Log = DOMAIN alert_info
  BY DEF Log
<1>3. Log' = [i \in DOMAIN alert_info |->
                [key |-> alert_info'[i].key, closer |-> alert_info'[i].operator]]
  BY <1>1 DEF Log
<1>4. ASSUME NEW i \in DOMAIN alert_info
      PROVE  [key |-> alert_info'[i].key, closer |-> alert_info'[i].operator]
               = IF i \in S THEN [Log[i] EXCEPT !.closer = who] ELSE Log[i]
  BY <1>1, <1>4 DEF Log
<1> QED
  BY <1>2, <1>3, <1>4 DEF Book!Close

LEMMA InsertInBook ==
  ASSUME TypeOK, NEW k \in Keys, Insert(k)
  PROVE  Book!Enter(k)
<1> DEFINE n == Len(alert_info)
           e == [key |-> k, closer |-> None]
           E == [key : Keys, closer : Operators \union {AUTO, None}]
<1>1. /\ n \in Nat /\ DOMAIN alert_info = 1..n /\ DOMAIN alert_info' = 1..(n + 1)
      /\ \A i \in DOMAIN alert_info : alert_info'[i] = alert_info[i]
      /\ alert_info'[n + 1] = [key |-> k, status |-> "0", operator |-> None]
  BY InsertEffect
<1>2. \A i \in 1..n : alert_info[i] \in Row
  BY <1>1, ElementOfSeq DEF TypeOK
<1>3. Log \in [1..n -> E]
  BY <1>1, <1>2 DEF Log, Row
<1>4. Log \in Seq(E) /\ Len(Log) = n
  BY <1>1, <1>3, SeqOfFunction
<1>5. e \in E
  OBVIOUS
<1>6. /\ Append(Log, e) \in Seq(E) /\ Len(Append(Log, e)) = n + 1
      /\ \A i \in 1..n : Append(Log, e)[i] = Log[i]
      /\ Append(Log, e)[n + 1] = e
  BY <1>1, <1>4, <1>5, AppendProperties
<1>7. /\ DOMAIN Log' = 1..(n + 1)
      /\ \A i \in 1..n : Log'[i] = Log[i]
      /\ Log'[n + 1] = e
  BY <1>1 DEF Log
<1>8. Log' \in [1..(n + 1) -> E]
  <2>1. \A i \in 1..(n + 1) : Log'[i] \in E
    BY <1>1, <1>3, <1>5, <1>7
  <2> QED
    BY <2>1, <1>7 DEF Log
<1>9. Log' \in Seq(E) /\ Len(Log') = n + 1
  <2>1. n + 1 \in Nat
    BY <1>1
  <2> HIDE DEF E
  <2> QED
    BY <1>8, <2>1, SeqOfFunction
<1>10. \A i \in 1..(n + 1) : Log'[i] = Append(Log, e)[i]
  BY <1>1, <1>6, <1>7
<1>11. Log' = Append(Log, e)
  BY <1>6, <1>9, <1>10, SeqEqual
<1> QED
  BY <1>11 DEF Book!Enter

\* RmiExec(11) closes an open row of the key dealt with.
LEMMA DealOpens ==
  ASSUME Inv, NEW o \in Operators, DealInfo(o), alert_info' # alert_info
  PROVE  /\ request[o].key \in Keys /\ request[o].sn \in DOMAIN alert_info
         /\ alert_info[request[o].sn].key = request[o].key
         /\ alert_info[request[o].sn].status = "0"
BY DEF Inv, RequestsOK, DealInfo

LEMMA BookStep == Inv /\ [Next]_vars => [Book!Next]_Log
<1> SUFFICES ASSUME Inv, [Next]_vars, Log' # Log PROVE [Book!Next]_Log
  OBVIOUS
<1>0. ASSUME alert_info' = alert_info PROVE [Book!Next]_Log
  BY <1>0 DEF Log
<1>1. ASSUME NEW kind \in {"raise", "clear"}, NEW k \in Keys, Send(kind, k) PROVE [Book!Next]_Log
  BY <1>0, <1>1 DEF Send, storeVars
<1>2. CASE Take
  BY <1>0, <1>2 DEF Take, storeVars
<1>3. CASE Execute
  <2>1. report.key \in Keys /\ TypeOK
    BY <1>3 DEF Inv, TypeOK, Execute, Report
  <2>2. CASE stmt = "insert" /\ Insert(report.key)
    <3>1. Book!Enter(report.key)
      BY <2>1, <2>2, InsertInBook DEF Inv
    <3> QED
      BY <2>1, <3>1 DEF Book!Next
  <2>3. CASE stmt = "info" /\ CloseRows(OpenRows(report.key), "2", AUTO)
    <3>1. Book!Close(OpenRows(report.key), AUTO)
      BY <2>3, CloseInBook
    <3>2. Book!Recover(report.key)
      BY <2>1, <3>1, OpenInBook DEF Book!Recover
    <3> QED
      BY <2>1, <3>2 DEF Book!Next
  <2> QED
    BY <1>0, <1>3, <2>2, <2>3 DEF Execute, storeVars
<1>4. CASE StatementFails \/ ReportAbandoned \/ Restart
  BY <1>0, <1>4 DEF StatementFails, ReportAbandoned, Restart, storeVars
<1>5. ASSUME NEW o \in Operators, Operator(o) PROVE [Book!Next]_Log
  <2>1. CASE DealInfo(o) /\ CloseRows({request[o].sn}, "1", o) /\ alert_info' # alert_info
    <3> DEFINE i == request[o].sn
               k == request[o].key
    <3>1. /\ k \in Keys /\ i \in DOMAIN alert_info
          /\ alert_info[i].key = k /\ alert_info[i].status = "0"
      BY <2>1, DealOpens DEF Inv
    <3>2. Book!Close({i}, o)
      BY <2>1, CloseInBook
    <3>3. i \in Book!OpenOf(k)
      BY <3>1, OpenInBook DEF OpenRows, RowsOf
    <3>4. Book!Handle(k, o)
      BY <3>2, <3>3 DEF Book!Handle
    <3> QED
      BY <3>1, <3>4 DEF Book!Next
  <2>2. CASE GISInfo(o) /\ CloseRows(OpenRows(request[o].key), "1", o)
    <3>1. request[o].key \in Keys
      BY <2>2 DEF Inv, RequestsOK, GISInfo
    <3>2. Book!Close(OpenRows(request[o].key), o)
      BY <2>2, CloseInBook
    <3>3. Book!Handle(request[o].key, o)
      BY <3>1, <3>2, OpenInBook DEF Book!Handle
    <3> QED
      BY <3>1, <3>3 DEF Book!Next
  <2>3. CASE alert_info' = alert_info
    BY <1>0, <2>3
  <2> QED
    BY <1>5, <2>1, <2>2, <2>3 DEF Operator, ListClick, DealInfo, DealNow,
       MapClick, GISNow, GISInfo, Leave, storeVars
<1>6. CASE UNCHANGED vars
  BY <1>0, <1>6 DEF vars, storeVars
<1> QED
  BY <1>1, <1>2, <1>3, <1>4, <1>5, <1>6 DEF Next, Server

\* However the server's statements and those of any number of operators
\* interleave, and whatever is lost: no alert is closed twice or opened again,
\* and none of another key is closed along with those meant.
THEOREM AlertsImplementAlertBook == Spec => ImplementsAlertBook
<1>1. Init => Book!Init
  BY EmptySeq DEF Init, Book!Init, Log
<1> QED
  BY <1>1, BookStep, Invariance, PTL DEF Spec, ImplementsAlertBook, Book!Spec

-----------------------------------------------------------------------------
(* What an alert book promises *)

\* Rows stay in the log, about the same key, and a closed one stays as it was closed.
LogIsFinal ==
  [][\A i \in DOMAIN alert_info :
       /\ i \in DOMAIN alert_info' /\ alert_info'[i].key = alert_info[i].key
       /\ alert_info[i].status # "0" => alert_info'[i] = alert_info[i]]_vars

LEMMA LogType ==
  ASSUME TypeOK
  PROVE  Log \in Seq([key : Keys, closer : Operators \union {AUTO, None}])
<1> DEFINE E == [key : Keys, closer : Operators \union {AUTO, None}]
<1>1. Len(alert_info) \in Nat /\ DOMAIN alert_info = 1..Len(alert_info)
  BY LenProperties DEF TypeOK
<1>2. \A i \in 1..Len(alert_info) : alert_info[i] \in Row
  BY <1>1, ElementOfSeq DEF TypeOK
<1>3. Log \in [1..Len(alert_info) -> E]
  BY <1>1, <1>2 DEF Log, Row
<1> HIDE DEF E
<1>4. Log \in Seq(E)
  BY <1>1, <1>3, SeqOfFunction
<1> QED
  BY <1>4 DEF E

\* A step of the book closes open entries, and adds but never removes one.
LEMMA BookKeeps ==
  ASSUME NEW E, Log \in Seq(E), [Book!Next]_Log, NEW i \in DOMAIN Log
  PROVE  /\ i \in DOMAIN Log' /\ Log'[i].key = Log[i].key
         /\ Log[i].closer # None => Log'[i] = Log[i]
<1>1. ASSUME NEW k \in Keys, Book!Enter(k)
      PROVE  i \in DOMAIN Log' /\ Log'[i] = Log[i]
  <2> DEFINE e == [key |-> k, closer |-> None]
  <2>1. Log' = Append(Log, e) /\ Log \in Seq(E \union {e})
    BY <1>1, SeqMonotonic DEF Book!Enter
  <2>2. /\ DOMAIN Log = 1..Len(Log) /\ Len(Log) \in Nat
        /\ DOMAIN Append(Log, e) = 1..(Len(Log) + 1)
        /\ \A j \in 1..Len(Log) : Append(Log, e)[j] = Log[j]
    BY <2>1, AppendProperties, LenProperties
  <2>3. /\ i \in 1..Len(Log) /\ i \in DOMAIN Append(Log, e)
        /\ Append(Log, e)[i] = Log[i]
    BY <2>2
  <2> HIDE DEF e
  <2> QED
    BY <2>1, <2>3, Zenon
<1>2. ASSUME NEW k \in Keys, NEW S \in SUBSET Book!OpenOf(k), NEW who, Book!Close(S, who)
      PROVE  /\ i \in DOMAIN Log' /\ Log'[i].key = Log[i].key
             /\ Log[i].closer # None => Log'[i] = Log[i]
  <2>1. i \in S => Log[i] = [key |-> k, closer |-> None]
    BY <1>2 DEF Book!OpenOf
  <2>2. i \in DOMAIN Log' /\ Log'[i] = IF i \in S THEN [Log[i] EXCEPT !.closer = who] ELSE Log[i]
    BY <1>2 DEF Book!Close
  <2> QED
    BY <2>1, <2>2
<1>3. CASE Log' = Log
  BY <1>3
<1> QED
  BY <1>1, <1>2, <1>3 DEF Book!Next, Book!Recover, Book!Handle

\* Once in the log an alert stays there, and stays as it was closed: neither the
\* server nor a second operator rewrites who closed it, whatever interleaves or
\* fails (the conditions on alert_info.status in RmiExec(11), RmiExec(14) and the
\* statements of AppAlertBean).
THEOREM ClosedAlertsAreFinal == Spec => LogIsFinal
<1>1. Inv /\ Inv' /\ [Next]_vars =>
        [\A i \in DOMAIN alert_info :
           /\ i \in DOMAIN alert_info' /\ alert_info'[i].key = alert_info[i].key
           /\ alert_info[i].status # "0" => alert_info'[i] = alert_info[i]]_vars
  <2> SUFFICES ASSUME Inv, Inv', [Next]_vars, NEW i \in DOMAIN alert_info
               PROVE  /\ i \in DOMAIN alert_info' /\ alert_info'[i].key = alert_info[i].key
                      /\ alert_info[i].status # "0" => alert_info'[i] = alert_info[i]
    OBVIOUS
  <2>1. [Book!Next]_Log /\ Log \in Seq([key : Keys, closer : Operators \union {AUTO, None}])
    BY BookStep, LogType DEF Inv
  <2>2. DOMAIN Log = DOMAIN alert_info /\ DOMAIN Log' = DOMAIN alert_info'
    BY DEF Log
  <2>3. /\ i \in DOMAIN Log' /\ Log'[i].key = Log[i].key
        /\ Log[i].closer # None => Log'[i] = Log[i]
    BY <2>1, <2>2, BookKeeps
  <2>4. /\ Log[i] = [key |-> alert_info[i].key, closer |-> alert_info[i].operator]
        /\ Log'[i] = [key |-> alert_info'[i].key, closer |-> alert_info'[i].operator]
    BY <2>2, <2>3 DEF Log
  <2>5. alert_info[i] \in Row /\ alert_info'[i] \in Row
    <3>1. /\ alert_info \in Seq(Row) /\ DOMAIN alert_info = 1..Len(alert_info)
          /\ alert_info' \in Seq(Row) /\ DOMAIN alert_info' = 1..Len(alert_info')
      BY LenProperties DEF Inv, TypeOK
    <3> QED
      BY <2>2, <2>3, <3>1, ElementOfSeq
  <2>6. alert_info[i].status # "0" => alert_info'[i].operator = alert_info[i].operator
    BY <2>3, <2>4 DEF Inv, RowsOK
  <2>7. alert_info[i].status # "0" => alert_info'[i].status = alert_info[i].status
    BY <2>2, <2>3, <2>5, <2>6 DEF Inv, RowsOK, Row
  <2> QED
    BY <2>2, <2>3, <2>4, <2>5, <2>6, <2>7 DEF Row
<1> QED
  BY <1>1, Invariance, PTL DEF Spec, LogIsFinal
=============================================================================
