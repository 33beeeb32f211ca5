------------------------------- MODULE Alerts -------------------------------
(***************************************************************************)
(* How alerts are stored and closed.  Two processes write the same tables, *)
(* each SQL statement in a transaction of its own:                         *)
(*  - AppSvr2's message thread (XNY-LOCAL-AppSvr2/net/MsgCtrl.java and     *)
(*    bean/AppDeviceAlertReqBean.java; AppSvr runs the same statements),   *)
(*    which stores what gateways report;                                   *)
(*  - the RMI server, for operators at the web pages                       *)
(*    (XNY-LOCAL-RMI/bean/AlertInfoBean.java, rmi/RmiImpl.java).           *)
(* alert_info is the log of alerts, alert_now the state the map shows: one *)
(* row for each (cpm_id, id, attr_id).                                     *)
(*                                                                         *)
(* A report's level, id and attr_id say what it is about: the gateway      *)
(* itself (levels 6 and 7, no id, no attr_id), a device (levels 1 and 3,   *)
(* no attr_id) or an attribute of a device (level 2, whose text starts     *)
(* with "N:" when the value is normal again).  Here that is one key.       *)
(***************************************************************************)
EXTENDS Naturals, Sequences

CONSTANTS
  Gateways, Devices, Attrs,  \* keys, by what they are about
  Operators,   \* web users who handle alerts
  AUTO,        \* the operator the server enters when it closes an alert
  None,        \* null
  Faults,      \* what may fail: see AlertsAssumption
  MaxInbox,    \* bound: gateways report while recvMsgList is shorter
  MaxAlerts    \* bound: ... and raise alerts while there are fewer to come

Keys == Gateways \union Devices \union Attrs

\* "sql": executing a statement raises SQLException; "commit": committing it does,
\* when IsOK is already true; "conn": getConnection returns null, and the
\* NullPointerException leaves the handler; "crash": AppSvr2 is restarted.
ASSUME AlertsAssumption ==
  /\ Faults \subseteq {"sql", "commit", "conn", "crash"}
  /\ Gateways \intersect Attrs = {}
  /\ Gateways \intersect Devices = {}
  /\ Devices \intersect Attrs = {}
  /\ AUTO \notin Operators /\ None \notin Operators /\ None # AUTO

VARIABLES
  reported,    \* reported[k]: what the gateway has last reported of k
  inbox,       \* recvMsgList: reports, in the order received
  report,      \* the report MsgCtrl is executing, NoReport between reports
  stmt,        \* the statement it is at, "idle" between reports
  alert_info,  \* rows in the order of their sn: [key, status, operator]
  alert_now,   \* alert_now[k]: the row of k, [sn, status, operator]; NoRow without one
  onoff,       \* device_detail.onoff of a gateway: "0" online, "1" offline
  request,     \* request[o]: where o's Deal or GISDeal is, and the SN he sends, of
               \* alert_info or of alert_now; seen: the alerts of that key in the log
               \* when he opened it; lost: the commit of RmiExec(11) or (13) failed
  failed       \* failed[k]: a statement of the report of k taken last, or the
               \* whole of a later one, was lost (no code; for the properties)

serverVars == <<reported, inbox, report, stmt, failed>>
storeVars  == <<alert_info, alert_now, onoff>>
vars == <<serverVars, storeVars, request>>

-----------------------------------------------------------------------------
Report == [kind : {"raise", "clear"}, key : Keys]
Stmts  == {"idle", "onoff", "data", "data_now", "insert", "info", "now"}
Row    == [key : Keys, status : {"0", "1", "2"}, operator : Operators \union {AUTO, None}]
NowRow == [sn : Nat, status : {"none", "0", "1", "2"}, operator : Operators \union {AUTO, None}]
Request == [at : {"idle", "list", "listNow", "map", "mapInfo"},
            key : Keys \union {None}, sn : Nat, seen : SUBSET Nat, lost : BOOLEAN]

NoReport  == [kind |-> "clear", key |-> None]
NoRequest == [at |-> "idle", key |-> None, sn |-> 0, seen |-> {}, lost |-> FALSE]
NoRow     == [sn |-> 0, status |-> "none", operator |-> None]

\* A report about k is still to be taken, or is being executed.
Pending(k) == \/ \E i \in DOMAIN inbox : inbox[i].key = k
              \/ stmt # "idle" /\ report.key = k

RowsOf(k)   == {i \in DOMAIN alert_info : alert_info[i].key = k}
OpenRows(k) == {i \in RowsOf(k) : alert_info[i].status = "0"}

Init == /\ reported = [k \in Keys |-> "clear"]
        /\ inbox = <<>> /\ report = NoReport /\ stmt = "idle"
        /\ alert_info = <<>>
        /\ alert_now = [k \in Keys |-> NoRow]
        /\ onoff = [g \in Gateways |-> "0"]
        /\ request = [o \in Operators |-> NoRequest]
        /\ failed = [k \in Keys |-> FALSE]

-----------------------------------------------------------------------------
(* Gateways report, in the order things happen. *)

Send(kind, k) ==
  /\ Len(inbox) < MaxInbox
  /\ kind = "raise" => Len(alert_info) + Len(inbox)
                          + (IF report.kind = "raise" THEN 1 ELSE 0) < MaxAlerts
  /\ reported' = [reported EXCEPT ![k] = kind]
  /\ inbox' = Append(inbox, [kind |-> kind, key |-> k])
  /\ UNCHANGED <<report, stmt, failed, storeVars, request>>

-----------------------------------------------------------------------------
(* The statements *)

\* "insert into alert_info"
Insert(k) ==
  alert_info' = Append(alert_info, [key |-> k, status |-> "0", operator |-> None])

\* What the database does with alert_now then.  No program of the repository inserts
\* there, and its schema is not in the repository: assumed is a trigger after which the
\* row of k is open.  Its sn may be the one it had or a new one (here the log's).
Trigger(k) ==
  \E sn \in {Len(alert_info')} \union (IF alert_now[k] = NoRow THEN {} ELSE {alert_now[k].sn}) :
    alert_now' = [alert_now EXCEPT ![k] = [sn |-> sn, status |-> "0", operator |-> None]]

\* Mutant: the two values are swapped.
CloseRowsSwapped(S, status, who) ==
  alert_info' = [i \in DOMAIN alert_info |->
                   IF i \in S
                     THEN [alert_info[i] EXCEPT !.status = who, !.operator = status]
                     ELSE alert_info[i]]

\* "update alert_info set status, etime, operator where status = '0' and ...":
\* S are the open rows that match.
CloseRows(S, status, who) ==
  alert_info' = [i \in DOMAIN alert_info |->
                   IF i \in S
                     THEN [alert_info[i] EXCEPT !.status = status, !.operator = who]
                     ELSE alert_info[i]]

\* "update alert_now set status, etime, operator where status = '0' and ...": S are
\* the keys whose rows match but for the status.
CloseNow(S, status, who) ==
  alert_now' = [k \in Keys |->
                  IF k \in S /\ alert_now[k].status = "0"
                    THEN [alert_now[k] EXCEPT !.status = status, !.operator = who]
                    ELSE alert_now[k]]

-----------------------------------------------------------------------------
(* AppSvr2: MsgCtrl takes a report and executes its statements one by one.  *)

\* Where the statements of a report start.  The text of an attribute's alert
\* may be empty: then the tables data and data_now are left alone.
First(r) ==
  CASE r.key \in Gateways -> {"onoff"}
    [] r.key \in Devices  -> IF r.kind = "raise" THEN {"insert"} ELSE {"info"}
    [] r.key \in Attrs    -> IF r.kind = "raise" THEN {"data", "insert"} ELSE {"data"}

\* Mutant: recovery closes the rows of alert_info only.
AfterInfoOnly(s, kind) ==
  CASE s = "data" -> "data_now"
    [] s \in {"onoff", "data_now"} -> IF kind = "raise" THEN "insert" ELSE "info"
    [] s \in {"insert", "info", "now"} -> "idle"

After(s, kind) ==
  CASE s = "data" -> "data_now"
    [] s \in {"onoff", "data_now"} -> IF kind = "raise" THEN "insert" ELSE "info"
    [] s = "info" -> "now"
    [] s \in {"insert", "now"} -> "idle"

Take ==
  /\ stmt = "idle" /\ inbox # <<>>
  /\ report' = Head(inbox)
  /\ inbox' = Tail(inbox)
  /\ stmt' \in First(report')
  /\ failed' = [failed EXCEPT ![report'.key] = FALSE]
  /\ UNCHANGED <<reported, storeVars, request>>

Proceed(s) == /\ stmt' = s
              /\ report' = IF s = "idle" THEN NoReport ELSE report

\* The statement is executed and committed.  data and data_now are not modelled.
Execute ==
  /\ stmt # "idle"
  /\ \/ /\ stmt = "onoff"
        /\ onoff' = [onoff EXCEPT ![report.key] = IF report.kind = "raise" THEN "1" ELSE "0"]
        /\ UNCHANGED <<alert_info, alert_now>>
     \/ /\ stmt \in {"data", "data_now"}
        /\ UNCHANGED storeVars
     \/ /\ stmt = "insert"
        /\ Insert(report.key) /\ Trigger(report.key)
        /\ UNCHANGED onoff
     \/ /\ stmt = "info"
        /\ CloseRows(OpenRows(report.key), "2", AUTO)
        /\ UNCHANGED <<alert_now, onoff>>
     \/ /\ stmt = "now"
        /\ CloseNow({report.key}, "2", AUTO)
        /\ UNCHANGED <<alert_info, onoff>>
  /\ Proceed(After(stmt, report.kind))
  /\ UNCHANGED <<reported, inbox, failed, request>>

\* doUpdate prints the SQLException and answers FALSE, which nobody looks at:
\* the next statement follows.
StatementFails ==
  /\ {"sql", "commit"} \intersect Faults # {}
  /\ stmt # "idle"
  /\ Proceed(After(stmt, report.kind))
  /\ failed' = [failed EXCEPT ![report.key] = TRUE]
  /\ UNCHANGED <<reported, inbox, storeVars, request>>

\* There is no connection to be had: run() catches the exception and goes on
\* with the next report.
ReportAbandoned ==
  /\ "conn" \in Faults
  /\ stmt # "idle"
  /\ Proceed("idle")
  /\ failed' = [failed EXCEPT ![report.key] = TRUE]
  /\ UNCHANGED <<reported, inbox, storeVars, request>>

\* AppSvr2 ends and starts again: what it held in memory is gone.
Restart ==
  /\ "crash" \in Faults
  /\ inbox' = <<>> /\ Proceed("idle")
  /\ failed' = [k \in Keys |-> failed[k] \/ Pending(k)]
  /\ UNCHANGED <<reported, storeVars, request>>

-----------------------------------------------------------------------------
(* The RMI server: operator o handles an alert.  doUpdate answers TRUE    *)
(* when a row has changed, and also when the commit has then failed.         *)

Goto(o, at) == request' = [request EXCEPT ![o].at = at, ![o].lost = FALSE]
Done(o)     == request' = [request EXCEPT ![o] = NoRequest]

\* The statement is executed and there is nothing for it to change, or it fails.
MayFail(changes) == ~changes \/ "sql" \in Faults

\* The list of alerts is displayed: the operator means to handle an open one.
\* When the page answers "failed, try again" he is where he was.
ListClick(o) ==
  /\ request[o].at = "idle"
  /\ \E i \in DOMAIN alert_info :
       /\ alert_info[i].status = "0"
       /\ request' = [request EXCEPT ![o] =
            [at |-> "list", key |-> alert_info[i].key, sn |-> i, seen |-> {i}, lost |-> FALSE]]
  /\ UNCHANGED <<serverVars, storeVars>>

\* Deal, RmiExec(11): the row of alert_info, if it is open.
DealInfo(o) ==
  LET i == request[o].sn
      open == alert_info[i].status = "0"
  IN /\ request[o].at = "list"
     /\ \/ /\ open
           /\ CloseRows({i}, "1", o)
           /\ Goto(o, "listNow")
        \/ /\ open /\ "commit" \in Faults
           /\ request' = [request EXCEPT ![o].at = "listNow", ![o].lost = TRUE]
           /\ UNCHANGED alert_info
        \/ /\ MayFail(open) \/ "conn" \in Faults
           /\ Goto(o, "list")
           /\ UNCHANGED alert_info
     /\ UNCHANGED <<serverVars, alert_now, onoff>>

\* Deal, RmiExec(12): the row of alert_now, by key; what it answers is overwritten by
\* the query of the list, which throws without a connection.
DealNow(o) ==
  /\ request[o].at = "listNow"
  /\ \/ /\ CloseNow({request[o].key}, "1", o)
        /\ \/ Done(o)
           \/ "conn" \in Faults /\ Goto(o, "list")
     \/ /\ {"sql", "commit"} \intersect Faults # {}
        /\ Done(o)
        /\ UNCHANGED alert_now
     \/ /\ "conn" \in Faults
        /\ Goto(o, "list")
        /\ UNCHANGED alert_now
  /\ UNCHANGED <<serverVars, alert_info, onoff>>

\* The map shows what is wrong: the operator opens one such alert, and
\* confirms that "the current alert" has been handled.
MapClick(o) ==
  /\ request[o].at = "idle"
  /\ \E k \in Keys :
       /\ alert_now[k].status = "0"
       /\ request' = [request EXCEPT ![o] =
            [at |-> "map", key |-> k, sn |-> alert_now[k].sn, seen |-> RowsOf(k),
             lost |-> FALSE]]
  /\ UNCHANGED <<serverVars, storeVars>>

\* Mutant: whether the statement changed a row is not asked either.
GISNowUnasked(o) ==
  /\ request[o].at = "map"
  /\ CloseNow({k \in Keys : alert_now[k].sn = request[o].sn}, "1", o)
  /\ Goto(o, "mapInfo")
  /\ UNCHANGED <<serverVars, alert_info, onoff>>

\* GISDeal, RmiExec(13): the row of alert_now with the SN he was shown, if there
\* still is one and it is open.
GISNow(o) ==
  LET S == {k \in Keys : alert_now[k].sn = request[o].sn}
      open == \E k \in S : alert_now[k].status = "0"
  IN /\ request[o].at = "map"
     /\ \/ /\ open
           /\ CloseNow(S, "1", o)
           /\ Goto(o, "mapInfo")
        \/ /\ open /\ "commit" \in Faults
           /\ request' = [request EXCEPT ![o].at = "mapInfo", ![o].lost = TRUE]
           /\ UNCHANGED alert_now
        \/ /\ MayFail(open) \/ "conn" \in Faults
           /\ Goto(o, "map")
           /\ UNCHANGED alert_now
     /\ UNCHANGED <<serverVars, alert_info, onoff>>

\* Mutant: the statement does not compare the ids.
GISInfoAllKeys(o) ==
  /\ request[o].at = "mapInfo"
  /\ CloseRows(UNION {OpenRows(k) : k \in Keys}, "1", o)
  /\ Done(o)
  /\ UNCHANGED <<serverVars, alert_now, onoff>>

\* GISDeal, RmiExec(14): every open row of the key; whether there is one is not
\* asked, the operator is answered "0000" all the same.
GISInfo(o) ==
  /\ request[o].at = "mapInfo"
  /\ \/ /\ CloseRows(OpenRows(request[o].key), "1", o)
        /\ Done(o)
     \/ /\ {"sql", "commit"} \intersect Faults # {}
        /\ Done(o)
        /\ UNCHANGED alert_info
     \/ /\ "conn" \in Faults
        /\ Goto(o, "map")
        /\ UNCHANGED alert_info
  /\ UNCHANGED <<serverVars, alert_now, onoff>>

\* The operator turns to something else.
Leave(o) ==
  /\ request[o].at \in {"list", "map"}
  /\ Done(o)
  /\ UNCHANGED <<serverVars, storeVars>>

-----------------------------------------------------------------------------
Server == Take \/ Execute \/ StatementFails \/ ReportAbandoned

Operator(o) == \/ ListClick(o) \/ DealInfo(o) \/ DealNow(o)
               \/ MapClick(o) \/ GISNow(o) \/ GISInfo(o)
               \/ Leave(o)

Next == \/ \E kind \in {"raise", "clear"}, k \in Keys : Send(kind, k)
        \/ Server
        \/ Restart
        \/ \E o \in Operators : Operator(o)

Spec == Init /\ [][Next]_vars

-----------------------------------------------------------------------------
(* Properties *)

\* The types of the variables.
TypeOK ==
  /\ reported \in [Keys -> {"raise", "clear"}]
  /\ inbox \in Seq(Report)
  /\ stmt \in Stmts
  /\ IF stmt = "idle" THEN report = NoReport ELSE report \in Report
  /\ alert_info \in Seq(Row)
  /\ alert_now \in [Keys -> NowRow]
  /\ onoff \in [Gateways -> {"0", "1"}]
  /\ request \in [Operators -> Request]
  /\ failed \in [Keys -> BOOLEAN]

\* What the tables say of k agrees with what its gateway last reported.
Stored(k) ==
  IF reported[k] = "clear"
    THEN /\ OpenRows(k) = {}
         /\ alert_now[k].status # "0"
         /\ k \in Gateways => onoff[k] = "0"
    ELSE /\ alert_now[k].status \in {"0", "1"}
         /\ k \in Gateways => onoff[k] = "1"
         /\ \E i \in DOMAIN alert_info :
              /\ alert_info[i].key = k
              /\ alert_info[i].operator # AUTO
              /\ \A j \in DOMAIN alert_info : alert_info[j].key = k => j <= i

\* Once every report about k has been executed, and none of the last one's
\* statements was lost, log, map and device table tell what was reported last,
\* whatever operators have done meanwhile and whatever was lost before: a
\* recovery leaves nothing open, and an alert is never taken for recovered.
StoreFollowsReports == \A k \in Keys : ~Pending(k) /\ ~failed[k] => Stored(k)

\* An alert of k is in the log that was not there when o opened his.
LoggedSince(o, k) == RowsOf(k) \ request[o].seen # {}

\* Resp is "0000" once the first statement has changed a row.  Whoever is about to be
\* answered so is entered in that row, whatever others have done since: at the list in
\* the row of the log, at the map in the row of alert_now, unless another alert has
\* taken that row over.  The log of the one at the map may name somebody else: what
\* GISDeal's second statement does has no part in the answer.  And where the first
\* statement's commit has failed (lost) nothing of this holds.
AnsweredIsHandled ==
  \A o \in Operators : ~request[o].lost =>
    /\ request[o].at = "listNow" =>
         /\ alert_info[request[o].sn].operator = o
         /\ alert_info[request[o].sn].status = "1"
    /\ request[o].at = "mapInfo" =>
         \/ LoggedSince(o, request[o].key)
         \/ /\ alert_now[request[o].key].operator = o
            /\ alert_now[request[o].key].status = "1"

\* The log is an alert book: no alert is ever closed twice or opened again,
\* recoveries close all open alerts of their key and nothing else, operators
\* only close alerts of one key.
Log == [i \in DOMAIN alert_info |->
          [key |-> alert_info[i].key, closer |-> alert_info[i].operator]]
Book == INSTANCE AlertBook WITH Auto <- AUTO, Nobody <- None, book <- Log
ImplementsAlertBook == Book!Spec

\* An operator who confirms that the alert he looks at has been handled handles
\* no alert that came after (the question GISDeal's page asks is about
\* "the current alert").
OnlySeenHandled ==
  [][\A o \in Operators : \A i \in DOMAIN alert_info :
       alert_info[i].operator # o /\ alert_info'[i].operator = o
         => i \in request[o].seen]_vars
=============================================================================
