# A verification project for the XNY (new-energy IoT) platform

The repository holds four Java programs and their database:

| program | directory | what it does |
|---|---|---|
| gateway, TPC (two generations) | `XNY-LOCAL-AppSvr`, `XNY-LOCAL-AppSvr2` | TCP server for the field devices (CPM/DTU): logins, keep-alive, uplink data, downlink commands |
| RMI server | `XNY-LOCAL-RMI` | the web's access to the database, and a TCP client of the gateway for commands |
| web application | `XNY-LOCAL-WEB` | servlet and JSP pages over the RMI service |

```
 device (CPM) --TCP--> gateway: accept thread -> objClientTable -> ClientSocket (recv, send, monitor)
                          |                                            ^
                          v recvMsgList                                | DisPatch
                       MsgCtrl -> beans -> Oracle <---- RmiImpl <---- web (RMI)
                          ^                               |
                          +-------- TCP (login as a client) -- TPCClient
```

## 1. Inventory

**Gateway sessions** (`TcpSvr.java`; `TcpSvrBase.java` + `TcpSvrAppGateWay.java`).
State: the session table `objClientTable` (client key -> `ClientSocket`), per
session the socket, `m_ClientKey`, `m_TestSta`, `sendMsgList`; the server-wide
`recvMsgList`. One accept thread reads and answers every login; each session has
a receive thread, a send thread and a monitor (active test). All of them end a
session through `ClientClose(key)`. `DisPatch` queues a command for the session
the table names. Hard: four kinds of threads insert into and remove from one
table, and refer to a session by its client's key. Correct when the table holds
exactly the open sessions, a client has at most one, a vanished client is
evicted, a session's threads end with it, the accept thread never starves.

**Frame codec** (`RecvThrd.run`, `DeCode`, `EnCode`). State: a 2048-byte buffer
with a position and a cursor. Frames arrive split or coalesced. Correct when each
frame sent is decoded once, in order, however the bytes are cut.

**Message processing** (`MsgCtrl` threads, `BaseCmdBean` and the beans). State:
`recvMsgList`, the database. Messages are taken in order, each goes to a bean. The
alert bean executes up to four statements for one report, each in a transaction
of its own; the device-control bean hands a command to `DisPatch`. Hard: any
statement may fail while the next is executed, the process may end between two,
and operators change the same rows through another process. Correct when the
tables agree with what was reported last, and a command goes to its device.

**Alert handling** (`AlertInfoBean.Deal` and `GISDeal` in the RMI server, called from
the web pages). State: the rows of `alert_info` and `alert_now`, and what an operator
has in front of him. Hard: two statements without a common transaction, operators
who answer the same alert, pages that are out of date. Correct when an alert is
closed once, and he who is told that he handled it is entered where his page looked.

**Device commands** (`RmiImpl.Client`, `TPCClient`, `MsgCtrl`, `DisPatch`, the
session's send thread). State: four queues in two processes, and the connections
between them. Hard: every queue may be in a process that ends, a connection that
fails, or the hands of a thread that outlives its connection. Correct when a command
reaches its own device at most once, in order, and does not stay anywhere for ever.

**Action table** (`ActionContainer`, `TimeCheckThrd`; `MsgCtrl`'s own table in
AppSvr2). Meant to match answers of devices with pending commands and to time them
out. Nothing is ever put into it: the only call of `InsertAction` is commented out
(`DeviceControlBean.java:65`).

**Uplink** (`TPCClient`, the gateway's disabled `TcpClient`). State: socket,
status, send and receive lists, reconnection timers. Logs in, keeps alive,
reconnects. Hard: after a reconnection the previous connection's threads still
run and share the fields with the new ones.

**RMI service** (`RmiImpl`). Stateless dispatch of a bean's operation to the
database or the uplink, and the mapping of the outcome to a result code.

**Database access, configuration, utilities, web pages.** I/O and presentation.

`PROJECT.json` lists every component with its sources and status.

## 2. Plan

| step | module | question | status |
|---|---|---|---|
| 1 | `Sessions`, `Gateway`, `GatewayProofs` | life cycle of a device session; refinement; proofs | done |
| 2 | `Outbox`, `Uplink`, `UplinkProofs`, `OutboxProofs` | reconnecting client whose old connection's threads are still alive; refinement; proofs | done (section 4) |
| 3 | `FrameCodec`, `FrameCodecProofs` | frames decoded once and in order for any cut of the stream; proofs | done (section 5) |
| 4 | `AlertBook`, `Alerts`, `AlertsProofs` | reports and operators writing the same tables, one transaction at a time, with failures; refinement; proofs | done (section 6) |
| 5 | `Courier`, `CommandPath`, `CommandPathProofs`, `CommandLossProofs` | the way of a command over RMI server, gateway and session, with failing connections and restarts; two refinements; proofs | done (section 7) |

The modules meet at their properties. `CommandPath` keeps the session table with
`INSTANCE Sessions`, which `Gateway` implements, and assumes of the RMI server's
connection what `Uplink` shows (`LogsInAgain`); its RMI server and the one of `Uplink`
implement the same `Outbox`; frames are whole and in order in both,
which is `FrameCodec`'s result; `Alerts` takes its reports from the `recvMsgList` that
`Gateway` fills.

Every invariant, action property and refinement that a passing run checks is also a
theorem, for every value of the constants. The liveness properties and the five
violations are checked by TLC alone: liveness under fairness, and `ENABLED`, are beyond
the prover. For several of them the
safety half is proved as well: `SessionShownOnline` for `StableSessionShownOnline`,
`CursorAdvances` for `EverythingDecoded`, `NoneStranded` for `EveryCommandSettles`.

## 3. Gateway

### State and actions

| module | code |
|---|---|
| `backlog`, `sock`, `peer` | the kernel's completed connections; the server's end of each; what the client has become (`mute`: lost without a FIN) |
| `accPc`, `accConn`, `accKey` | the accept thread's position in `run`/`CheckClient`, its `objClient`, its `Pid` |
| `objClientTable`, `mClientKey`, `testSta`, `sendMsgList` | the fields of the same names; of `sendMsgList` the length |
| `recv`, `send`, `mon` | where the three threads of a session are |
| `recvMsgList` | the queue to `MsgCtrl`: what kind of message, of whom |
| `onoff` | the column `device_detail.onoff` |

Every stretch of code between two points where another thread can intervene is
one action. `ClientClose`, `DisPatch` and the insertion run under
`markClientTable` and are single steps. In AppSvr2 `ClientClose` tests
`containsKey` before it takes that lock, but it is a `synchronized` method and
the only one that removes, so test and removal are one step all the same.
`ClientSocket.init` starts three threads one after the other; the model starts
them together, which loses nothing because each may be scheduled at any later
time. `m_TestSta++` is two steps (`MonTick`, `MonCount`): it races with the
receive thread's reset. `OfflineNotice` selects the variant: AppSvr's
`ClientClose` queues an OFFLINE notice, AppSvr2's does not.

Abstractions: the frame a receive thread reads is one of its three effects
(nothing, an answer, an answer and a message); what a client sent before its
connection broke has been read; a period of the monitor passes at any time, so
every property holds whatever the timeout; the count saturates one above
`ACTIVE_TEST_END`. Client traffic is bounded by `MaxRecvMsgs` and
`MaxSendMsgs` (the code's lists are unbounded): only what clients and callers
add is held back, never what the server itself queues.

### Runs

| run | instance | shows |
|---|---|---|
| `gateway_sessions` | 2 clients, 2 connections, AppSvr with failing updates | `TypeOK`, `WatchdogAlive`, `LiveSessionServed`, `RegisteredIsOpen`, `OpenIsRegistered`, and that the table implements `Sessions`. Two connections let every thread of an old session run beside the new session, and its identity be used again; two clients let a thread hit the wrong entry. AppSvr2's behaviours are those without the OFFLINE notice |
| `gateway_liveness` | 1 client, 2 connections, `ACTIVE_TEST_START = ACTIVE_TEST_END = 1` | `LostClientEvicted`, `ThreadsEnd`, `BacklogServed`, each stated of the connection `c1` |
| `gateway_shown_online` | 1 client, 2 connections, AppSvr, updates do not fail; frames arrive, so that a session can last | `SessionShownOnline`, `StableSessionShownOnline` |
| `gateway_stale_close` | finding | `ClosedOnlyByOwnThread` is violated |
| `gateway_lost_offline` | finding, AppSvr | `LostSessionShownOffline` is violated |

`SessionShownOnline` says in every state what `StableSessionShownOnline` says in the long
run: when nothing about a logged-in client is queued any more, the database shows it
online. It leaves out a client of the login being answered, whose ONLINE notice is still
to come, and one whose connection has failed, for which `ClientStatusNotify` may never
be reached (`GiveUp`). Where an update may fail (`DbMayFail`) it does not hold, since
`MsgCtrl` does not repeat one.

`gateway_sessions` uses symmetry and a view (`SessionFields`) that drops the fields
of closed sessions, which no action reads, `onoff`, which no action reads either,
and which messages are queued, which decides about `onoff` alone. `gateway_liveness`
uses the view too: its properties and every action's guard depend on nothing else. It
does not use symmetry, which would be unsound for liveness; instead each property is
stated of one connection (`Evicted(c1)`), and since `Init`, `Next` and the fairness treat
all connections alike what holds of one holds of the other.

In `gateway_liveness` the monitor counts: its first silent period queues an active test,
its second gives the session up, and the receive thread's reset may fall between the
monitor's read and write of the count and be lost. (In the code the numbers are 3 and 6; a
period in which the count stays below `START`, the third outcome, occurs in
`gateway_sessions` and `gateway_shown_online`.) `MaxSendMsgs` is 0 in the liveness runs,
which holds back the answers and commands of others, never the monitor's own tests.

### Fairness

`FairSpec` asks weak fairness of the accept thread, of `MsgCtrl`, of each send
thread and each monitor, and of a receive thread's reaction to the end of its
stream: all are loops the JVM schedules, each with a step always enabled while
it is not blocked. The accept thread's read cannot block for ever: it has a
timeout (`setSoTimeout`). Clients are under no fairness: they may send nothing,
never log in, never go away. In particular `LostClientEvicted` rests on the
monitor alone when the client is mute.

### Proofs

`GatewayProofs` proves, for any sets of clients and connections, both variants
and every value of the active-test parameters (`GatewayAssumption`: `None` is no
client or connection, the parameters are naturals or Booleans), all the safety
properties above and the refinement of `Sessions`.

The inductive invariant `IInv` conjoins them with three facts. `BacklogInv`: a
waiting connection waits once. `AcceptInv`: what the accept thread holds at each
point, in particular that between `CheckClient` and `put` the key has no entry,
since only the accept thread inserts. `ThreadsInv`: a connection without a
session has no threads, and one with threads has a key. The properties need each
other: `ClientClose(k)` keeps `OpenIsRegistered` because the entry under `k` is
an open session of `k` (`RegisteredIsOpen`); the monitor may leave its loop only
after it has seen the socket closed, which is `WatchdogAlive`; and the session
about to be registered cannot be closed by anyone, because its key is not in the
table (`ClosesAnother`). `ClientCloseEffect` states once what a call may change.

`LoggedInIsShownOnline` needs more, because which notice comes last depends on who
queued it. `NoticeInv`: of a logged-in client, either the database says online and no
OFFLINE notice is queued, or some ONLINE notice is queued and no OFFLINE notice behind
it (`Told`). It is inductive because the only step that queues an OFFLINE notice about a client
removes its session (`ClientClose`), and the client is logged in again only by the step
that queues its ONLINE notice. `LoginInv` supplies that the notice is about the key
under which the session was put.

Liveness is only model-checked, as are the two violations.

## 4. Uplink

### State and actions

`Uplink` models `TPCClient`: the monitor (`TPCClient.run` with `init`,
`Reconnect`, `Login`) and, for every connection it has made, a receive and a
send thread. All share the field `objSocket` without a lock. A thread reads and
writes the stream of the connection it was started for, but it tests, closes and
clears whatever `objSocket` refers to. The model keeps exactly that: `recv[c]`,
`send[c]` and `taken[c]` belong to a connection, `CloseShared` and `Usable` look
at the field, and `close()` and `= null` are two steps of a receive or send
thread (`RecvExcept`, `RecvClear`).

| module | code |
|---|---|
| `objSocket`, `testSta`, `sendMsgList` | the fields of the same names |
| `sock`, `peer` | the two ends of a connection (`mute`: the gateway vanished without a FIN) |
| `mon`, `startup` | where the monitor is; `startup` tells `init` called by `Main` from `init` called by the monitor, because only the monitor closes what a failed `init` leaves |
| `recv`, `send` | where the threads of a connection are |
| `taken`, `fate` | the frame a send thread holds; what has become of a command of the web |

Closing and clearing by the monitor is one step: no one but the monitor assigns
a new connection, so nothing can come between that it would hit by mistake. The
gateway appears as in `Gateway`: it closes a client's previous session when it
receives a login, before it answers (`MonLogin`), and one to which nothing is
written any more (`Expire`). Whatever else the gateway or
the network does to a connection is `PeerLost`, and a connection may be refused;
`MaxFaults` bounds how often either happens. A
connection no thread and no field refers to any more is left to the garbage
collector, and its identity may be used again.

### Runs

| run | instance | shows |
|---|---|---|
| `uplink` | 2 connections, 1 fault, 1 command, one silent period tolerated | `TypeOK`, `ConnectedIsServed`, `OneServedConnection`, `ImplementsOutbox`, `LogsInAgain`, `Reconnects`, `SilenceNoticed`, `CommandsLeaveQueue` |
| `uplink_stale_close` | finding; the same instance | `ClosedByServer` is violated |

Two connections are the one in use and one whose threads are still alive, and an identity
is used again as soon as nothing refers to it. `MonConnect` waits for a free identity,
so it matters that one becomes free; `LogsInAgain` and `Reconnects` have also been checked with three. One
fault is enough for everything below: the logins that follow it end each other's
connections without any further one.

`Outbox` is what the sending side comes to when sockets, logins and the network are left
out: one queue, threads that each take the first frame, hold one at most, write it once
and end with none. `ImplementsOutbox` maps the threads of all connections to its senders,
those of earlier connections included. It says nothing about what becomes of a frame
that is written: that is section 7, whose RMI server implements the same `Outbox`.

Nothing is assumed about time. The monitor's `sleep(1000)` is a period of its own loop: it is
not started by a break, and it says nothing about whether the threads of an earlier
connection have ended when the monitor connects again. So `MonNotice` may happen while they
live, and they may then close the new connection through the shared field. Its threads
are left behind in turn: the next login makes the gateway end the connection before it,
and the story may repeat for ever, without a fault and through successful logins only.
The model has this chase, and the properties say what survives it:

- `ConnectedIsServed` and `OneServedConnection` hold throughout. The former speaks of a
  connection in use; once a thread of an earlier one has closed or cleared it, there is
  none, and the property is silent.
- `LogsInAgain` has no condition: when the faults are over the RMI server is
  logged in again and again, in that the gateway has answered its login (`startRecv`) or it is connected.
  Every chase needs another successful login to go on.
- `Reconnects` and `CommandsLeaveQueue` hold unless the chase never ends: in a
  behaviour that violates the first disjunct, threads of earlier connections are again and again
  about to close or clear the one in use (`StaleEnding`). Without that disjunct both fail.
- `SilenceNoticed` has no condition.

`ClosedByServer` is what the program prints when a receive thread finds its stream ended,
"UC Server Closed the socket": the connection it closes should be one the gateway
has closed. TLC finds the first link of the chase.

Fairness: each thread and the monitor are scheduled, and silent periods end
(weak fairness of `Monitor`, `RecvThrd(c)`, `SendThrd(c)`). `Expire(c)` is fair as well: the
gateway closes a connection to which nothing is written any more, because its active tests
are not answered; that is `LostClientEvicted` of section 3, and it ends the receive thread of a
connection the field has forgotten. Frames and commands
need never arrive, and frames arrive only while at most `MaxSendMsgs` are queued.

### Proofs

`UplinkProofs` proves `TypeOK`, `ConnectedIsServed` and `OneServedConnection` for
any connections and commands and any bounds. The
invariant `Inv` adds two facts. `Served`: the connection in the field has its
threads, also after it has been closed; it is kept because a thread ends only
when it has cleared the field or found it cleared. `LoginSupersedes`: from a
login's arrival until its send thread starts no other connection is served.

`UplinkImplementsOutbox` maps every action to a step of `Outbox` or to a stutter. Two more conjuncts of `Inv` carry it. `NoneSendsYet`:
a connection that is being set up has no send thread, so that starting one never puts a
second thread on a stream. `Submitted`: a command that is queued or held has left the
state `"new"`, so that the abstract `Submit` takes a fresh one.

`OutboxProofs` proves of `Outbox` alone that a command is in one place
(`CommandsInOnePlace`) and is written once (`CommandsWrittenOnce`). `UplinkProofs`
instantiates it under the refinement mapping and gets both for the program's
variables without a further induction (`UplinkSharesNoCommand`, `UplinkWritesOnce`).
The latter two are not checked by a run of their own: they follow from
`ImplementsOutbox`, which is.

Liveness is only model-checked.

## 5. Frame codec

### State and actions

`FrameCodec` follows the bytes of one client: the accept thread's single login
read, then `RecvThrd.run` and `DeCode`. A byte is its offset in the stream, and
`cBuff` always holds the last `nRcvPos` of the `pos` bytes read, so `pos`,
`nRcvPos` and `nCursor` say what `DeCode` sees: the byte `Offset`. The actions
are the read (of any number of bytes there is room for) and the four outcomes of
`DeCode`; `Compact` is the `arraycopy` at the end of a round, and an error drops
the buffer instead. Where the cursor is inside a frame, the header may say
anything. `recvMsgList` and `sendMsgList` hold the offsets at which the messages
and the answered commands were found; nothing takes from them here, since what
happens to a queued message is `Gateway`'s subject. The literal 20 of the login
read is `MSGHDRLEN`.

A frame's header claims its length or one out of range; a length that is wrong
but in range is left out, since no receiver could tell. The session begins after a
login that was accepted. AppSvr's `TcpSvrBase` has the same code.

### Run

`frame_codec` checks everything on a header of 2 bytes, a buffer of 4, a login of
3, frames of 2 bytes (a header alone) and 4 (a full buffer), and a login buffer of
5 bytes, which may take one frame beyond the login or part of one. Three frames
let one be whole, one cut and one in error in every order. After an
error or a cut login the session may be out of step; `InStep` says when it is not.

`CursorAdvances` is about `DeCode`'s loop, which reads a length from the stream and moves on
by it: each round that does not return to the read passes at least a header, whatever
the bytes say and whether or not the session is in step. Without the lower bound in
`ValidLen` a length of zero would make the thread decode one header for ever.

`EverythingDecoded` assumes weak fairness of `RecvThrd`: the thread is scheduled,
and its read returns once bytes are there. The client need not send anything.

### Proofs

`FrameCodecProofs` proves the five invariants and `CursorAdvances` for every size and number of
frames (`CodecAssumption`: a header fits the buffer, the login and every frame).
`IInv` adds: `Layout`, the client's frames lie end to end; `Honest`, a length in
range is the true one; `Behind`, what has been decoded lies before the cursor;
`Aligned`, a session that began between two frames has its cursor between two
frames; `AtFront`, the cursor is 0 before a read. `InStep` needs `Aligned` to know
that the header read is a frame's, and `Layout` to know that its length leads to the
next frame and to no other in between. `DeCodeEnds` (`CursorAdvances`) follows from
`IInv` step by step: `Compact` and a read move the buffer under the cursor but not the
byte it stands at, and the rounds that decode move it by a valid length.

## 6. Alerts

### State and actions

`Alerts` models the two programs that write the alert tables: AppSvr2's message
thread (`MsgCtrl.run`, `AppDeviceAlertReqBean.execRequest`; AppSvr's bean executes the
same statements) and, in the RMI server, what operators do (`AlertInfoBean.Deal`,
`GISDeal`, `RmiExec`, `doUpdate`). Every SQL statement is a transaction of its own and
one action.

| module | code |
|---|---|
| `inbox`, `report`, `stmt` | `recvMsgList`, the report being executed and the statement `execRequest` is at |
| `alert_info` | the table, rows in the order of `sn` |
| `alert_now` | the table: of the row of a key its `sn`, status and operator |
| `onoff` | `device_detail.onoff` |
| `request` | where an operator's `Deal` or `GISDeal` is, with the SN he sends; `seen` (no code): the alerts of that key in the log when he opened it |
| `reported`, `failed` | no code: what a gateway has last reported, and whether a statement of that report was lost |

A key stands for what `cpm_id`, `id` and `attr_id` name together: a gateway, a device
or an attribute. It decides which statements a report leads to (`First`, `After`).
Level and texts are left out, and so are the tables `data` and `data_now`, which the
statements of an attribute's report pass through. No program of the repository inserts
into `alert_now`, and its schema is not in the repository either. The pages can only work
if the database does so itself when a row of `alert_info` is inserted; that is an
assumption, stated apart from the code's statement (`Insert`) as `Trigger`, and as weak as
can be: the key's one row is open afterwards, and its `sn` is the one it had or another. What
the properties say of `alert_now` rests on it; what they say of the log does not. `Faults` selects
what may fail. `"sql"`: a statement raises `SQLException`, `doUpdate` answers `FALSE`,
nobody looks, the next statement follows. `"commit"`: the commit fails, when `IsOK` is
already true in the RMI server. `"conn"`: there is no connection, and the
`NullPointerException` ends the bean or the page. `"crash"`: AppSvr2 restarts.

### Properties and runs

`StoreFollowsReports` relates four tables and the queue: whenever every report about a
key has been executed, and none of the last one's statements was lost, log, map and
device table tell what was reported last, whatever operators did between the
statements and whatever earlier reports lost. `AnsweredIsHandled` is about the answer "0000", which both pages give as soon as their
first statement has changed a row. Whoever is about to be told so is entered in that
row, whatever others do meanwhile: by `Deal` at the list in the row of the log, by
`GISDeal` at the map in the row of `alert_now`, unless another alert of the key has been logged
since he opened his and has taken the row over. It does not say that the log names him who
answered at the map: `GISDeal` does not ask what its second statement changed, and an
operator at the list may have been there before. So two operators, one at each page, may
both be told that they handled one alert. Where the commit of the first statement fails
(`lost`) nothing is promised at all.
`ImplementsAlertBook`: the log, seen as `AlertBook`, never loses, reopens
or closes twice.

| run | instance | shows |
|---|---|---|
| `alerts` | a gateway and an attribute, two operators, all faults, one report queued, two alerts | the above |
| `alerts_unseen` | finding; a device, one operator, no faults | `OnlySeenHandled` is violated |

A gateway's and an attribute's report have all statements between them (a device's are a
part of an attribute's, and are in the second run). Two operators meet at one row and at
two rows of one key; a report that is queued while another is executed lets reports
follow one another without a gap. A third alert would be to the first two what they
are to each other. Nothing here is promised to happen: a report may be lost with a
restart, so no liveness is stated.

### Proofs

`AlertsProofs` proves the four of the run for every set of keys and operators, every choice of
faults and every bound. `KeyInv(k)` is the core of the invariant: the last report about
`k` in the inbox, or the one being executed, is the last one made (`LastIsReported`);
what the statements of a report have done so far is still there (`Underway`), because
operators only shrink the set of open rows; and `Stored(k)` otherwise. `RowsOK` says
that a row is open exactly as long as nobody is entered as its operator, which
`AnsweredIsHandled` and the refinement rest on. `OneAnswerEach` draws the consequence for
two operators at the same page: at most one of them is answered "0000" for an alert, but for the map's
when another alert of the key was logged since.

`ClosedAlertsAreFinal` is a consequence of the refinement: every step of an alert book
keeps the rows of the log, and changes none that is closed; so nobody's name as the
operator who handled an alert is ever replaced.

## 7. Command path

### State and actions

`CommandPath` composes the others' results: a command goes from the web over the RMI
server and the gateway to a device, through four queues in two processes.

| place | code |
|---|---|
| `SendMsgList` | `TPCClient.sendMsgList`; one list, whichever connection is in use |
| `Taken(c)` | the frame the send thread of connection `c` has removed from it and not yet written |
| `Wire(c)` | bytes under way |
| `Buffer(c)` | what the gateway's receive thread of session `c` has read and not yet queued |
| `RecvMsgList` | `TcpSvr.recvMsgList` |
| `Channel(c)` | `ClientSocket.sendMsgList` of a device's session |
| `Flight(c)` | what the session's send thread has removed from it, written or not, and the device has not received |
| `Device(d)` | what `d` has received |

`current` and `live` are the session table of `Sessions`, used through `INSTANCE` with
its `Login` and `Logout`; that the gateway's table behaves so is `ImplementsSessions` of
section 3. What becomes of a connection's threads is reduced to what commands can
tell, at either end:

- At the RMI server (`sender`), the send thread of a lost connection runs on for a while, because it
  looks at the shared field, and may take a command it can only lose (`Take`, `Write`). When
  its write fails, or the receive thread's read, it closes whatever connection is in
  use (`CloseShared`); and a connection whose field another thread has cleared loses its
  threads although it is there (`SenderEnds`).
- At the gateway, `ClientClose(k)` closes the session the key has, whichever it is. `Evict`
  calls it for a session whose client is gone. `CheckClient` calls it for a client that
  logs in although it has a session (`LoginAgain`). And every session closed leaves
  threads that call it once more before they end (`stale`, `StaleThrd`): they close a
  healthy session when the client has logged in again. `stale` is a set of keys: how many
  threads are left, or of which session, is not kept, so the calls may come
  at any time and more often than in the code. The receive thread of a session that
  has been closed or replaced still queues what it has read (`SetRecvMsgList`).

`DisPatch` is `MsgCtrl`, `DeviceControlBean.execRequest` and `TcpSvr.DisPatch` in one
step: `MsgCtrl` holds the one command meanwhile and the table is locked when it decides.
`Main` starts one `MsgCtrl` thread.

Faults: a connection of a device or of the RMI server fails, at once noticed or not;
the gateway restarts; the RMI server restarts. Each empties the places that are lost with
it. `MaxFaults` bounds them together. Answers of devices are not modelled: no program
matches them with commands.

### Properties and runs

`ImplementsCourier`: whatever fails, a command reaches no device but its own and none
twice. `ImplementsOutbox`: the RMI server here sends as the one of `Uplink` does.
`NoneStranded`: whatever is with a send thread, on a wire or in a session's queue, the
thread or session that moves it on is still there. `LostOnlyWhenDisconnected` names the
ways in which a command may be lost: a restart; no session of its device when it is
dispatched; a thread of a connection that is gone; `ClientClose` of the session it is on. Of the
last it says when that may happen to the RMI server's session: only when the client is gone, or
threads of an earlier session or connection are left at one of the two ends. A device's session
may be closed at any time, since the device may log in again at any time. `OvertakenOnlyByReconnect`: two
commands for one device arrive in order unless the RMI server reconnected between them;
then they may not, because the old session's receive thread races with the new one's.

`EveryCommandSettles`: once the faults end, no command stays under way for ever, whoever
closes which session: behind the queue of the RMI server it is delivered or lost, and in that
queue it stays only while the RMI server is without a session again and again (the chase of
section 4). `DeliveredWhenConnected`: a command submitted when the faults are over, device and
RMI server are connected and no thread of an earlier connection or session of either is left, at
either end, arrives, unless the device logs in again meanwhile. Each condition is needed: a thread left behind
closes the session and the command goes with it.

| run | instance | shows |
|---|---|---|
| `commands` | 2 commands for one device, 3 connections, 1 fault | the above |
| `commands_lost` | finding, no fault | `SuccessIsKept` is violated |

Both commands name the one device, so that they can overtake each other. Three connections are the
RMI server's, its previous one and the device's. The one fault (a connection fails, the gateway or the
RMI server restarts) may come at any point; stale closes and repeated logins are no faults and not
bounded, so the consequences of one fault last as long as they can. With one device a command
cannot reach the wrong one in the run; that it does not is part of what is proved
(`CommandsArriveOnce`), and the safety properties have been checked with two devices and with two faults as well.
The commands may be all taken and the connections stay up, so the run does not ask for
the absence of deadlock.

Fairness (`FairSpec`): every thread that has a command to move is scheduled (`SendThrd`,
`Session`, `DisPatch`); a gone client is noticed (`Evict`), which is `LostClientEvicted` of
section 3; the RMI server connects again whenever it has no session, which is `LogsInAgain` of
section 4: its login is answered, though the connection may be closed the moment after. The threads
left behind (`SenderEnds`, `StaleThrd`) are under no fairness, so they may close the new session at any time or
never. Devices are under no fairness.

### Proofs

`CommandPathProofs` proves `TypeOK`, `OvertakenOnlyByReconnect` and the refinement of
`Courier`, `CommandLossProofs` the rest of the safety properties, for every set of
commands, devices and connections and every number of faults.
The invariant: a command is in one place, once (`Once`); its place agrees with its
target and with the connection it was taken for (`AllBelong`), in particular what is in
`Channel(c)` or `Flight(c)` is for the client whose session `c` is; the queue of the RMI server has the
commands submitted last (`LastAreQueued`); and of two commands of one connection for one
device the earlier one is further along (`InLine`), where `Rank` orders the places.
Each is proved of three kinds of steps (a command moves, commands disappear, nothing
moves), and every action is one of them.

`NoneStranded` is inductive next to that invariant; `Manned(p)` states it of one place, and
is what a move into `p` must bring about and what the end of a thread or session must
leave alone: a send thread ends only when it holds nothing, and `ClientClose` empties the
session's places with it. `LossesHaveACause` sums up, kind by kind, what a step can
take out of the places.

`FaultlessLossesAreTheDevices` says what is left when nothing fails: until the first failing
connection or restart no command is lost between the two servers. A command is lost only in
`MsgCtrl`, for want of a session (the finding of `commands_lost`), or with the
session of its device, which a login in its place or a thread of an earlier session closes (the finding
of `gateway_stale_close`). It needs one more invariant, `Undisturbed`: until the first
fault no connection is broken, the RMI server has one connection at most and its session has never been
closed.

`CommandPathImplementsOutbox` uses `NoneStranded` (a thread's frame does not outlive the
thread). `CommandsArriveOnce` and `SettledForGood` state what a user of `Courier` relies
on: a device gets no command but its own and none twice, and a delivered or lost command
is never sent again. Liveness is only model-checked.

## 8. Findings

1. `gateway_stale_close`. `ClientClose` takes a key, not a session. When a client
   has logged in again, the threads of its previous session still wake up (after
   a failed read, after the monitor's `sleep(2000)`), call `ClientClose(m_ClientKey)`
   and close the new session. The client logs in again and the story may repeat.
2. `gateway_lost_offline` (AppSvr). A session that ends before its login has been
   answered leaves the client shown online for ever: its OFFLINE notice is queued
   before its ONLINE notice.
3. `alerts_unseen`. An operator at the map is asked to confirm that "the current alert"
   has been handled; the second statement of `GISDeal` closes every open alert of the
   same key, those logged after he opened it included.
4. `uplink_stale_close`. A receive thread of `TPCClient` whose stream has ended closes the
   connection the shared field refers to, which may be a newer one, and says that the server
   closed it. The threads of the connection it closed may do the same to the next
   (section 4).
5. `commands_lost`. The page says "success" when a command has been queued in the RMI
   server. If the device has no session, the gateway drops the command, and the code
   that would have told the RMI server is commented out.

Met while modelling, and left to the models rather than stated as findings:

- A connection whose login does not arrive in time, or whose first command is not a
  login, is forgotten by the accept thread with its socket open, although a comment says
  it is disconnected (`TcpSvrBase.java:83`). `Gateway` has it: only the garbage collector
  closes such a socket (`GiveUp`, `Finalize`).
- An operator at the list and one at the map may both be told that they have handled the
  same alert, and after a failed commit an operator is told so although he has not: no
  document says otherwise (section 6).
- When `Main`'s `init` fails after the connection is made, the monitor takes the
  connection, which has no threads, for a working one until the active tests run
  out; only then does it reconnect (`startup = "failed"` in `Uplink`, excluded by
  name from `ConnectedIsServed`, covered by `LogsInAgain`).
- `Deal` closes the key's row of `alert_now` even if a newer alert of the key is open: the
  map then shows nothing although the list does. `Stored` allows it.
- The monitor's count is compared with `COMM_ACTIVE_TEST`, a message code.

## 9. Not modelled

- The action table: nothing is ever put into it. Sequence numbers: no answer is matched
  by them. `ClientContainer` is never filled, `APCClient` never created, and the gateway's
  own `TcpClient` is configured off and has the design `Uplink` models.
- The beans other than the alert and device-control beans (`AppDeviceDataReqBean`,
  `AppDeviceStatusReqBean`, `DeviceListBean`, `DeviceAttrBean`, `DeviceActBean`, ...)
  parse a frame and execute one statement that does not look at what is stored.
- `UserRoleBean` deletes and inserts a role's rights in separate transactions. Nothing in the
  repository says what readers may see in between, so no property is stated.
- Queries, stored procedures, result pages, the start-up order of the servers: they are
  straight-line code; their mistakes are listed as hazards in `PROJECT.json`.
- The JDBC pool and driver, except for how their failures are treated (section 6).
- The web application's pages and the scripts below `WebRoot`, most of which are libraries of
  third parties: presentation. What an operator does at the alert pages is in `Alerts`.
- Database calls that never return: every call in the models returns or fails.
