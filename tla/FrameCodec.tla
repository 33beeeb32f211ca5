----------------------------- MODULE FrameCodec -----------------------------
(***************************************************************************)
(* How one session cuts the byte stream of its client into frames: the     *)
(* login read of the accept thread, then the receive thread's buffer and   *)
(* DeCode.  Translated from XNY-LOCAL-AppSvr2/net/TcpSvr.java.             *)
(*                                                                         *)
(* A byte is its offset in the stream.  cBuff[0..nRcvPos-1] always holds   *)
(* the last nRcvPos of the pos bytes read, because a read appends and      *)
(* arraycopy moves what lies behind the cursor to the front; so the        *)
(* positions say which bytes the buffer holds, and DeCode looks at the     *)
(* byte Offset.  A message that is queued is named by the offset at which  *)
(* DeCode found it.                                                        *)
(***************************************************************************)
EXTENDS Integers, Sequences, Functions

CONSTANTS
  MSGHDRLEN,         \* CmdUtil.MSGHDRLEN: bytes of a frame's header
  RECV_BUFFER_SIZE,  \* CmdUtil.RECV_BUFFER_SIZE, Cmd_Sta.CONST_MAX_BUFF_SIZE
  LoginBuffer,       \* bytes of the accept thread's buffer
  LoginSize,         \* bytes of the login frame
  Sizes,             \* sizes of the other frames
  MaxFrames          \* bound: frames a client sends, the login included

ASSUME CodecAssumption ==
  /\ MSGHDRLEN \in Nat \ {0}
  /\ RECV_BUFFER_SIZE \in Nat
  /\ MSGHDRLEN <= RECV_BUFFER_SIZE
  /\ LoginBuffer \in Nat
  /\ LoginSize \in Nat
  /\ MSGHDRLEN <= LoginSize
  /\ Sizes \subseteq Nat
  /\ \A size \in Sizes : MSGHDRLEN <= size

VARIABLES
  sent,         \* the frames the client has sent: kind, at (offset), size, len (claimed)
  pos,          \* bytes read from the socket
  pc,           \* "login" (accept thread), "read", "parse" (receive thread), "closed"
  nRcvPos,      \* bytes in cBuff
  nCursor,      \* bytes of cBuff that have been decoded
  recvMsgList,  \* where in the stream the messages passed to MsgCtrl were found
  sendMsgList,  \* where in the stream the commands that were answered were found
  base          \* the offset at which decoding began, or began anew after an error

lists == <<recvMsgList, sendMsgList>>
vars  == <<sent, pos, pc, nRcvPos, nCursor, lists, base>>

\* What DeCode tells apart: COMM_LOGON and COMM_LOGOUT, any code with COMM_RESP,
\* COMM_ACTIVE_TEST, COMM_SUBMMIT and COMM_DELIVER.
Kinds == {"logon", "resp", "test", "data"}

End(i)  == sent[i].at + sent[i].size
Written == End(Len(sent))
Offset  == pos - nRcvPos + nCursor
nUsed   == nRcvPos - nCursor

Init == /\ sent = <<[kind |-> "logon", at |-> 0, size |-> LoginSize, len |-> LoginSize]>>
        /\ pos = 0
        /\ pc = "login"
        /\ nRcvPos = 0
        /\ nCursor = 0
        /\ recvMsgList = <<>>
        /\ sendMsgList = <<>>
        /\ base = 0

-----------------------------------------------------------------------------
(* The client.  It may send before its login is answered, and a header may *)
(* claim a length DeCode refuses.                                          *)

\* Mutants: the largest length is off by one, ...
ValidLenOneMore(len) == MSGHDRLEN <= len /\ len <= RECV_BUFFER_SIZE + 1

\* ... or the smallest is not looked at.
ValidLenAnySmall(len) == len <= RECV_BUFFER_SIZE

ValidLen(len) == MSGHDRLEN <= len /\ len <= RECV_BUFFER_SIZE

Send ==
  /\ Len(sent) < MaxFrames
  /\ \E kind \in Kinds, size \in Sizes :
       \E len \in {size, MSGHDRLEN - 1, RECV_BUFFER_SIZE + 1} :
         sent' = Append(sent, [kind |-> kind, at |-> Written, size |-> size, len |-> len])
  /\ UNCHANGED <<pos, pc, nRcvPos, nCursor, lists, base>>

-----------------------------------------------------------------------------
(* The accept thread.  One read is taken for the whole login; what else it  *)
(* returns is dropped with the buffer.                                     *)

LoginRead ==
  /\ pc = "login"
  /\ \E n \in 1..LoginBuffer :
       /\ n <= Written
       /\ pos' = n
       /\ base' = n
       /\ pc' = IF n < MSGHDRLEN THEN "closed" ELSE "read"
  /\ UNCHANGED <<sent, nRcvPos, nCursor, lists>>

-----------------------------------------------------------------------------
(* The receive thread                                                      *)

Read ==
  /\ pc = "read"
  /\ \E n \in 1..(RECV_BUFFER_SIZE - nRcvPos) :
       /\ n <= Written - pos
       /\ pos' = pos + n
       /\ nRcvPos' = nRcvPos + n
  /\ nCursor' = 0
  /\ pc' = "parse"
  /\ UNCHANGED <<sent, lists, base>>

\* The read returns nothing or fails: the end of the stream, the socket closed
\* by another thread, or a buffer without room.
Close ==
  /\ pc = "read"
  /\ pc' = "closed"
  /\ UNCHANGED <<sent, pos, nRcvPos, nCursor, lists, base>>

\* What DeCode may find in the header at Offset: that of the frame beginning there,
\* or, inside a frame, whatever the bytes happen to say.
Headers ==
  LET here == {i \in DOMAIN sent : sent[i].at = Offset}
  IN  IF here # {} THEN {[kind |-> sent[i].kind, len |-> sent[i].len] : i \in here}
                   ELSE [kind : Kinds, len : 0..(RECV_BUFFER_SIZE + 1)]

HeaderThere == nUsed >= MSGHDRLEN
\* Mutant: a frame is taken for whole when its header is.
WholeByHeader(h) == HeaderThere /\ ValidLen(h.len)

Whole(h) == HeaderThere /\ ValidLen(h.len) /\ h.len <= nUsed

\* Mutant: the position is not reduced by what has been decoded.
CompactKeepsPosition ==
  /\ pc' = "read"
  /\ nRcvPos' = nRcvPos
  /\ nCursor' = 0

\* The end of a round: arraycopy moves the undecoded bytes to the front.
Compact ==
  /\ pc' = "read"
  /\ nRcvPos' = nUsed
  /\ nCursor' = 0

ParsedAll ==
  /\ pc = "parse" /\ nUsed <= 0
  /\ Compact
  /\ UNCHANGED <<sent, pos, lists, base>>

\* Mutant: a frame that just fills the buffer's contents is waited for.
NeedDataAtMost(h) ==
  /\ pc = "parse" /\ nUsed > 0
  /\ ~HeaderThere \/ (ValidLen(h.len) /\ nUsed <= h.len)
  /\ Compact
  /\ UNCHANGED <<sent, pos, lists, base>>

NeedData(h) ==
  /\ pc = "parse" /\ nUsed > 0
  /\ ~HeaderThere \/ (ValidLen(h.len) /\ nUsed < h.len)
  /\ Compact
  /\ UNCHANGED <<sent, pos, lists, base>>

\* Mutant: the position is not reset.
ErrorKeepsBuffer(h) ==
  /\ pc = "parse" /\ HeaderThere
  /\ ~ValidLen(h.len) \/ (Whole(h) /\ h.kind = "logon")
  /\ pc' = "read"
  /\ nCursor' = 0
  /\ base' = pos
  /\ UNCHANGED <<sent, pos, nRcvPos, lists>>

\* An impossible length, or a code no case of DeCode names: the buffer is dropped.
Error(h) ==
  /\ pc = "parse" /\ HeaderThere
  /\ ~ValidLen(h.len) \/ (Whole(h) /\ h.kind = "logon")
  /\ pc' = "read"
  /\ nRcvPos' = 0
  /\ nCursor' = 0
  /\ base' = pos
  /\ UNCHANGED <<sent, pos, lists>>

\* Mutant: only the header of a response is skipped.
ResponseHeaderOnly(h) ==
  /\ pc = "parse" /\ Whole(h) /\ h.kind = "resp"
  /\ nCursor' = nCursor + MSGHDRLEN
  /\ UNCHANGED <<sent, pos, pc, nRcvPos, lists, base>>

Response(h) ==
  /\ pc = "parse" /\ Whole(h) /\ h.kind = "resp"
  /\ nCursor' = nCursor + h.len
  /\ UNCHANGED <<sent, pos, pc, nRcvPos, lists, base>>

Command(h) ==
  /\ pc = "parse" /\ Whole(h) /\ h.kind \in {"test", "data"}
  /\ sendMsgList' = Append(sendMsgList, Offset)
  /\ recvMsgList' = IF h.kind = "data" THEN Append(recvMsgList, Offset) ELSE recvMsgList
  /\ nCursor' = nCursor + h.len
  /\ UNCHANGED <<sent, pos, pc, nRcvPos, base>>

DeCode == \E h \in Headers : NeedData(h) \/ Error(h) \/ Response(h) \/ Command(h)

RecvThrd == Read \/ ParsedAll \/ DeCode

Next == Send \/ LoginRead \/ Close \/ RecvThrd

Spec == Init /\ [][Next]_vars

\* The receive thread is scheduled, and its read returns when bytes have arrived.
FairSpec == Spec /\ WF_vars(RecvThrd)

-----------------------------------------------------------------------------
(* Properties *)

\* The buffer's positions lie within the buffer, and its contents within what the
\* client has sent.
TypeOK ==
  /\ sent \in Seq([kind : Kinds, at : Nat, size : Nat, len : Nat])
  /\ sent # <<>>
  /\ pos \in Nat /\ pos <= Written
  /\ pc \in {"login", "read", "parse", "closed"}
  /\ nRcvPos \in 0..RECV_BUFFER_SIZE /\ nRcvPos <= pos
  /\ nCursor \in 0..nRcvPos
  /\ recvMsgList \in Seq(Nat)
  /\ sendMsgList \in Seq(Nat)
  /\ base \in Nat /\ base <= Offset

\* RecvThrd.run reads into what is left of cBuff, and takes a read of nothing for the
\* end of the stream: there is always room, for a frame DeCode waits for fits.
RoomToRead == pc = "read" => nRcvPos < RECV_BUFFER_SIZE

Boundaries == {sent[i].at : i \in DOMAIN sent} \union {Written}

FramesSince(kinds) ==
  {sent[i].at : i \in {j \in DOMAIN sent : /\ sent[j].kind \in kinds
                                           /\ base <= sent[j].at
                                           /\ sent[j].at < Offset}}

Increasing(s) == \A i, j \in DOMAIN s : i < j => s[i] < s[j]

\* No stretch of the stream is decoded twice or out of order, even after an error or
\* in a session that has lost step.
OnceInOrder == Increasing(recvMsgList) /\ Increasing(sendMsgList)

\* However the stream is cut, from the point where decoding began (or began anew)
\* between two frames, each command up to the cursor is answered, each data frame is
\* passed to MsgCtrl, and nothing else is: DeCode stays in step with the client.
InStep ==
  base \in Boundaries =>
    /\ {o \in Range(recvMsgList) : base <= o} = FramesSince({"data"})
    /\ {o \in Range(sendMsgList) : base <= o} = FramesSince({"test", "data"})

\* The receive thread does not go back to its blocking read while a frame it has
\* wholly received is still to be decoded.
NoneLeftBehind ==
  pc = "read" => \A i \in DOMAIN sent : sent[i].at = Offset => pos < End(i)

\* Whatever lengths the bytes under the cursor claim, in step or not, DeCode's loop
\* ends: each round leads back to the read or the cursor passes at least a header.
\* And the cursor never returns to a byte it has passed.
CursorAdvances ==
  [][/\ Offset <= Offset'
     /\ pc = "parse" /\ pc' = "parse" /\ sent' = sent => Offset + MSGHDRLEN <= Offset']_vars

\* A data frame the client has sent, of a session that is open and in step, that
\* MsgCtrl has not been given and no error has dropped.
Awaited(i) ==
  /\ pc \in {"read", "parse"}
  /\ i \in DOMAIN sent
  /\ base \in Boundaries
  /\ base <= sent[i].at
  /\ sent[i].kind = "data"
  /\ sent[i].at \notin Range(recvMsgList)

\* Such a frame does not stay undecoded: RecvThrd.run passes it to MsgCtrl, drops it
\* with the rest of a buffer DeCode refuses, or the session ends.
EverythingDecoded == \A i \in 1..MaxFrames : Awaited(i) ~> ~Awaited(i)

=============================================================================
