-------------------------- MODULE FrameCodecProofs --------------------------
(***************************************************************************)
(* Proofs about FrameCodec, for every header and buffer size and any       *)
(* sizes and number of frames.                                             *)
(*                                                                         *)
(* RoomToRead holds because DeCode waits only for a length it has found to *)
(* fit the buffer.  InStep rests on the layout of the stream: frames lie   *)
(* end to end, so skipping the length of the frame at the cursor leads to  *)
(* the next boundary, and no other frame begins in between.                *)
(***************************************************************************)
EXTENDS FrameCodec, SequenceTheorems, TLAPS

\* The client's frames lie end to end, and none is shorter than a header.
Layout ==
  /\ \A i \in DOMAIN sent : MSGHDRLEN <= sent[i].size
  /\ \A i \in DOMAIN sent : i # Len(sent) => sent[i + 1].at = End(i)
  /\ \A i, j \in DOMAIN sent : i < j => End(i) <= sent[j].at

\* A header claims its frame's length or one DeCode refuses.
Honest == \A i \in DOMAIN sent : ValidLen(sent[i].len) => sent[i].len = sent[i].size

\* What has been decoded lies before the cursor.
Behind == /\ \A o \in Range(recvMsgList) : o < Offset
          /\ \A o \in Range(sendMsgList) : o < Offset

\* A session that began between two frames is between two frames at the cursor.
Aligned == base \in Boundaries => Offset \in Boundaries

\* Before a read the buffer's contents are at its front; before the session begins
\* nothing has been read.
AtFront == /\ pc \in {"login", "read"} => nCursor = 0
           /\ pc = "login" => pos = 0 /\ nRcvPos = 0

IInv == /\ TypeOK /\ RoomToRead
        /\ Layout /\ Honest /\ AtFront
        /\ Behind /\ OnceInOrder
        /\ Aligned /\ InStep /\ NoneLeftBehind

-----------------------------------------------------------------------------
(* The layout of the stream *)

\* Every frame ends by the end of the stream and is at least a byte long.
LEMMA Ends ==
  ASSUME TypeOK, Layout
  PROVE  /\ DOMAIN sent = 1..Len(sent)
         /\ Len(sent) \in Nat /\ Len(sent) \in DOMAIN sent
         /\ Written \in Nat
         /\ \A i \in DOMAIN sent : /\ sent[i].at \in Nat /\ End(i) \in Nat
                                   /\ sent[i].size \in Nat /\ sent[i].len \in Nat
                                   /\ sent[i].kind \in Kinds
                                   /\ sent[i].at < End(i)
                                   /\ sent[i].at + MSGHDRLEN <= End(i)
                                   /\ End(i) <= Written
<1> DEFINE F == [kind : Kinds, at : Nat, size : Nat, len : Nat]
<1>1. Len(sent) \in Nat /\ Len(sent) # 0 /\ DOMAIN sent = 1..Len(sent)
  BY LenProperties, EmptySeq DEF TypeOK
<1>2. \A i \in DOMAIN sent : sent[i] \in F
  BY <1>1, ElementOfSeq DEF TypeOK
<1>3. \A i \in DOMAIN sent : sent[i].at \in Nat /\ sent[i].size \in Nat /\ sent[i].len \in Nat
                             /\ sent[i].kind \in Kinds
  BY <1>2
<1>4. \A i \in DOMAIN sent : sent[i].at < End(i) /\ sent[i].at + MSGHDRLEN <= End(i)
  BY <1>3, CodecAssumption DEF Layout, End
<1>5. ASSUME NEW i \in DOMAIN sent PROVE End(i) <= Written
  <2>1. CASE i = Len(sent)
    BY <2>1, <1>1, <1>3 DEF Written, End
  <2>2. CASE i # Len(sent)
    <3>1. End(i) <= sent[Len(sent)].at
      BY <2>2, <1>1 DEF Layout
    <3> QED
      BY <3>1, <1>1, <1>3 DEF Written, End
  <2> QED
    BY <2>1, <2>2
<1> QED
  BY <1>1, <1>3, <1>4, <1>5 DEF Written, End

\* Two frames do not begin at one place, and the order of the frames is that of
\* their offsets.
LEMMA InOrderOfOffsets ==
  ASSUME TypeOK, Layout, NEW i \in DOMAIN sent, NEW j \in DOMAIN sent
  PROVE  /\ sent[i].at = sent[j].at => i = j
         /\ sent[i].at < sent[j].at <=> End(i) <= sent[j].at
<1>1. i \in Nat /\ j \in Nat
  BY Ends
<1>2. i < j => End(i) <= sent[j].at
  BY DEF Layout
<1>3. j < i => End(j) <= sent[i].at
  BY DEF Layout
<1> QED
  BY <1>1, <1>2, <1>3, Ends

\* What follows a frame is a boundary.
LEMMA NextBoundary ==
  ASSUME TypeOK, Layout, NEW i \in DOMAIN sent
  PROVE  End(i) \in Boundaries
<1>1. DOMAIN sent = 1..Len(sent) /\ Len(sent) \in Nat
  BY Ends
<1>2. CASE i = Len(sent)
  BY <1>2 DEF Boundaries, Written
<1>3. CASE i # Len(sent)
  <2>1. i + 1 \in DOMAIN sent /\ sent[i + 1].at = End(i)
    BY <1>1, <1>3 DEF Layout
  <2> QED
    BY <2>1 DEF Boundaries
<1> QED
  BY <1>2, <1>3

\* A header has a kind and a length.
LEMMA HeaderTypes ==
  ASSUME TypeOK, Layout, NEW h \in Headers
  PROVE  h.kind \in Kinds /\ h.len \in Nat
<1>1. CASE {i \in DOMAIN sent : sent[i].at = Offset} # {}
  BY <1>1, Ends DEF Headers
<1>2. CASE {i \in DOMAIN sent : sent[i].at = Offset} = {}
  BY <1>2, CodecAssumption DEF Headers
<1> QED
  BY <1>1, <1>2

\* In step, the header that DeCode reads is that of a frame.
LEMMA HeaderOfFrame ==
  ASSUME TypeOK, Layout, Honest, Aligned, base \in Boundaries, nUsed > 0, NEW h \in Headers
  PROVE  \E i \in DOMAIN sent : /\ sent[i].at = Offset
                                /\ h.kind = sent[i].kind /\ h.len = sent[i].len
                                /\ ValidLen(h.len) => Offset + h.len = End(i)
<1>1. Offset < Written
  BY Ends DEF TypeOK, Offset, nUsed
<1>2. PICK j \in DOMAIN sent : sent[j].at = Offset
  <2>1. Offset \in Boundaries
    BY DEF Aligned
  <2>2. Written \in Nat /\ Offset # Written
    BY <1>1, Ends
  <2>3. Offset \in {sent[i].at : i \in DOMAIN sent}
    BY <2>1, <2>2 DEF Boundaries
  <2> QED
    BY <2>3
<1>3. PICK i \in DOMAIN sent : sent[i].at = Offset /\ h = [kind |-> sent[i].kind, len |-> sent[i].len]
  <2> DEFINE here == {i \in DOMAIN sent : sent[i].at = Offset}
  <2>1. j \in here
    BY <1>2
  <2>2. Headers = {[kind |-> sent[i].kind, len |-> sent[i].len] : i \in here}
    BY <2>1 DEF Headers
  <2> QED
    BY <2>2
<1> QED
  BY <1>3 DEF Honest, End

\* Adding an element to a list adds it to the elements.
LEMMA RangeOfAppend ==
  ASSUME NEW S, NEW s \in Seq(S), NEW e \in S
  PROVE  Range(Append(s, e)) = Range(s) \union {e}
<1>1. DOMAIN s = 1..Len(s) /\ Len(s) \in Nat
  BY LenProperties
<1>2. DOMAIN Append(s, e) = 1..(Len(s) + 1)
  BY AppendProperties, LenProperties
<1> QED
  BY <1>1, <1>2, AppendProperties DEF Range

\* An element beyond all others keeps a list increasing.
LEMMA IncreasingAppend ==
  ASSUME NEW s \in Seq(Nat), NEW e \in Nat, Increasing(s), \A o \in Range(s) : o < e
  PROVE  Increasing(Append(s, e))
<1>1. DOMAIN s = 1..Len(s) /\ Len(s) \in Nat
  BY LenProperties
<1>2. DOMAIN Append(s, e) = 1..(Len(s) + 1)
  BY AppendProperties, LenProperties
<1>3. \A i \in DOMAIN s : s[i] \in Nat /\ s[i] < e
  BY <1>1, ElementOfSeq DEF Range
<1> QED
  BY <1>1, <1>2, <1>3, AppendProperties DEF Increasing

-----------------------------------------------------------------------------
(* Types, and the layout of what is sent *)

\* What the client sends begins where the stream ended.
LEMMA SendLayout ==
  ASSUME TypeOK, Layout, Honest, Send
  PROVE  /\ sent' \in Seq([kind : Kinds, at : Nat, size : Nat, len : Nat]) /\ sent' # <<>>
         /\ Layout' /\ Honest' /\ Written' \in Nat
         /\ Written <= Written'
         /\ \E e \in 1..Len(sent') : /\ DOMAIN sent' = DOMAIN sent \union {e}
                                     /\ e \notin DOMAIN sent
                                     /\ sent'[e].at = Written
                                     /\ Written' = End(e)' /\ Written < End(e)'
                                     /\ \A i \in DOMAIN sent : sent'[i] = sent[i]
<1>1. PICK f \in [kind : Kinds, at : Nat, size : Nat, len : Nat] :
        /\ f.at = Written /\ f.size \in Sizes
        /\ f.len \in {f.size, MSGHDRLEN - 1, RECV_BUFFER_SIZE + 1}
        /\ sent' = Append(sent, f)
  <2>1. PICK kind \in Kinds, size \in Sizes :
          \E len \in {size, MSGHDRLEN - 1, RECV_BUFFER_SIZE + 1} :
            sent' = Append(sent, [kind |-> kind, at |-> Written, size |-> size, len |-> len])
    BY DEF Send
  <2>3. PICK len \in {size, MSGHDRLEN - 1, RECV_BUFFER_SIZE + 1} :
          sent' = Append(sent, [kind |-> kind, at |-> Written, size |-> size, len |-> len])
    BY <2>1
  <2>2. size \in Nat /\ len \in Nat /\ Written \in Nat
    BY Ends, CodecAssumption
  <2> QED
    BY <2>3, <2>2
<1>e. PICK e \in Nat : e = Len(sent) + 1
  BY Ends
<1>2. /\ sent' \in Seq([kind : Kinds, at : Nat, size : Nat, len : Nat]) /\ sent' # <<>>
      /\ Len(sent') = e /\ sent'[e] = f /\ \A i \in 1..Len(sent) : sent'[i] = sent[i]
  <2> DEFINE F == [kind : Kinds, at : Nat, size : Nat, len : Nat]
  <2>1. sent \in Seq(F) /\ f \in F /\ sent' = Append(sent, f)
    BY <1>1 DEF TypeOK
  <2> HIDE DEF F
  <2>2. /\ sent' \in Seq(F) /\ sent' # <<>>
        /\ Len(sent') = e /\ sent'[e] = f /\ \A i \in 1..Len(sent) : sent'[i] = sent[i]
    BY <2>1, <1>e, AppendProperties
  <2> QED
    BY <2>2 DEF F
<1>3. Len(sent) \in Nat /\ DOMAIN sent = 1..Len(sent)
  BY Ends
<1>4. DOMAIN sent' = 1..e /\ DOMAIN sent' = DOMAIN sent \union {e} /\ e \notin DOMAIN sent
  <2>1. DOMAIN sent' = 1..Len(sent')
    BY <1>2, LenProperties
  <2> QED
    BY <2>1, <1>e, <1>2, <1>3
<1>5. /\ f.size \in Nat /\ MSGHDRLEN <= f.size /\ f.at \in Nat /\ Written \in Nat
      /\ MSGHDRLEN \in Nat /\ MSGHDRLEN > 0
      /\ End(e)' = Written + f.size /\ Written' = End(e)'
  <2>1. f.size \in Nat /\ MSGHDRLEN <= f.size /\ f.at \in Nat /\ MSGHDRLEN \in Nat /\ MSGHDRLEN > 0
    BY <1>1, CodecAssumption
  <2>2. Written' = End(e)'
    BY <1>2 DEF Written
  <2>3. End(e)' = f.at + f.size
    BY <1>2 DEF End
  <2> QED
    BY <1>1, <2>1, <2>2, <2>3, Ends
<1>6. \A i \in DOMAIN sent : End(i)' = End(i)
  BY <1>2, <1>3 DEF End
<1>7. Layout'
  <2>1. \A i \in DOMAIN sent' : MSGHDRLEN <= sent'[i].size
    BY <1>2, <1>3, <1>4, <1>5 DEF Layout
  <2>2. ASSUME NEW i \in DOMAIN sent', i # Len(sent') PROVE sent'[i + 1].at = End(i)'
    <3>1. i \in DOMAIN sent /\ End(i)' = End(i)
      BY <2>2, <1>2, <1>4, <1>6
    <3>2. CASE i = Len(sent)
      BY <3>1, <3>2, <1>e, <1>1, <1>2 DEF Written
    <3>3. CASE i # Len(sent)
      <4>1. i + 1 \in 1..Len(sent) /\ sent[i + 1].at = End(i)
        BY <3>1, <3>3, <1>3 DEF Layout
      <4> QED
        BY <4>1, <3>1, <1>2
    <3> QED
      BY <3>2, <3>3
  <2>3. ASSUME NEW i \in DOMAIN sent', NEW j \in DOMAIN sent', i < j PROVE End(i)' <= sent'[j].at
    <3>1. i \in DOMAIN sent /\ End(i)' = End(i)
      BY <2>3, <1>e, <1>3, <1>4, <1>6
    <3>2. CASE j = e
      <4>1. End(i) <= Written
        BY <3>1, Ends
      <4>2. sent'[j].at = Written
        BY <3>2, <1>1, <1>2
      <4> QED
        BY <3>1, <4>1, <4>2
    <3>3. CASE j # e
      <4>1. j \in DOMAIN sent /\ sent'[j] = sent[j]
        BY <3>3, <1>2, <1>3, <1>4
      <4> QED
        BY <3>1, <4>1, <2>3 DEF Layout
    <3> QED
      BY <3>2, <3>3
  <2> QED
    BY <2>1, <2>2, <2>3 DEF Layout
<1>8. Honest'
  <2>1. ValidLen(f.len) => f.len = f.size
    BY <1>1, CodecAssumption DEF ValidLen
  <2>2. \A i \in DOMAIN sent' : ValidLen(sent'[i].len) => sent'[i].len = sent'[i].size
    BY <2>1, <1>2, <1>3, <1>4 DEF Honest
  <2> QED
    BY <2>2 DEF Honest, ValidLen
<1>9. /\ Written <= Written' /\ Written' \in Nat /\ Written < End(e)' /\ Written' = End(e)' /\ e \in 1..Len(sent') /\ sent'[e].at = Written
  BY <1>1, <1>2, <1>3, <1>5
<1>10. \A i \in DOMAIN sent : sent'[i] = sent[i]
  BY <1>2, <1>3
<1> QED
  BY <1>2, <1>4, <1>7, <1>8, <1>9, <1>10

LEMMA InitInv == Init => IInv
<1> SUFFICES ASSUME Init PROVE IInv
  OBVIOUS
<1> DEFINE f == [kind |-> "logon", at |-> 0, size |-> LoginSize, len |-> LoginSize]
<1>1. sent = <<f>> /\ Len(sent) = 1 /\ DOMAIN sent = {1} /\ sent[1] = f
  BY DEF Init
<1>2. /\ sent \in Seq([kind : Kinds, at : Nat, size : Nat, len : Nat]) /\ sent # <<>>
      /\ Written \in Nat
  BY <1>1, CodecAssumption DEF Kinds, Written, End
<1>3. Range(recvMsgList) = {} /\ Range(sendMsgList) = {} /\ recvMsgList \in Seq(Nat) /\ sendMsgList \in Seq(Nat)
  BY EmptySeq DEF Init, Range
<1>4. Offset = 0 /\ FramesSince({"data"}) = {} /\ FramesSince({"test", "data"}) = {}
  BY <1>1 DEF Init, Offset, FramesSince
<1>5. TypeOK
  BY <1>2, <1>3, <1>4, CodecAssumption DEF Init, TypeOK
<1>6. Layout /\ Honest
  BY <1>1, CodecAssumption DEF Layout, Honest
<1>7. RoomToRead /\ AtFront /\ NoneLeftBehind
  BY DEF Init, RoomToRead, AtFront, NoneLeftBehind
<1>8. Behind /\ OnceInOrder
  BY <1>3 DEF Init, Behind, OnceInOrder, Increasing
<1>9. Aligned /\ InStep
  BY <1>1, <1>3, <1>4 DEF Aligned, InStep, Boundaries
<1> QED
  BY <1>5, <1>6, <1>7, <1>8, <1>9 DEF IInv

-----------------------------------------------------------------------------
(* Steps *)

\* Where the cursor is.
LEMMA Positions ==
  ASSUME TypeOK, Layout
  PROVE  /\ pos \in Nat /\ nRcvPos \in Nat /\ nCursor \in Nat /\ base \in Nat
         /\ Offset \in Nat /\ nUsed \in Nat /\ Offset + nUsed = pos
         /\ Offset <= pos /\ base <= Offset /\ pos <= Written /\ Written \in Nat
         /\ Range(recvMsgList) \subseteq Nat /\ Range(sendMsgList) \subseteq Nat
<1>1. Range(recvMsgList) \subseteq Nat /\ Range(sendMsgList) \subseteq Nat
  BY RangeOfSeq DEF TypeOK
<1>2. Written \in Nat
  BY Ends
<1> QED
  BY <1>1, <1>2, CodecAssumption DEF TypeOK, Offset, nUsed

\* A frame DeCode takes for whole lies within the buffer's contents.
LEMMA WholeFits ==
  ASSUME TypeOK, Layout, NEW h \in Headers, Whole(h)
  PROVE  h.len \in Nat /\ h.len > 0 /\ h.len <= nUsed
<1>1. h.len \in Nat
  BY HeaderTypes
<1> QED
  BY <1>1, CodecAssumption DEF Whole, ValidLen

LEMMA TypeStep ==
  ASSUME IInv, [Next]_vars
  PROVE  TypeOK' /\ Layout' /\ Honest'
<1> USE DEF IInv
<1>a. ASSUME sent' = sent PROVE Layout' /\ Honest' /\ Written' = Written
  BY <1>a DEF Layout, Honest, Written, End, ValidLen
<1>0. CASE UNCHANGED vars
  BY <1>0, <1>a DEF TypeOK, Offset, vars, lists
<1>1. CASE Send
  <2>1. /\ Layout' /\ Honest' /\ Written <= Written' /\ sent' # <<>> /\ Written' \in Nat
        /\ sent' \in Seq([kind : Kinds, at : Nat, size : Nat, len : Nat])
    BY <1>1, SendLayout
  <2>2. UNCHANGED <<pos, pc, nRcvPos, nCursor, recvMsgList, sendMsgList, base>> /\ Offset' = Offset
    BY <1>1 DEF Send, lists, Offset
  <2>3. pos' <= Written' /\ base' <= Offset'
    BY <2>1, <2>2, Positions
  <2> QED
    BY <2>1, <2>2, <2>3 DEF TypeOK
<1>2. CASE LoginRead
  BY <1>2, <1>a, Positions, CodecAssumption DEF LoginRead, TypeOK, Offset, lists, AtFront
<1>3. CASE Close
  BY <1>3, <1>a DEF Close, TypeOK, Offset, lists
<1>4. CASE Read
  BY <1>4, <1>a, Positions, CodecAssumption DEF Read, TypeOK, Offset, lists, AtFront
<1>5. CASE ParsedAll
  BY <1>5, <1>a, Positions, CodecAssumption DEF ParsedAll, Compact, TypeOK, Offset, nUsed, lists
<1>6. ASSUME NEW h \in Headers, NeedData(h) PROVE TypeOK' /\ Layout' /\ Honest'
  BY <1>6, <1>a, Positions, CodecAssumption DEF NeedData, Compact, TypeOK, Offset, nUsed, lists
<1>7. ASSUME NEW h \in Headers, Error(h) PROVE TypeOK' /\ Layout' /\ Honest'
  BY <1>7, <1>a, Positions, CodecAssumption DEF Error, TypeOK, Offset, lists
<1>8. ASSUME NEW h \in Headers, Response(h) PROVE TypeOK' /\ Layout' /\ Honest'
  <2>1. Whole(h) /\ nCursor' = nCursor + h.len /\ UNCHANGED <<sent, pos, pc, nRcvPos, recvMsgList, sendMsgList, base>>
    BY <1>8 DEF Response, lists
  <2>2. nCursor' \in 0..nRcvPos'
    BY <2>1, WholeFits, Positions DEF nUsed
  <2> QED
    <3>1. base' <= Offset' /\ pos' <= Written'
      BY <1>a, <2>1, WholeFits, Positions DEF Offset
    <3> QED
      BY <1>a, <2>1, <2>2, <3>1 DEF TypeOK
<1>9. ASSUME NEW h \in Headers, Command(h) PROVE TypeOK' /\ Layout' /\ Honest'
  <2>1. recvMsgList' \in Seq(Nat) /\ sendMsgList' \in Seq(Nat)
    BY <1>9, Positions, AppendProperties DEF Command, TypeOK
  <2>2. Whole(h) /\ nCursor' = nCursor + h.len /\ UNCHANGED <<sent, pos, pc, nRcvPos, base>>
    BY <1>9 DEF Command
  <2>3. nCursor' \in 0..nRcvPos'
    BY <2>2, WholeFits, Positions DEF nUsed
  <2> QED
    <3>1. base' <= Offset' /\ pos' <= Written'
      BY <1>a, <2>2, WholeFits, Positions DEF Offset
    <3> QED
      BY <1>a, <2>1, <2>2, <2>3, <3>1 DEF TypeOK
<1> QED
  BY <1>0, <1>1, <1>2, <1>3, <1>4, <1>5, <1>6, <1>7, <1>8, <1>9 DEF Next, RecvThrd, DeCode

LEMMA RoomStep ==
  ASSUME IInv, [Next]_vars
  PROVE  RoomToRead' /\ AtFront'
<1> USE DEF IInv, RoomToRead, AtFront
<1>0. CASE UNCHANGED vars
  BY <1>0 DEF vars
<1>1. CASE Send
  BY <1>1 DEF Send
<1>2. CASE LoginRead
  BY <1>2, CodecAssumption DEF LoginRead
<1>3. CASE Close
  BY <1>3 DEF Close
<1>4. CASE Read
  BY <1>4 DEF Read
<1>5. CASE ParsedAll
  BY <1>5, Positions, CodecAssumption DEF ParsedAll, Compact
<1>6. ASSUME NEW h \in Headers, NeedData(h) PROVE RoomToRead' /\ AtFront'
  BY <1>6, Positions, HeaderTypes, CodecAssumption DEF NeedData, Compact, HeaderThere, ValidLen
<1>7. ASSUME NEW h \in Headers, Error(h) PROVE RoomToRead' /\ AtFront'
  BY <1>7, CodecAssumption DEF Error
<1>8. ASSUME NEW h \in Headers, Response(h) PROVE RoomToRead' /\ AtFront'
  BY <1>8 DEF Response
<1>9. ASSUME NEW h \in Headers, Command(h) PROVE RoomToRead' /\ AtFront'
  BY <1>9 DEF Command
<1> QED
  BY <1>0, <1>1, <1>2, <1>3, <1>4, <1>5, <1>6, <1>7, <1>8, <1>9 DEF Next, RecvThrd, DeCode

LEMMA OnceStep ==
  ASSUME IInv, [Next]_vars
  PROVE  Behind' /\ OnceInOrder'
<1> USE DEF IInv
<1>a. ASSUME UNCHANGED lists, Offset' \in Nat, Offset <= Offset' PROVE Behind' /\ OnceInOrder'
  BY <1>a, Positions DEF Behind, OnceInOrder, Increasing, lists
<1>0. CASE UNCHANGED vars
  BY <1>0, <1>a, Positions DEF Offset, vars
<1>1. CASE Send
  BY <1>1, <1>a, Positions DEF Send, Offset
<1>2. CASE LoginRead
  BY <1>2, <1>a, Positions DEF LoginRead, Offset, AtFront
<1>3. CASE Close
  BY <1>3, <1>a, Positions DEF Close, Offset
<1>4. CASE Read
  BY <1>4, <1>a, Positions, CodecAssumption DEF Read, Offset, AtFront
<1>5. CASE ParsedAll
  BY <1>5, <1>a, Positions DEF ParsedAll, Compact, Offset, nUsed
<1>6. ASSUME NEW h \in Headers, NeedData(h) PROVE Behind' /\ OnceInOrder'
  BY <1>6, <1>a, Positions DEF NeedData, Compact, Offset, nUsed
<1>7. ASSUME NEW h \in Headers, Error(h) PROVE Behind' /\ OnceInOrder'
  BY <1>7, <1>a, Positions DEF Error, Offset
<1>8. ASSUME NEW h \in Headers, Response(h) PROVE Behind' /\ OnceInOrder'
  BY <1>8, <1>a, Positions, HeaderTypes DEF Response, Offset
<1>9. ASSUME NEW h \in Headers, Command(h) PROVE Behind' /\ OnceInOrder'
  <2>1. Offset' = Offset + h.len /\ h.len \in Nat /\ h.len > 0
    <3>1. Whole(h) /\ nCursor' = nCursor + h.len /\ UNCHANGED <<pos, nRcvPos>>
      BY <1>9 DEF Command
    <3> QED
      BY <3>1, WholeFits, Positions DEF Offset
  <2>a. ASSUME NEW s \in Seq(Nat), Increasing(s), \A o \in Range(s) : o < Offset
        PROVE  Range(Append(s, Offset)) = Range(s) \union {Offset} /\ Increasing(Append(s, Offset))
    <3>1. Offset \in Nat
      BY Positions
    <3>2. Range(Append(s, Offset)) = Range(s) \union {Offset}
      BY <3>1, RangeOfAppend
    <3>3. Increasing(Append(s, Offset))
      BY <2>a, <3>1, IncreasingAppend
    <3> QED
      BY <3>2, <3>3
  <2>b. /\ recvMsgList \in Seq(Nat) /\ Increasing(recvMsgList)
        /\ sendMsgList \in Seq(Nat) /\ Increasing(sendMsgList)
        /\ \A o \in Range(recvMsgList) : o < Offset
        /\ \A o \in Range(sendMsgList) : o < Offset
    BY DEF TypeOK, OnceInOrder, Behind
  <2>2. /\ Range(sendMsgList') = Range(sendMsgList) \union {Offset}
        /\ Increasing(sendMsgList')
    BY <1>9, <2>a, <2>b DEF Command
  <2>3. /\ Range(recvMsgList') \subseteq Range(recvMsgList) \union {Offset}
        /\ Increasing(recvMsgList')
    <3>1. recvMsgList' = Append(recvMsgList, Offset) \/ recvMsgList' = recvMsgList
      BY <1>9 DEF Command
    <3> QED
      BY <3>1, <2>a, <2>b DEF Increasing
  <2>4. /\ \A o \in Range(recvMsgList') : o < Offset'
        /\ \A o \in Range(sendMsgList') : o < Offset'
    BY <2>1, <2>2, <2>3, Positions DEF Behind
  <2> QED
    BY <2>2, <2>3, <2>4 DEF Behind, OnceInOrder, Increasing
<1> QED
  BY <1>0, <1>1, <1>2, <1>3, <1>4, <1>5, <1>6, <1>7, <1>8, <1>9 DEF Next, RecvThrd, DeCode

-----------------------------------------------------------------------------
(* In step *)

\* What the client sends afterwards changes nothing about what has been decoded.
LEMMA SendInStep ==
  ASSUME IInv, Send
  PROVE  Aligned' /\ InStep' /\ NoneLeftBehind'
<1> USE DEF IInv
<1>1. UNCHANGED <<pos, pc, nRcvPos, nCursor, recvMsgList, sendMsgList, base>> /\ Offset' = Offset
  BY DEF Send, lists, Offset
<1>2. PICK e \in 1..Len(sent') : /\ DOMAIN sent' = DOMAIN sent \union {e}
                                 /\ sent'[e].at = Written
                                 /\ Written' = End(e)' /\ Written < End(e)'
                                 /\ \A i \in DOMAIN sent : sent'[i] = sent[i]
  BY SendLayout
<1>3. Boundaries' = Boundaries \union {Written'}
  BY <1>2 DEF Boundaries
<1>4. base' \in Boundaries' => base \in Boundaries
  BY <1>1, <1>2, <1>3, Positions
<1>5. Aligned'
  BY <1>1, <1>3, <1>4 DEF Aligned
<1>6. ASSUME NEW K PROVE FramesSince(K)' = FramesSince(K)
  BY <1>1, <1>2, Positions DEF FramesSince
<1>7. InStep'
  BY <1>1, <1>4, <1>6 DEF InStep
<1>8. \A i \in DOMAIN sent : End(i)' = End(i)
  BY <1>2 DEF End
<1>9. NoneLeftBehind'
  BY <1>1, <1>2, <1>8, Positions DEF NoneLeftBehind
<1> QED
  BY <1>5, <1>7, <1>9

\* Passing the frame at the cursor adds this frame to those passed.
LEMMA NextFrame ==
  ASSUME TypeOK, Layout, NEW i \in DOMAIN sent, sent[i].at = Offset, NEW K,
         sent' = sent, base' = base, Offset' = End(i)
  PROVE  FramesSince(K)' = FramesSince(K) \union (IF sent[i].kind \in K THEN {Offset} ELSE {})
<1>1. \A j \in DOMAIN sent : sent[j].at < End(i) <=> sent[j].at < Offset \/ j = i
  BY Ends, InOrderOfOffsets, Positions
<1>2. base <= Offset
  BY Positions
<1> QED
  BY <1>1, <1>2 DEF FramesSince

LEMMA InStepStep ==
  ASSUME IInv, [Next]_vars
  PROVE  Aligned' /\ InStep'
<1> USE DEF IInv
<1>a. ASSUME UNCHANGED <<sent, recvMsgList, sendMsgList, base>>, Offset' = Offset
      PROVE  Aligned' /\ InStep'
  BY <1>a DEF Aligned, InStep, Boundaries, FramesSince, Written, End
<1>b. ASSUME UNCHANGED <<sent, recvMsgList, sendMsgList>>, base' = Offset', Offset' \in Nat, Offset <= Offset'
      PROVE  Aligned' /\ InStep'
  <2>1. \A o \in Range(recvMsgList) \union Range(sendMsgList) : ~(base' <= o)
    BY <1>b, Positions DEF Behind
  <2>2. ASSUME NEW K PROVE FramesSince(K)' = {}
    BY <1>b, Ends DEF FramesSince
  <2> QED
    BY <1>b, <2>1, <2>2 DEF Aligned, InStep
<1>0. CASE UNCHANGED vars
  BY <1>0, <1>a DEF Offset, vars, lists
<1>1. CASE Send
  BY <1>1, SendInStep
<1>2. CASE LoginRead
  BY <1>2, <1>b, Positions DEF LoginRead, Offset, AtFront, lists
<1>3. CASE Close
  BY <1>3, <1>a DEF Close, Offset, lists
<1>4. CASE Read
  BY <1>4, <1>a, Positions, CodecAssumption DEF Read, Offset, AtFront, lists
<1>5. CASE ParsedAll
  BY <1>5, <1>a, Positions DEF ParsedAll, Compact, Offset, nUsed, lists
<1>6. ASSUME NEW h \in Headers, NeedData(h) PROVE Aligned' /\ InStep'
  BY <1>6, <1>a, Positions DEF NeedData, Compact, Offset, nUsed, lists
<1>7. ASSUME NEW h \in Headers, Error(h) PROVE Aligned' /\ InStep'
  BY <1>7, <1>b, Positions DEF Error, Offset, lists
<1>8. ASSUME NEW h \in Headers, Response(h) \/ Command(h) PROVE Aligned' /\ InStep'
  <2>1. Whole(h) /\ nCursor' = nCursor + h.len /\ UNCHANGED <<sent, pos, nRcvPos, base>>
    BY <1>8 DEF Response, Command
  <2>2. Offset' = Offset + h.len /\ nUsed > 0
    BY <2>1, WholeFits, Positions DEF Offset
  <2>3. Boundaries' = Boundaries
    BY <2>1 DEF Boundaries, Written, End
  <2>4. CASE base \notin Boundaries
    BY <2>1, <2>3, <2>4 DEF Aligned, InStep
  <2>5. CASE base \in Boundaries
    <3>1. PICK i \in DOMAIN sent : /\ sent[i].at = Offset /\ h.kind = sent[i].kind
                                   /\ Offset + h.len = End(i)
      BY <2>1, <2>2, <2>5, HeaderOfFrame DEF Whole
    <3>2. Offset' \in Boundaries
      BY <2>2, <3>1, NextBoundary
    <3>3. ASSUME NEW K
          PROVE FramesSince(K)' = FramesSince(K) \union (IF h.kind \in K THEN {Offset} ELSE {})
      BY <2>1, <2>2, <3>1, NextFrame
    <3>4. base <= Offset
      BY Positions
    <3>5. CASE Response(h)
      <4>1. UNCHANGED <<recvMsgList, sendMsgList>> /\ h.kind = "resp"
        BY <3>5 DEF Response, lists
      <4>2. FramesSince({"data"})' = FramesSince({"data"})
            /\ FramesSince({"test", "data"})' = FramesSince({"test", "data"})
        BY <3>3, <4>1
      <4> QED
        BY <2>1, <2>3, <2>5, <3>2, <4>1, <4>2 DEF Aligned, InStep
    <3>6. CASE Command(h)
      <4>1. /\ sendMsgList' = Append(sendMsgList, Offset)
            /\ recvMsgList' = IF h.kind = "data" THEN Append(recvMsgList, Offset) ELSE recvMsgList
            /\ h.kind \in {"test", "data"}
        BY <3>6 DEF Command
      <4>2. Range(sendMsgList') = Range(sendMsgList) \union {Offset}
        <5>1. sendMsgList \in Seq(Nat) /\ Offset \in Nat
          BY Positions DEF TypeOK
        <5> QED
          BY <5>1, <4>1, RangeOfAppend
      <4>3. Range(recvMsgList') = Range(recvMsgList) \union (IF h.kind = "data" THEN {Offset} ELSE {})
        <5>1. recvMsgList \in Seq(Nat) /\ Offset \in Nat
          BY Positions DEF TypeOK
        <5>2. Range(Append(recvMsgList, Offset)) = Range(recvMsgList) \union {Offset}
          BY <5>1, RangeOfAppend
        <5>3. CASE h.kind = "data"
          BY <5>2, <5>3, <4>1
        <5>4. CASE h.kind # "data"
          BY <5>4, <4>1
        <5> QED
          BY <5>3, <5>4
      <4>4. /\ FramesSince({"data"})'
                 = FramesSince({"data"}) \union (IF h.kind = "data" THEN {Offset} ELSE {})
            /\ FramesSince({"test", "data"})' = FramesSince({"test", "data"}) \union {Offset}
        BY <3>3, <4>1
      <4>5. /\ {o \in Range(recvMsgList') : base <= o} = FramesSince({"data"})'
            /\ {o \in Range(sendMsgList') : base <= o} = FramesSince({"test", "data"})'
        BY <2>5, <3>4, <4>2, <4>3, <4>4 DEF InStep
      <4> QED
        BY <2>1, <2>3, <2>5, <3>2, <4>5 DEF Aligned, InStep
    <3> QED
      BY <1>8, <3>5, <3>6
  <2> QED
    BY <2>4, <2>5
<1> QED
  BY <1>0, <1>1, <1>2, <1>3, <1>4, <1>5, <1>6, <1>7, <1>8 DEF Next, RecvThrd, DeCode

LEMMA NoneLeftStep ==
  ASSUME IInv, [Next]_vars
  PROVE  NoneLeftBehind'
<1> USE DEF IInv
<1>a. ASSUME sent' = sent PROVE \A i \in DOMAIN sent : End(i)' = End(i)
  BY <1>a DEF End
<1>0. CASE UNCHANGED vars
  BY <1>0, <1>a DEF vars, NoneLeftBehind, Offset
<1>1. CASE Send
  BY <1>1, SendInStep
<1>2. CASE LoginRead
  <2>1. sent' = sent /\ pos' = Offset' /\ pos' \in Nat
    BY <1>2 DEF LoginRead, Offset, AtFront
  <2> QED
    BY <2>1, <1>a, Ends DEF NoneLeftBehind
<1>3. CASE pc' # "read"
  BY <1>3 DEF NoneLeftBehind
<1>4. CASE ParsedAll
  <2>1. sent' = sent /\ pos' = Offset' /\ pos' \in Nat
    BY <1>4, Positions DEF ParsedAll, Compact, Offset, nUsed
  <2> QED
    BY <2>1, <1>a, Ends DEF NoneLeftBehind
<1>5. ASSUME NEW h \in Headers, NeedData(h) PROVE NoneLeftBehind'
  <2>1. sent' = sent /\ pos' = pos /\ Offset' = Offset /\ nUsed > 0
    BY <1>5, Positions DEF NeedData, Compact, Offset, nUsed
  <2>2. ASSUME NEW i \in DOMAIN sent, sent[i].at = Offset PROVE pos < End(i)
    <3>1. PICK j \in DOMAIN sent : sent[j].at = Offset /\ h = [kind |-> sent[j].kind, len |-> sent[j].len]
      BY <2>2 DEF Headers
    <3>2. j = i
      BY <2>2, <3>1, InOrderOfOffsets
    <3>3. nUsed < MSGHDRLEN \/ nUsed < sent[i].size
      BY <1>5, <3>1, <3>2, Positions, CodecAssumption DEF NeedData, HeaderThere, Honest
    <3>4. sent[i].size \in Nat /\ MSGHDRLEN <= sent[i].size
      BY Ends DEF Layout
    <3> QED
      BY <2>2, <3>3, <3>4, Positions, CodecAssumption DEF End
  <2> QED
    BY <2>1, <2>2, <1>a DEF NoneLeftBehind
<1>6. ASSUME NEW h \in Headers, Error(h) PROVE NoneLeftBehind'
  <2>1. sent' = sent /\ pos' = Offset' /\ pos' \in Nat
    BY <1>6, Positions DEF Error, Offset
  <2> QED
    BY <2>1, <1>a, Ends DEF NoneLeftBehind
<1>7. ASSUME NEW h \in Headers, Response(h) \/ Command(h) PROVE pc' # "read"
  BY <1>7 DEF Response, Command
<1>8. Close \/ Read => pc' # "read"
  BY DEF Close, Read
<1> QED
  BY <1>0, <1>1, <1>2, <1>3, <1>4, <1>5, <1>6, <1>7, <1>8 DEF Next, RecvThrd, DeCode

\* Where a step leaves the cursor.
CursorMoves ==
  /\ Offset <= Offset'
  /\ pc = "parse" /\ pc' = "parse" /\ sent' = sent => Offset + MSGHDRLEN <= Offset'

\* The stream grows by a frame.
LEMMA SendGrows ==
  ASSUME TypeOK, Send
  PROVE  sent' # sent
<1>1. PICK f : sent' = Append(sent, f)
  BY DEF Send
<1>2. Len(Append(sent, f)) = Len(sent) + 1 /\ Len(sent) \in Nat
  BY LenProperties DEF TypeOK
<1> QED
  BY <1>1, <1>2

\* Each step that is no stutter moves the cursor so.
LEMMA CursorStep ==
  ASSUME IInv, Next
  PROVE  CursorMoves
<1> USE DEF IInv, CursorMoves
<1>1. ASSUME Offset <= Offset', pc # "parse" \/ pc' # "parse" PROVE CursorMoves
  BY <1>1
<1>2. CASE Send
  <2>1. UNCHANGED <<pos, nRcvPos, nCursor>> /\ sent' # sent
    BY <1>2, SendGrows DEF Send
  <2>2. Offset' = Offset /\ Offset \in Nat
    BY <2>1, Positions DEF Offset
  <2> QED
    BY <2>1, <2>2
<1>3. CASE LoginRead
  BY <1>3, Positions DEF LoginRead, Offset, AtFront
<1>4. CASE Close
  BY <1>4, Positions DEF Close, Offset
<1>5. CASE Read
  BY <1>5, Positions, CodecAssumption DEF Read, Offset, AtFront
<1>6. CASE ParsedAll
  BY <1>6, <1>1, Positions DEF ParsedAll, Compact, Offset, nUsed
<1>7. ASSUME NEW h \in Headers, NeedData(h) PROVE CursorMoves
  BY <1>7, <1>1, Positions DEF NeedData, Compact, Offset, nUsed
<1>8. ASSUME NEW h \in Headers, Error(h) PROVE CursorMoves
  BY <1>8, <1>1, Positions DEF Error, Offset
<1>9. ASSUME NEW h \in Headers, Response(h) \/ Command(h) PROVE CursorMoves
  <2>1. h.len \in Nat /\ MSGHDRLEN <= h.len
    BY <1>9, HeaderTypes DEF Response, Command, Whole, ValidLen
  <2>2. UNCHANGED <<pos, nRcvPos>> /\ nCursor' = nCursor + h.len
    BY <1>9 DEF Response, Command
  <2>3. Offset' = Offset + h.len
    BY <2>1, <2>2, Positions DEF Offset
  <2> QED
    BY <2>1, <2>3, Positions, CodecAssumption
<1> QED
  BY <1>2, <1>3, <1>4, <1>5, <1>6, <1>7, <1>8, <1>9 DEF Next, RecvThrd, DeCode

-----------------------------------------------------------------------------
(* Theorems *)

\* IInv is an inductive invariant.
THEOREM Invariance == Spec => []IInv
<1>1. IInv /\ [Next]_vars => IInv'
  BY TypeStep, RoomStep, OnceStep, InStepStep, NoneLeftStep DEF IInv
<1> QED
  BY InitInv, <1>1, PTL DEF Spec

\* The positions of RecvThrd.run stay within its buffer and what has been sent.
THEOREM TypeCorrect == Spec => []TypeOK
<1>1. IInv => TypeOK
  BY DEF IInv
<1> QED
  BY Invariance, <1>1, PTL

\* Whenever RecvThrd.run reads, its buffer has room: a read of nothing is the end of
\* the stream.
THEOREM AlwaysRoom == Spec => []RoomToRead
<1>1. IInv => RoomToRead
  BY DEF IInv
<1> QED
  BY Invariance, <1>1, PTL

\* The loop of DeCode ends whatever the bytes say: a round that does not lead back to
\* the read passes at least a header, and no byte is passed twice.
THEOREM DeCodeEnds == Spec => CursorAdvances
<1>1. IInv /\ [Next]_vars => [CursorMoves]_vars
  BY CursorStep
<1> QED
  BY Invariance, <1>1, PTL DEF Spec, CursorAdvances, CursorMoves

\* No stretch of the stream is passed on twice or out of order.
THEOREM NeverTwice == Spec => []OnceInOrder
<1>1. IInv => OnceInOrder
  BY DEF IInv
<1> QED
  BY Invariance, <1>1, PTL

\* Decoding that begins between two frames passes on exactly the client's frames,
\* however the stream is cut into reads.
THEOREM FramesKept == Spec => []InStep
<1>1. IInv => InStep
  BY DEF IInv
<1> QED
  BY Invariance, <1>1, PTL

\* A frame that has arrived whole is decoded before the next read.
THEOREM DecodedBeforeRead == Spec => []NoneLeftBehind
<1>1. IInv => NoneLeftBehind
  BY DEF IInv
<1> QED
  BY Invariance, <1>1, PTL

=============================================================================
