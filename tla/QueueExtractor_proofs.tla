------------------------- MODULE QueueExtractor_proofs -------------------------
(***************************************************************************)
(* Theorems about the extractors that hand out records: whose vectors an   *)
(* array holds, and which frames the queue has, for every reorder delay,   *)
(* input and size of the queue.                                            *)
(***************************************************************************)
EXTENDS QueueExtractor, DecoderLemmas, SequenceTheorems

(* The context at each place of the program: drained between two packets.  *)
Phase ==
  /\ IsOpen(dec) => Consistent(dec)
  /\ pc = "extract" /\ IsOpen(dec) => dec = Opened
  /\ pc \in {"connect", "extract", "alloc", "read"} => pkt # "null"
  /\ pc \in {"alloc", "read", "send"} \/ (pc = "return" /\ pkt # "null") =>
       IsOpen(dec) /\ dec.input = "none" /\ ~dec.out
  /\ pc = "receive" => IsOpen(dec) /\ (pkt # "null" => dec.input = "none")

(* The arrays: none is full when the next is made, and a packet whose      *)
(* picture is still to come has an empty one.                              *)
Arrays ==
  /\ \A h \in 1 .. Len(arrays) : Len(arrays[h]) > 1 => h = Len(arrays) /\ pkt = "null" /\ pc # "send"
  /\ pc = "receive" => Len(arrays) > 0
  /\ pc = "receive" /\ pkt # "null" /\ dec.out => arrays[Len(arrays)] = <<>>

RecordInv == TypeOK /\ Phase /\ Arrays /\ NewestVectors

(* The frame of the entry that entered last.                               *)
Newest == IF itemCount = 0 THEN 0 ELSE queue[itemCount - 1].frame

(* Nothing is taken out: the queue is an array filled from its first slot. *)
Filled ==
  /\ itemCount \in 0 .. MAX_FRAMES /\ front = 0 /\ rear = itemCount - 1
  /\ queue \in [Q!Slots -> Fmv] /\ data = NoFmv

(* Before the flush the queue has room, and lacks at most the frame that   *)
(* came out of the packet being decoded.                                   *)
UpToDate ==
  pkt # "null" =>
    /\ pc \in {"connect", "extract", "alloc", "read", "send", "receive"} => itemCount < MAX_FRAMES
    /\ pc \in {"connect", "extract", "alloc", "read", "send"} \/ (pc = "return" /\ ret = "ok")
         => video_frame_count = Newest
    /\ pc = "receive" =>
         video_frame_count = Newest \/ (video_frame_count = Newest + 1 /\ ~dec.out)

Ordered ==
  \A k \in 1 .. itemCount :
    LET before == IF k = 1 THEN 0 ELSE queue[k - 2].frame
    IN queue[k - 1].frame \in {before, before + 1} \/ (k = itemCount /\ Flushed)

(* What the entries point to is an array that gets no more vectors.        *)
Closed ==
  \A k \in 1 .. itemCount :
    /\ queue[k - 1].mv <= Len(arrays)
    /\ pc = "receive" => queue[k - 1].mv < Len(arrays)

IInv == RecordInv /\ Filled /\ UpToDate /\ Ordered /\ Closed

--------------------------------------------------------------------------------
(* A context without a packet and without a picture asks for a packet.     *)
LEMMA InitRecord == Init => RecordInv
<1> SUFFICES ASSUME Init PROVE RecordInv
  OBVIOUS
<1>1. TypeOK
  BY OpenedConsistent, PacketsAssumption DEF Init, TypeOK, Places, Packets, Fmv, NoFmv
<1>2. Phase
  BY DEF Init, Phase, NoCodec, Context, IsOpen
<1>3. Arrays /\ NewestVectors
  BY DEF Init, Arrays, NewestVectors, NoFmv
<1>. QED BY <1>1, <1>2, <1>3 DEF RecordInv

(* A step outside decode_packet leaves the record and its arrays alone.    *)
LEMMA RecordKept ==
  ASSUME RecordInv, UNCHANGED <<video_frame_count, arrays, fmv, withVectors>>,
         dec' \in Codec, pc' \in Places \ {"receive"}, pkt' \in Packets,
         ret' \in {"ok", "error"}, reads' \in 0 .. MaxPackets,
         pkt = "null" => pkt' = "null" /\ pc' # "send"
  PROVE  TypeOK' /\ Arrays' /\ NewestVectors'
<1>1. TypeOK'
  BY DEF RecordInv, TypeOK
<1>2. Arrays'
  BY DEF RecordInv, Arrays
<1>3. NewestVectors'
  BY DEF RecordInv, NewestVectors
<1>. QED BY <1>1, <1>2, <1>3

LEMMA createConnectionRecord == RecordInv /\ createConnection => RecordInv'
<1> SUFFICES ASSUME RecordInv, createConnection PROVE RecordInv'
  OBVIOUS
<1>1. dec' \in Codec
  BY OpenedConsistent DEF createConnection, RecordInv, TypeOK, Consistent
<1>2. TypeOK' /\ Arrays' /\ NewestVectors'
  <2>1. pkt # "null" /\ pc' \in Places \ {"receive", "send"}
    BY DEF createConnection, RecordInv, Phase, Places
  <2>. QED BY <1>1, <2>1, RecordKept DEF createConnection, RecordInv, TypeOK
<1>3. Phase'
  <2>1. CASE pc' = "exited"
    BY <2>1 DEF createConnection, RecordInv, Phase
  <2>2. CASE pc' = "extract"
    <3>1. dec' \in {Opened, NoCodec}
      BY <2>2 DEF createConnection
    <3>. QED BY <2>2, <3>1, OpenedConsistent
             DEF createConnection, RecordInv, Phase, NoCodec, Context, IsOpen
  <2>. QED BY <2>1, <2>2 DEF createConnection
<1>. QED BY <1>2, <1>3 DEF RecordInv

LEMMA CheckStreamRecord == RecordInv /\ CheckStream => RecordInv'
<1> SUFFICES ASSUME RecordInv, CheckStream PROVE RecordInv'
  OBVIOUS
<1>1. /\ pc = "extract" /\ pc' \in {"alloc", "end"} /\ (pc' = "alloc" => IsOpen(dec))
      /\ UNCHANGED <<dec, video_frame_count, pkt, ret, reads, arrays, fmv, withVectors>>
  BY DEF CheckStream
<1>2. TypeOK' /\ Arrays' /\ NewestVectors'
  <2>1. pkt # "null" /\ pc' \in Places \ {"receive", "send"}
    BY <1>1 DEF RecordInv, Phase, Places
  <2>. QED BY <1>1, <2>1, RecordKept DEF RecordInv, TypeOK
<1>3. Phase'
  BY <1>1 DEF RecordInv, Phase, Opened, Context, IsOpen
<1>. QED BY <1>2, <1>3 DEF RecordInv

LEMMA AllocRGBRecord == RecordInv /\ AllocRGB => RecordInv'
<1> SUFFICES ASSUME RecordInv, AllocRGB PROVE RecordInv'
  OBVIOUS
<1>1. /\ pc = "alloc" /\ pc' \in {"read", "done"}
      /\ UNCHANGED <<dec, video_frame_count, pkt, ret, reads, arrays, fmv, withVectors>>
  BY DEF AllocRGB
<1>2. TypeOK' /\ Arrays' /\ NewestVectors'
  <2>1. pkt # "null" /\ pc' \in Places \ {"receive", "send"}
    BY <1>1 DEF RecordInv, Phase, Places
  <2>. QED BY <1>1, <2>1, RecordKept DEF RecordInv, TypeOK
<1>3. Phase'
  BY <1>1 DEF RecordInv, Phase, IsOpen
<1>. QED BY <1>2, <1>3 DEF RecordInv

LEMMA ReadRecord == RecordInv /\ Read => RecordInv'
<1> SUFFICES ASSUME RecordInv, Read PROVE RecordInv'
  OBVIOUS
<1>1. /\ pc = "read" /\ pc' \in {"read", "send"} /\ pkt' \in Packets
      /\ reads' \in 0 .. MaxPackets /\ (pc' = "read" => pkt' = pkt)
      /\ UNCHANGED <<dec, video_frame_count, ret, arrays, fmv, withVectors>>
  BY PacketsAssumption DEF Read, RecordInv, TypeOK, Packets
<1>2. TypeOK' /\ Arrays' /\ NewestVectors'
  <2>1. pkt # "null" /\ pc' \in Places \ {"receive"}
    BY <1>1 DEF RecordInv, Phase, Places
  <2>. QED BY <1>1, <2>1, RecordKept DEF RecordInv, TypeOK
<1>3. Phase'
  BY <1>1 DEF RecordInv, Phase, IsOpen
<1>. QED BY <1>2, <1>3 DEF RecordInv

LEMMA ReturnRecord ==
  ASSUME RecordInv, NEW enough \in BOOLEAN, Return(enough)
  PROVE  RecordInv'
<1>1. /\ pc = "return"
      /\ UNCHANGED <<dec, video_frame_count, ret, reads, arrays, fmv, withVectors>>
      /\ \/ pkt = "null" /\ pc' = "end" /\ pkt' = pkt
         \/ pkt # "null" /\ pc' = "send" /\ pkt' = "null"
         \/ pkt # "null" /\ pc' = "read" /\ pkt' = pkt
  BY DEF Return, RecordInv, TypeOK
<1>2. TypeOK' /\ Arrays' /\ NewestVectors'
  <2>1. pkt' \in Packets /\ pc' \in Places \ {"receive"}
    BY <1>1 DEF RecordInv, TypeOK, Packets, Places
  <2>. QED BY <1>1, <2>1, RecordKept DEF RecordInv, TypeOK
<1>3. Phase'
  BY <1>1 DEF RecordInv, Phase, IsOpen
<1>. QED BY <1>2, <1>3 DEF RecordInv

LEMMA EndRecord == RecordInv /\ End => RecordInv'
<1> SUFFICES ASSUME RecordInv, End PROVE RecordInv'
  OBVIOUS
<1>1. /\ pc = "end" /\ pc' = "done" /\ dec' = NoCodec
      /\ UNCHANGED <<video_frame_count, pkt, ret, reads, arrays, fmv, withVectors>>
  BY DEF End
<1>2. TypeOK' /\ Arrays' /\ NewestVectors'
  BY <1>1, OpenedConsistent, RecordKept DEF RecordInv, TypeOK, Places
<1>3. Phase'
  BY <1>1 DEF RecordInv, Phase, IsOpen, NoCodec, Context
<1>. QED BY <1>2, <1>3 DEF RecordInv

(* A new array changes none of those there are.                            *)
LEMMA NewArray ==
  ASSUME arrays \in Seq(Seq(Nat)), arrays' = Append(arrays, <<>>)
  PROVE  /\ arrays' \in Seq(Seq(Nat)) /\ Len(arrays') = Len(arrays) + 1
         /\ Len(arrays) \in Nat
         /\ \A h \in 1 .. Len(arrays) : arrays'[h] = arrays[h]
         /\ arrays'[Len(arrays')] = <<>>
<1>1. <<>> \in Seq(Nat)
  OBVIOUS
<1>. QED BY <1>1, AppendProperties, LenProperties

LEMMA SendRecord == RecordInv /\ Send => RecordInv'
<1> SUFFICES ASSUME RecordInv, Send PROVE RecordInv'
  OBVIOUS
<1>1. PICK o \in SendPacket(dec, pkt) :
        /\ dec' = o.dec
        /\ IF o.ret = "ok"
           THEN pc' = "receive" /\ arrays' = Append(arrays, <<>>) /\ UNCHANGED ret
           ELSE pc' = "return" /\ ret' = "error" /\ UNCHANGED arrays
  BY DEF Send
<1>2. /\ pc = "send" /\ UNCHANGED <<video_frame_count, pkt, reads, fmv, withVectors>>
      /\ IsOpen(dec) /\ Consistent(dec) /\ dec.input = "none" /\ ~dec.out
  BY DEF Send, RecordInv, Phase
<1>3. /\ Consistent(dec') /\ (pkt # "null" => dec'.input = "none")
      /\ (o.ret # "ok" => ~dec'.out)
  BY <1>1, <1>2, SendPacketOutcome DEF RecordInv, TypeOK
<1>4. IsOpen(dec') /\ dec' \in Codec
  BY <1>3 DEF Consistent
<1>5. Phase'
  BY <1>1, <1>2, <1>3, <1>4 DEF Phase
<1>6. CASE o.ret # "ok"
  <2>1. pc' = "return" /\ ret' = "error" /\ UNCHANGED arrays
    BY <1>1, <1>6
  <2>2. TypeOK' /\ Arrays' /\ NewestVectors'
    BY <1>2, <1>4, <2>1, RecordKept DEF RecordInv, TypeOK, Places
  <2>. QED BY <1>5, <2>2 DEF RecordInv
<1>7. CASE o.ret = "ok"
  <2>1. pc' = "receive" /\ arrays' = Append(arrays, <<>>) /\ UNCHANGED ret
    BY <1>1, <1>7
  <2>2. /\ arrays' \in Seq(Seq(Nat)) /\ Len(arrays') = Len(arrays) + 1 /\ Len(arrays) \in Nat
        /\ \A h \in 1 .. Len(arrays) : arrays'[h] = arrays[h]
        /\ arrays'[Len(arrays')] = <<>>
    BY <2>1, NewArray DEF RecordInv, TypeOK
  <2>3. TypeOK'
    BY <1>2, <1>4, <2>1, <2>2 DEF RecordInv, TypeOK, Places, Fmv
  <2>4. Arrays'
    <3>1. \A h \in 1 .. Len(arrays) : ~(Len(arrays[h]) > 1)
      BY <1>2 DEF RecordInv, Arrays
    <3>2. \A h \in 1 .. Len(arrays') : h \in 1 .. Len(arrays) \/ h = Len(arrays')
      BY <2>2
    <3>3. Len(arrays'[Len(arrays')]) = 0
      BY <2>2
    <3>4. ASSUME NEW h \in 1 .. Len(arrays') PROVE ~(Len(arrays'[h]) > 1)
      <4>1. CASE h \in 1 .. Len(arrays)
        <5>1. arrays'[h] = arrays[h]
          BY <2>2, <4>1
        <5>. QED BY <3>1, <4>1, <5>1
      <4>2. CASE h = Len(arrays')
        BY <3>3, <4>2
      <4>. QED BY <3>2, <4>1, <4>2
    <3>. QED BY <2>1, <2>2, <3>4 DEF Arrays
  <2>5. NewestVectors'
    <3>1. fmv'.frame = video_frame_count'
      BY <1>2 DEF RecordInv, NewestVectors
    <3>2. CASE withVectors = 0
      BY <1>2, <3>1, <3>2 DEF RecordInv, NewestVectors
    <3>3. CASE withVectors # 0
      <4>1. /\ fmv.mv \in 1 .. Len(arrays) /\ arrays[fmv.mv] # <<>>
            /\ arrays[fmv.mv][Len(arrays[fmv.mv])] = withVectors
        BY <3>3 DEF RecordInv, NewestVectors
      <4>2. arrays'[fmv.mv] = arrays[fmv.mv] /\ fmv.mv \in 1 .. Len(arrays')
        BY <2>2, <4>1
      <4>. QED BY <1>2, <3>1, <3>3, <4>1, <4>2 DEF NewestVectors
    <3>. QED BY <3>2, <3>3
  <2>. QED BY <1>5, <2>3, <2>4, <2>5 DEF RecordInv
<1>. QED BY <1>6, <1>7

(* The vectors of a frame join the newest array and no other.              *)
LEMMA NewVectors ==
  ASSUME arrays \in Seq(Seq(Nat)), Len(arrays) > 0, NEW k \in Nat,
         arrays' = [arrays EXCEPT ![Len(arrays)] = Append(@, k)]
  PROVE  /\ arrays' \in Seq(Seq(Nat)) /\ Len(arrays') = Len(arrays) /\ Len(arrays) \in Nat
         /\ \A h \in 1 .. Len(arrays) : h # Len(arrays) => arrays'[h] = arrays[h]
         /\ arrays'[Len(arrays)] = Append(arrays[Len(arrays)], k)
         /\ Len(arrays'[Len(arrays)]) = Len(arrays[Len(arrays)]) + 1
         /\ arrays'[Len(arrays)] # <<>>
         /\ arrays'[Len(arrays)][Len(arrays'[Len(arrays)])] = k
<1> DEFINE top == Len(arrays)
           a == arrays[top]
           b == Append(a, k)
<1>1. top \in Nat /\ top \in 1 .. Len(arrays)
  BY LenProperties
<1>2. a \in Seq(Nat)
  BY <1>1, ElementOfSeq
<1>3. /\ b \in Seq(Nat) /\ Len(b) = Len(a) + 1 /\ b # <<>> /\ b[Len(a) + 1] = k
  BY <1>2, AppendProperties
<1>4. arrays' = [arrays EXCEPT ![top] = b]
  OBVIOUS
<1> HIDE DEF b
<1>5. /\ arrays' \in Seq(Seq(Nat)) /\ Len(arrays') = top
      /\ \A j \in 1 .. top : arrays'[j] = IF j = top THEN b ELSE arrays[j]
  <2> DEFINE S == Seq(Nat)
  <2>1. arrays \in Seq(S) /\ b \in S /\ top \in 1 .. Len(arrays)
    BY <1>1, <1>3
  <2> HIDE DEF S
  <2>2. /\ [arrays EXCEPT ![top] = b] \in Seq(S)
        /\ Len([arrays EXCEPT ![top] = b]) = Len(arrays)
        /\ \A j \in 1 .. Len(arrays) :
             [arrays EXCEPT ![top] = b][j] = IF j = top THEN b ELSE arrays[j]
    BY <2>1, ExceptSeq
  <2>. QED BY <1>4, <2>2 DEF S
<1>. QED BY <1>1, <1>3, <1>5 DEF b

LEMMA ReceiveRecord == RecordInv /\ Receive => RecordInv'
<1> SUFFICES ASSUME RecordInv, Receive PROVE RecordInv'
  OBVIOUS
<1>1. PICK o \in ReceiveFrame(dec) :
        /\ dec' = o.dec
        /\ IF o.ret = "ok"
           THEN HandOut /\ UNCHANGED <<pc, ret>>
           ELSE /\ pc' = "return"
                /\ ret' = IF o.ret = "error" THEN "error" ELSE "ok"
                /\ UNCHANGED <<video_frame_count, arrays, fmv, withVectors>>
  BY DEF Receive
<1>2. /\ pc = "receive" /\ UNCHANGED <<pkt, reads>>
      /\ IsOpen(dec) /\ Consistent(dec) /\ (pkt # "null" => dec.input = "none")
  BY DEF Receive, RecordInv, Phase
<1>3. /\ Consistent(dec') /\ ~dec'.out /\ (pkt # "null" => dec'.input = "none")
  BY <1>1, <1>2, ReceiveFrameOutcome
<1>4. IsOpen(dec') /\ dec' \in Codec
  BY <1>3 DEF Consistent
<1>5. Phase'
  BY <1>1, <1>2, <1>3, <1>4 DEF Phase
<1>6. CASE o.ret # "ok"
  <2>1. /\ pc' = "return" /\ ret' \in {"ok", "error"}
        /\ UNCHANGED <<video_frame_count, arrays, fmv, withVectors>>
    BY <1>1, <1>6
  <2>2. TypeOK' /\ Arrays' /\ NewestVectors'
    BY <1>2, <1>4, <2>1, RecordKept DEF RecordInv, TypeOK, Places
  <2>. QED BY <1>5, <2>2 DEF RecordInv
<1>7. CASE o.ret = "ok"
  <2> DEFINE k == video_frame_count + 1
             top == Len(arrays)
  <2>1. HandOut /\ UNCHANGED <<pc, ret>>
    BY <1>1, <1>7
  <2>2. pkt # "null" => arrays[top] = <<>>
    <3>1. pkt # "null" => dec.out
      BY <1>1, <1>2, <1>7, EmptyContextAsks
    <3>. QED BY <1>2, <3>1 DEF RecordInv, Arrays
  <2>3. k \in Nat \ {0} /\ video_frame_count' = k /\ top > 0 /\ top \in Nat
    BY <1>2, <2>1, LenProperties DEF HandOut, RecordInv, TypeOK, Arrays
  <2>4. ASSUME fmv' = [frame |-> k, mv |-> fmv.mv], UNCHANGED <<arrays, withVectors>>
        PROVE  TypeOK' /\ Arrays' /\ NewestVectors'
    <3>1. fmv.mv \in Nat /\ fmv'.frame = k /\ fmv'.mv = fmv.mv /\ fmv' \in Fmv
      BY <2>3, <2>4 DEF RecordInv, TypeOK, Fmv
    <3>2. TypeOK'
      BY <1>2, <1>4, <2>1, <2>3, <2>4, <3>1 DEF RecordInv, TypeOK
    <3>3. Arrays'
      BY <1>2, <1>3, <2>1, <2>4 DEF RecordInv, Arrays
    <3>4. NewestVectors'
      BY <2>3, <2>4, <3>1 DEF RecordInv, NewestVectors
    <3>. QED BY <3>2, <3>3, <3>4
  <2>5. ASSUME arrays' = [arrays EXCEPT ![top] = Append(@, k)],
               fmv' = [frame |-> k, mv |-> top], withVectors' = k
        PROVE  TypeOK' /\ Arrays' /\ NewestVectors'
    <3>1. /\ arrays' \in Seq(Seq(Nat)) /\ Len(arrays') = top
          /\ \A h \in 1 .. top : h # top => arrays'[h] = arrays[h]
          /\ Len(arrays'[top]) = Len(arrays[top]) + 1
          /\ arrays'[top] # <<>> /\ arrays'[top][Len(arrays'[top])] = k
      <4>1. arrays \in Seq(Seq(Nat)) /\ Len(arrays) > 0 /\ k \in Nat
        BY <2>3 DEF RecordInv, TypeOK
      <4> HIDE DEF k
      <4>. QED BY <2>5, <4>1, NewVectors
    <3>2. fmv'.frame = k /\ fmv'.mv = top /\ fmv' \in Fmv
      BY <2>3, <2>5 DEF Fmv
    <3>3. TypeOK'
      BY <1>2, <1>4, <2>1, <2>3, <2>5, <3>1, <3>2 DEF RecordInv, TypeOK
    <3>4. Arrays'
      <4>1. ASSUME NEW h \in 1 .. Len(arrays'), Len(arrays'[h]) > 1
            PROVE  h = Len(arrays') /\ pkt' = "null" /\ pc' # "send"
        <5>1. CASE h # top
          BY <3>1, <4>1, <5>1 DEF RecordInv, Arrays
        <5>2. CASE h = top
          <6>1. pkt # "null" => Len(arrays[top]) = 0
            BY <2>2
          <6>. QED BY <1>2, <2>1, <3>1, <4>1, <5>2, <6>1
        <5>. QED BY <5>1, <5>2
      <4>. QED BY <1>3, <2>3, <3>1, <4>1 DEF Arrays
    <3>5. NewestVectors'
      BY <2>3, <2>5, <3>1, <3>2 DEF NewestVectors
    <3>. QED BY <3>3, <3>4, <3>5
  <2>6. TypeOK' /\ Arrays' /\ NewestVectors'
    BY <2>1, <2>4, <2>5 DEF HandOut
  <2>. QED BY <1>5, <2>6 DEF RecordInv
<1>. QED BY <1>6, <1>7

LEMMA RecordStutters == RecordInv /\ UNCHANGED vars => RecordInv'
  BY DEF RecordInv, TypeOK, Phase, Arrays, NewestVectors, vars

LEMMA RecordInductive == Spec => []RecordInv
<1>1. RecordInv /\ [Next]_vars => RecordInv'
  <2>1. RecordInv /\ Return(FALSE) => RecordInv'
    BY ReturnRecord
  <2>. QED
    BY <2>1, createConnectionRecord, CheckStreamRecord, AllocRGBRecord, ReadRecord,
       SendRecord, ReceiveRecord, EndRecord, RecordStutters DEF Next
<1>. QED BY <1>1, InitRecord, PTL DEF Spec

(* The heap, the record and the context of e_json.c keep their types, for  *)
(* every input.                                                            *)
THEOREM RecordsTyped == Spec => []TypeOK
<1>1. RecordInv => TypeOK
  BY DEF RecordInv
<1>. QED BY <1>1, RecordInductive, PTL

(* Vectors of two frames meet in one array only in the flush: no packet    *)
(* makes the decoder hand out two frames.                                  *)
THEOREM ArraysHoldOneFrame == Spec => []OneFramePerArray
<1>1. RecordInv => OneFramePerArray
  BY DEF RecordInv, Arrays, OneFramePerArray
<1>. QED BY <1>1, RecordInductive, PTL

(* The record handed out has the newest frame and ends with the newest     *)
(* vectors.                                                                *)
THEOREM RecordsAreNewest == Spec => []NewestVectors
<1>1. RecordInv => NewestVectors
  BY DEF RecordInv
<1>. QED BY <1>1, RecordInductive, PTL

--------------------------------------------------------------------------------
LEMMA WaitingIsQueue ==
  ASSUME Filled
  PROVE  /\ Waiting \in Seq(Fmv) /\ Len(Waiting) = itemCount
         /\ \A k \in 1 .. itemCount : Waiting[k] = queue[k - 1]
<1>1. itemCount \in Nat /\ \A k \in 1 .. itemCount : Q!Slot(k) = k - 1 /\ queue[k - 1] \in Fmv
  BY QueueAssumption DEF Filled, Q!Slot, Q!Slots
<1>. QED BY <1>1 DEF Waiting, Q!Waiting

LEMMA InitIInv == QueueInit => IInv
<1> SUFFICES ASSUME QueueInit PROVE IInv
  OBVIOUS
<1>1. RecordInv
  BY InitRecord DEF QueueInit
<1>2. Filled
  BY QueueAssumption DEF QueueInit, Q!Init, Filled, Fmv, NoFmv
<1>3. UpToDate /\ Ordered /\ Closed
  BY QueueAssumption DEF QueueInit, Q!Init, Init, UpToDate, Ordered, Closed, Newest
<1>. QED BY <1>1, <1>2, <1>3 DEF IInv

(* An entry goes behind those there are, or the full queue ignores it.     *)
LEMMA EnqueueFills ==
  ASSUME Filled, NEW x \in Fmv, Q!enqueueFrameData(x)
  PROVE  /\ Filled'
         /\ itemCount = MAX_FRAMES => UNCHANGED queueVars
         /\ itemCount < MAX_FRAMES =>
              /\ itemCount' = itemCount + 1 /\ queue'[itemCount] = x
              /\ \A i \in 0 .. itemCount - 1 : queue'[i] = queue[i]
<1>1. CASE itemCount = MAX_FRAMES
  BY <1>1 DEF Q!enqueueFrameData, Q!isFull, Q!vars, queueVars, Filled
<1>2. CASE itemCount < MAX_FRAMES
  <2>1. /\ rear' = itemCount /\ queue' = [queue EXCEPT ![itemCount] = x]
        /\ itemCount' = itemCount + 1 /\ UNCHANGED <<front, data>>
    BY <1>2, QueueAssumption DEF Q!enqueueFrameData, Q!isFull, Filled
  <2>. QED BY <1>2, <2>1, QueueAssumption DEF Filled, Q!Slots
<1>. QED BY <1>1, <1>2, QueueAssumption DEF Filled

(* While the queue and the counter stay as they are, so do its entries,    *)
(* and what they point to.                                                 *)
LEMMA QueueKept ==
  ASSUME IInv, UNCHANGED queueVars, Flushed => Flushed',
         Len(arrays') \in Nat, Len(arrays) \in Nat, Len(arrays) <= Len(arrays'),
         pc' = "receive" => pc = "receive" \/ Len(arrays) < Len(arrays')
  PROVE  Filled' /\ Ordered' /\ Closed' /\ Newest' = Newest
<1>1. UNCHANGED <<queue, front, rear, itemCount, data>>
  BY DEF queueVars
<1>2. Filled'
  BY <1>1 DEF IInv, Filled
<1>3. Ordered'
  BY <1>1 DEF IInv, Ordered
<1>4. \A k \in 1 .. itemCount : queue[k - 1].mv \in Nat
  BY QueueAssumption DEF IInv, Filled, Q!Slots, Fmv
<1>5. Closed'
  BY <1>1, <1>4 DEF IInv, Closed
<1>. QED BY <1>1, <1>2, <1>3, <1>5 DEF Newest

LEMMA SizeOfHeap == RecordInv => Len(arrays) \in Nat
  BY LenProperties DEF RecordInv, TypeOK

LEMMA OtherStepInv == IInv /\ OtherStep => IInv'
<1> SUFFICES ASSUME IInv, OtherStep PROVE IInv'
  OBVIOUS
<1>1. RecordInv'
  BY createConnectionRecord, CheckStreamRecord, AllocRGBRecord, ReadRecord, EndRecord
     DEF OtherStep, IInv
<1>2. UNCHANGED <<arrays, video_frame_count>> /\ UNCHANGED queueVars
  BY DEF OtherStep, createConnection, CheckStream, AllocRGB, Read, End
<1>3. \/ /\ pc \in {"connect", "extract", "alloc", "read"} /\ pkt # "null"
         /\ pc' \in {"extract", "alloc", "read", "send", "exited", "end", "done"}
      \/ pc = "end" /\ pc' = "done" /\ pkt' = pkt
  BY DEF OtherStep, createConnection, CheckStream, AllocRGB, Read, End, IInv, RecordInv, Phase
<1>4. (Flushed => Flushed') /\ pc' # "receive" /\ pc' # "return"
  BY <1>3 DEF Flushed
<1>5. Filled' /\ Ordered' /\ Closed' /\ Newest' = Newest
  BY <1>2, <1>4, SizeOfHeap, QueueKept DEF IInv
<1>6. UpToDate'
  BY <1>2, <1>3, <1>4, <1>5 DEF IInv, UpToDate, queueVars
<1>. QED BY <1>1, <1>5, <1>6 DEF IInv

LEMMA LoopReturnInv == IInv /\ LoopReturn => IInv'
<1> SUFFICES ASSUME IInv, LoopReturn PROVE IInv'
  OBVIOUS
<1>1. Q!isFull \in BOOLEAN /\ (Q!isFull <=> itemCount = MAX_FRAMES)
  BY DEF Q!isFull
<1>2. RecordInv'
  BY <1>1, ReturnRecord DEF LoopReturn, IInv
<1>3. /\ pc = "return" /\ UNCHANGED <<arrays, video_frame_count, ret>> /\ UNCHANGED queueVars
      /\ \/ pkt = "null" /\ pc' = "end" /\ pkt' = pkt
         \/ pkt # "null" /\ pc' = "send" /\ pkt' = "null"
         \/ pkt # "null" /\ pc' = "read" /\ pkt' = pkt /\ ret = "ok" /\ itemCount # MAX_FRAMES
  BY <1>1 DEF LoopReturn, Return, IInv, RecordInv, TypeOK
<1>4. (Flushed => Flushed') /\ pc' # "receive"
  BY <1>3 DEF Flushed
<1>5. Filled' /\ Ordered' /\ Closed' /\ Newest' = Newest
  BY <1>3, <1>4, SizeOfHeap, QueueKept DEF IInv
<1>6. UpToDate'
  BY <1>3, <1>5, QueueAssumption DEF IInv, UpToDate, Filled, queueVars
<1>. QED BY <1>2, <1>5, <1>6 DEF IInv

LEMMA SendInv == IInv /\ Send /\ Enqueue => IInv'
<1> SUFFICES ASSUME IInv, Send, Enqueue PROVE IInv'
  OBVIOUS
<1>1. RecordInv'
  BY SendRecord DEF IInv
<1>2. /\ pc = "send" /\ UNCHANGED <<video_frame_count, pkt>>
      /\ \/ pc' = "receive" /\ arrays' = Append(arrays, <<>>)
         \/ pc' = "return" /\ ret' = "error" /\ UNCHANGED arrays
  BY DEF Send
<1>3. UNCHANGED queueVars
  BY <1>2 DEF Enqueue
<1>4. /\ Len(arrays) \in Nat /\ Len(arrays') \in Nat /\ Len(arrays) <= Len(arrays')
      /\ pc' = "receive" => Len(arrays) < Len(arrays')
  BY <1>2, SizeOfHeap, NewArray DEF IInv, RecordInv, TypeOK
<1>5. Filled' /\ Ordered' /\ Closed' /\ Newest' = Newest
  BY <1>2, <1>3, <1>4, QueueKept DEF Flushed
<1>6. UpToDate'
  BY <1>2, <1>3, <1>5 DEF IInv, UpToDate, queueVars
<1>. QED BY <1>1, <1>5, <1>6 DEF IInv

(* A frame: nothing enters the queue, which lacks this frame from now on.  *)
LEMMA FrameInv ==
  ASSUME IInv, RecordInv', pc = "receive", UNCHANGED <<pc, pkt, ret>>, UNCHANGED queueVars,
         video_frame_count' = video_frame_count + 1, Len(arrays') = Len(arrays),
         pkt # "null" => dec.out, ~dec'.out
  PROVE  IInv'
<1>1. Filled' /\ Ordered' /\ Closed' /\ Newest' = Newest
  BY SizeOfHeap, QueueKept DEF Flushed, IInv
<1>2. UpToDate'
  BY <1>1 DEF IInv, UpToDate, queueVars
<1>. QED BY <1>1, <1>2 DEF IInv

(* The end of decode_packet: the record enters the queue.                  *)
LEMMA EntryInv ==
  ASSUME IInv, RecordInv', pc = "receive", pc' = "return",
         UNCHANGED <<pkt, video_frame_count, arrays, fmv>>,
         Q!enqueueFrameData(fmv)
  PROVE  IInv'
<1>1. fmv \in Fmv /\ fmv.mv \in Nat /\ fmv.mv <= Len(arrays) /\ fmv.frame = video_frame_count
  BY DEF IInv, RecordInv, TypeOK, NewestVectors, Fmv
<1>2. Filled'
  BY <1>1, EnqueueFills DEF IInv
<1>3. CASE itemCount = MAX_FRAMES
  <2>1. UNCHANGED queueVars
    BY <1>1, <1>3, EnqueueFills DEF IInv
  <2>2. pkt = "null"
    BY <1>3, QueueAssumption DEF IInv, UpToDate
  <2>3. Filled' /\ Ordered' /\ Closed'
    BY <2>1, SizeOfHeap, QueueKept DEF Flushed, IInv
  <2>. QED BY <2>2, <2>3 DEF IInv, UpToDate
<1>4. CASE itemCount < MAX_FRAMES
  <2>1. /\ itemCount' = itemCount + 1 /\ queue'[itemCount] = fmv /\ itemCount \in Nat
        /\ \A i \in 0 .. itemCount - 1 : queue'[i] = queue[i]
    BY <1>1, <1>4, EnqueueFills DEF IInv, Filled
  <2>2. Newest' = video_frame_count
    BY <1>1, <2>1 DEF Newest
  <2>3. UpToDate'
    BY <2>2 DEF UpToDate
  <2>4. Ordered'
    <3>1. ASSUME NEW k \in 1 .. itemCount
          PROVE  LET before == IF k = 1 THEN 0 ELSE queue'[k - 2].frame
                 IN queue'[k - 1].frame \in {before, before + 1}
      <4>1. queue'[k - 1] = queue[k - 1] /\ (k # 1 => queue'[k - 2] = queue[k - 2])
        BY <2>1
      <4>. QED BY <4>1 DEF IInv, Ordered, Flushed
    <3>2. LET before == IF itemCount = 0 THEN 0 ELSE queue'[itemCount - 1].frame
          IN fmv.frame \in {before, before + 1} \/ pkt = "null"
      BY <1>1, <2>1 DEF IInv, UpToDate, Newest
    <3>3. ASSUME NEW k \in 1 .. itemCount'
          PROVE  LET before == IF k = 1 THEN 0 ELSE queue'[k - 2].frame
                 IN queue'[k - 1].frame \in {before, before + 1} \/ (k = itemCount' /\ Flushed')
      <4>1. CASE k \in 1 .. itemCount
        BY <3>1, <4>1
      <4>2. CASE k = itemCount + 1
        BY <2>1, <3>2, <4>2 DEF Flushed
      <4>. QED BY <2>1, <4>1, <4>2
    <3>. QED BY <3>3 DEF Ordered
  <2>5. Closed'
    BY <1>1, <2>1 DEF IInv, Closed
  <2>. QED BY <1>2, <2>3, <2>4, <2>5 DEF IInv
<1>. QED BY <1>3, <1>4, QueueAssumption DEF IInv, Filled

LEMMA ReceiveInv == IInv /\ Receive /\ Enqueue => IInv'
<1> SUFFICES ASSUME IInv, Receive, Enqueue PROVE IInv'
  OBVIOUS
<1>1. RecordInv'
  BY ReceiveRecord DEF IInv
<1>2. PICK o \in ReceiveFrame(dec) :
        /\ dec' = o.dec
        /\ IF o.ret = "ok"
           THEN HandOut /\ UNCHANGED <<pc, ret>>
           ELSE /\ pc' = "return"
                /\ ret' = IF o.ret = "error" THEN "error" ELSE "ok"
                /\ UNCHANGED <<video_frame_count, arrays, fmv, withVectors>>
  BY DEF Receive
<1>3. /\ pc = "receive" /\ UNCHANGED pkt /\ IsOpen(dec) /\ Consistent(dec)
      /\ (pkt # "null" => dec.input = "none")
  BY DEF Receive, IInv, RecordInv, Phase
<1>4. CASE o.ret = "ok"
  <2>1. HandOut /\ UNCHANGED <<pc, ret>>
    BY <1>2, <1>4
  <2>2. UNCHANGED queueVars
    BY <1>3, <2>1 DEF Enqueue
  <2>3. pkt # "null" => dec.out
    BY <1>2, <1>3, <1>4, EmptyContextAsks
  <2>4. ~dec'.out
    BY <1>2, <1>3, ReceiveFrameOutcome
  <2>5. video_frame_count' = video_frame_count + 1
    BY <2>1 DEF HandOut
  <2>6. Len(arrays') = Len(arrays)
    <3>1. CASE UNCHANGED arrays
      BY <3>1
    <3>2. CASE arrays' = [arrays EXCEPT ![Len(arrays)] = Append(@, video_frame_count + 1)]
      <4>1. arrays \in Seq(Seq(Nat)) /\ Len(arrays) > 0 /\ video_frame_count + 1 \in Nat
        BY <1>3 DEF IInv, RecordInv, TypeOK, Arrays
      <4> DEFINE k == video_frame_count + 1
      <4>2. k \in Nat /\ arrays' = [arrays EXCEPT ![Len(arrays)] = Append(@, k)]
        BY <3>2, <4>1
      <4> HIDE DEF k
      <4>. QED BY <4>1, <4>2, NewVectors
    <3>. QED BY <2>1, <3>1, <3>2 DEF HandOut
  <2>. QED BY <1>1, <1>3, <2>1, <2>2, <2>3, <2>4, <2>5, <2>6, FrameInv
<1>5. CASE o.ret # "ok" /\ ret' = "ok"
  <2>1. pc' = "return" /\ UNCHANGED <<video_frame_count, arrays, fmv>>
    BY <1>2, <1>5
  <2>2. Q!enqueueFrameData(fmv)
    <3>1. Q!enqueueFrameData(fmv')
      BY <1>5, <2>1 DEF Enqueue
    <3>. QED BY <2>1, <3>1 DEF Q!enqueueFrameData
  <2>. QED BY <1>1, <1>3, <2>1, <2>2, EntryInv
<1>6. CASE o.ret # "ok" /\ ret' # "ok"
  <2>1. pc' = "return" /\ ret' = "error" /\ UNCHANGED <<video_frame_count, arrays, fmv>>
    BY <1>2, <1>6
  <2>2. UNCHANGED queueVars
    BY <2>1 DEF Enqueue
  <2>3. Filled' /\ Ordered' /\ Closed' /\ Newest' = Newest
    BY <1>3, <2>1, <2>2, SizeOfHeap, QueueKept DEF Flushed, IInv
  <2>4. UpToDate'
    BY <2>1 DEF UpToDate
  <2>. QED BY <1>1, <2>3, <2>4 DEF IInv
<1>. QED BY <1>4, <1>5, <1>6

LEMMA QueueStutters == IInv /\ UNCHANGED <<vars, queueVars>> => IInv'
<1> SUFFICES ASSUME IInv, UNCHANGED <<vars, queueVars>> PROVE IInv'
  OBVIOUS
<1>1. RecordInv'
  BY RecordStutters DEF IInv
<1>2. UNCHANGED <<pc, pkt, ret, dec, arrays, video_frame_count>> /\ UNCHANGED queueVars
  BY DEF vars
<1>3. Filled' /\ Ordered' /\ Closed' /\ Newest' = Newest
  BY <1>2, SizeOfHeap, QueueKept DEF Flushed, IInv
<1>4. UpToDate'
  BY <1>2, <1>3 DEF IInv, UpToDate, queueVars
<1>. QED BY <1>1, <1>3, <1>4 DEF IInv

LEMMA QueueInductive == QueueSpec => []IInv
<1>1. IInv /\ [QueueNext]_<<vars, queueVars>> => IInv'
  BY SendInv, ReceiveInv, LoopReturnInv, OtherStepInv, QueueStutters DEF QueueNext, DecodeStep
<1>. QED BY <1>1, InitIInv, PTL DEF QueueSpec

(* What holds of the records of e_json.c holds of those in front of the    *)
(* queue, whose loop may stop earlier.                                     *)
THEOREM QueuedRecords == QueueSpec => [](TypeOK /\ OneFramePerArray /\ NewestVectors)
<1>1. IInv => TypeOK /\ OneFramePerArray /\ NewestVectors
  BY DEF IInv, RecordInv, Arrays, OneFramePerArray
<1>. QED BY <1>1, QueueInductive, PTL

(* For every size of the queue, no entry of a packet is dropped: the loop  *)
(* looks at the queue before every packet.                                 *)
THEOREM NoEntryDropped == QueueSpec => []RoomForEveryPacket
<1>1. IInv => RoomForEveryPacket
  BY QueueAssumption DEF IInv, UpToDate, RoomForEveryPacket, Q!isFull
<1>. QED BY <1>1, QueueInductive, PTL

(* For every delay of the codec, each frame received before the flush is   *)
(* in the queue, in order.                                                 *)
THEOREM NoFrameLeftOut == QueueSpec => []EveryFrameQueued
<1>1. IInv => EveryFrameQueued
  <2> SUFFICES ASSUME IInv PROVE EveryFrameQueued
    OBVIOUS
  <2>1. /\ Waiting \in Seq(Fmv) /\ Len(Waiting) = itemCount /\ itemCount \in Nat
        /\ \A k \in 1 .. itemCount : Waiting[k] = queue[k - 1]
    BY WaitingIsQueue DEF IInv, Filled
  <2>2. \A k \in 2 .. itemCount : Waiting[k - 1] = queue[k - 2]
    BY <2>1
  <2>3. ASSUME NEW k \in 1 .. Len(Waiting)
        PROVE  LET before == IF k = 1 THEN 0 ELSE Waiting[k - 1].frame
               IN \/ Waiting[k].frame \in {before, before + 1}
                  \/ k = Len(Waiting) /\ Flushed
    BY <2>1, <2>2 DEF IInv, Ordered
  <2>4. pc = "read" =>
          video_frame_count = IF Waiting = <<>> THEN 0 ELSE Waiting[Len(Waiting)].frame
    <3>1. pc = "read" => video_frame_count = Newest
      BY DEF IInv, UpToDate, RecordInv, Phase
    <3>2. Waiting = <<>> <=> itemCount = 0
      BY <2>1
    <3>3. itemCount # 0 => Waiting[Len(Waiting)] = queue[itemCount - 1]
      BY <2>1
    <3>. QED BY <3>1, <3>2, <3>3 DEF Newest
  <2>. QED BY <2>3, <2>4 DEF EveryFrameQueued
<1>. QED BY <1>1, QueueInductive, PTL

(* An entry of the queue keeps the vectors it had when it entered: frames  *)
(* received later add theirs to other arrays.                              *)
THEOREM EntriesAreFinal == QueueSpec => EntriesKeepTheirVectors
<1>1. IInv /\ [QueueNext]_<<vars, queueVars>> =>
        [\A k \in 1 .. Len(Waiting) :
           Waiting[k].mv # 0 => arrays'[Waiting[k].mv] = arrays[Waiting[k].mv]]_<<vars, queueVars>>
  <2> SUFFICES ASSUME IInv, QueueNext, NEW k \in 1 .. Len(Waiting), Waiting[k].mv # 0
               PROVE  arrays'[Waiting[k].mv] = arrays[Waiting[k].mv]
    OBVIOUS
  <2> DEFINE m == Waiting[k].mv
  <2>1. k \in 1 .. itemCount /\ m = queue[k - 1].mv
    BY WaitingIsQueue DEF IInv
  <2>2. m \in Nat \ {0} /\ m <= Len(arrays) /\ (pc = "receive" => m < Len(arrays))
    <3>1. queue[k - 1].mv \in Nat
      BY <2>1, QueueAssumption DEF IInv, Filled, Q!Slots, Fmv
    <3>. QED BY <2>1, <3>1 DEF IInv, Closed
  <2> SUFFICES arrays'[m] = arrays[m]
    OBVIOUS
  <2> HIDE DEF m
  <2>3. Len(arrays) \in Nat /\ arrays \in Seq(Seq(Nat))
    BY SizeOfHeap DEF IInv, RecordInv, TypeOK
  <2>4. CASE Send
    <3>1. CASE arrays' = Append(arrays, <<>>)
      BY <2>2, <2>3, <3>1, NewArray
    <3>. QED BY <2>4, <3>1 DEF Send
  <2>5. CASE Receive
    <3>1. pc = "receive" /\ m < Len(arrays)
      BY <2>2, <2>5 DEF Receive
    <3>2. UNCHANGED arrays \/ arrays' = [arrays EXCEPT ![Len(arrays)] = Append(@, video_frame_count + 1)]
      BY <2>5 DEF Receive, HandOut
    <3>. QED BY <2>2, <2>3, <3>1, <3>2
  <2>6. CASE LoopReturn \/ OtherStep
    BY <2>6 DEF LoopReturn, Return, OtherStep, createConnection, CheckStream, AllocRGB, Read, End
  <2>. QED BY <2>4, <2>5, <2>6 DEF QueueNext, DecodeStep
<1>. QED BY <1>1, QueueInductive, PTL DEF QueueSpec, EntriesKeepTheirVectors

--------------------------------------------------------------------------------
(* The theorems about the queue by itself, for the records put in here.    *)
P == INSTANCE FrameQueue_proofs WITH Items <- Fmv, Garbage <- NoFmv

LEMMA SameInit == (Q!Init <=> P!Init) /\ (Q!Fifo!Init <=> P!Fifo!Init)
  BY DEF Q!Init, P!Init, Q!Slots, P!Slots, Q!Fifo!Init, P!Fifo!Init, Q!Waiting, P!Waiting,
         Q!Slot, P!Slot

LEMMA SameStep ==
  /\ [Q!Next]_Q!vars <=> [P!Next]_P!vars
  /\ [Q!Fifo!Next]_<<Q!Waiting, data>> <=> [P!Fifo!Next]_<<P!Waiting, data>>
<1>1. [Q!Next]_Q!vars <=> [P!Next]_P!vars
  BY DEF Q!Next, P!Next, Q!vars, P!vars, Q!enqueueFrameData, P!enqueueFrameData,
         Q!dequeueFrameData, P!dequeueFrameData, Q!peek, P!peek, Q!isFull, P!isFull,
         Q!isEmpty, P!isEmpty
<1>2. Q!Waiting = P!Waiting /\ Q!Waiting' = P!Waiting'
  BY DEF Q!Waiting, P!Waiting, Q!Slot, P!Slot
<1>3. [Q!Fifo!Next]_<<Q!Waiting, data>> <=> [P!Fifo!Next]_<<P!Waiting, data>>
  BY <1>2 DEF Q!Fifo!Next, P!Fifo!Next, Q!Fifo!Insert, P!Fifo!Insert, Q!Fifo!Remove,
              P!Fifo!Remove, Q!Fifo!Look, P!Fifo!Look
<1>. QED BY <1>1, <1>3

(* A step of the program is one of the queue: it inserts a record or       *)
(* leaves the queue alone.                                                 *)
LEMMA QueueStep == IInv' /\ [QueueNext]_<<vars, queueVars>> => [Q!Next]_Q!vars
<1> SUFFICES ASSUME IInv', QueueNext \/ UNCHANGED queueVars PROVE [Q!Next]_Q!vars
  OBVIOUS
<1>1. CASE UNCHANGED queueVars
  BY <1>1 DEF queueVars, Q!vars
<1>2. CASE Q!enqueueFrameData(fmv')
  <2>1. fmv' \in Fmv
    BY DEF IInv, RecordInv, TypeOK
  <2>. QED BY <1>2, <2>1 DEF Q!Next
<1>. QED BY <1>1, <1>2 DEF QueueNext, DecodeStep, Enqueue, LoopReturn, OtherStep

(* The program uses the queue as a client may, so for every size of the    *)
(* queue and every delay what it inserts makes a first-in first-out queue: *)
(* the theorem about the circular buffer holds inside the program.         *)
THEOREM RecordsAreFifo == QueueSpec => Q!ImplementsFifo
<1>1. QueueInit => P!Init
  BY SameInit DEF QueueInit
<1>2. IInv' /\ [QueueNext]_<<vars, queueVars>> => [P!Next]_P!vars
  BY QueueStep, SameStep
<1>3. QueueSpec => P!Spec
  BY <1>1, <1>2, QueueInductive, PTL DEF QueueSpec, P!Spec
<1>4. P!Spec => P!ImplementsFifo
  BY P!QueueIsFifo, QueueAssumption
<1>5. P!ImplementsFifo => Q!ImplementsFifo
  BY SameInit, SameStep, PTL DEF P!ImplementsFifo, Q!ImplementsFifo, P!Fifo!Spec, Q!Fifo!Spec
<1>. QED BY <1>3, <1>4, <1>5

--------------------------------------------------------------------------------
(* What is left to do: the packets to read and the flush; the pictures     *)
(* that may come out before the next packet; the way to that packet.       *)
Rounds == IF pkt = "null" THEN 0 ELSE MaxPackets - reads + 1

Pictures == Deliverable(dec) + (IF pc = "send" /\ pkt # "null" THEN 1 ELSE 0)

Way ==
  CASE pc = "connect" -> 8
    [] pc = "extract" -> 7
    [] pc = "alloc"   -> 6
    [] pc = "send"    -> 5
    [] pc = "receive" -> 4
    [] pc = "return"  -> 3
    [] pc = "read"    -> 2
    [] pc = "end"     -> 1
    [] OTHER          -> 0

Left == <<Rounds, Pictures, Way>>

LEMMA LeftType == RecordInv => Left \in Counts
<1> SUFFICES ASSUME RecordInv PROVE Left \in Counts
  OBVIOUS
<1>1. reads \in 0 .. MaxPackets /\ Deliverable(dec) \in Nat /\ MaxPackets \in Nat
  BY DeliverableType, PacketsAssumption DEF RecordInv, TypeOK
<1>2. Rounds \in Nat
  BY <1>1 DEF Rounds
<1>3. Pictures \in Nat
  BY <1>1 DEF Pictures
<1>4. Way \in Nat
  BY DEF Way
<1>. QED BY <1>2, <1>3, <1>4 DEF Left, Counts

LEMMA LeftTypeNext == (RecordInv => Left \in Counts)'
  BY LeftType, PTL

(* Whether or not the program has enough when decode_packet returns.       *)
LEMMA StepFalls ==
  ASSUME RecordInv, RecordInv', NEW enough \in BOOLEAN,
         \/ createConnection \/ CheckStream \/ AllocRGB \/ Read \/ Send \/ Receive
         \/ Return(enough) \/ End
  PROVE  Less(Left', Left)
<1>1. /\ Left \in Counts /\ Left[1] = Rounds /\ Left[2] = Pictures /\ Left[3] = Way
      /\ Left' \in Counts /\ Left'[1] = Rounds' /\ Left'[2] = Pictures' /\ Left'[3] = Way'
  BY LeftType, LeftTypeNext DEF Left
<1>2. /\ MaxPackets \in Nat /\ reads \in 0 .. MaxPackets
      /\ dec \in Codec /\ Deliverable(dec) \in Nat /\ Deliverable(dec') \in Nat
      /\ pkt \in Packets /\ ret \in {"ok", "error"}
  BY DeliverableType, PacketsAssumption DEF RecordInv, TypeOK
<1>3. Deliverable(Opened) = 0 /\ Deliverable(NoCodec) = 0
  BY DEF Opened, NoCodec, Context, Deliverable, Undelivered
<1>4. CASE createConnection \/ CheckStream \/ AllocRGB \/ End
  <2>1. /\ UNCHANGED <<pkt, reads>> /\ dec' \in {dec, Opened, NoCodec}
        /\ \/ pc = "connect" /\ pc' \in {"exited", "extract"}
           \/ pc = "extract" /\ pc' \in {"alloc", "end"}
           \/ pc = "alloc" /\ pc' \in {"read", "done"}
           \/ pc = "end" /\ pc' = "done"
    BY <1>4 DEF createConnection, CheckStream, AllocRGB, End
  <2>2. Rounds' <= Rounds
    BY <1>2, <2>1 DEF Rounds
  <2>3. Pictures' <= Pictures
    BY <1>2, <1>3, <2>1 DEF Pictures
  <2>4. Way' < Way
    BY <2>1 DEF Way
  <2>. QED BY <1>1, <2>2, <2>3, <2>4, LessByThird
<1>5. CASE Read
  <2>1. pkt # "null"
    BY <1>5 DEF Read, RecordInv, Phase
  <2>2. Rounds' < Rounds
    BY <1>2, <1>5, <2>1 DEF Read, Rounds
  <2>. QED BY <1>1, <2>2, LessByFirst
<1>6. CASE Send
  <2>1. /\ pc = "send" /\ pc' \in {"receive", "return"} /\ UNCHANGED <<pkt, reads>>
        /\ \E o \in SendPacket(dec, pkt) : dec' = o.dec
    BY <1>6 DEF Send
  <2>2. Deliverable(dec') <= Deliverable(dec) + (IF pkt = "null" THEN 0 ELSE 1)
    BY <1>2, <2>1, DeliverableSent
  <2>3. Rounds' <= Rounds /\ Pictures' <= Pictures /\ Way' < Way
    BY <1>2, <2>1, <2>2 DEF Rounds, Pictures, Way
  <2>. QED BY <1>1, <2>3, LessByThird
<1>7. CASE Receive
  <2>1. PICK o \in ReceiveFrame(dec) :
          dec' = o.dec /\ IF o.ret = "ok" THEN UNCHANGED pc ELSE pc' = "return"
    BY <1>7 DEF Receive
  <2>2. /\ Deliverable(dec') <= Deliverable(dec)
        /\ o.ret = "ok" => Deliverable(dec') < Deliverable(dec)
    BY <1>2, <2>1, DeliverableReceived
  <2>3. pc = "receive" /\ UNCHANGED <<pkt, reads>>
    BY <1>7 DEF Receive
  <2>4. CASE o.ret = "ok"
    <3>1. Rounds' <= Rounds /\ Pictures' < Pictures
      BY <1>2, <2>1, <2>2, <2>3, <2>4 DEF Rounds, Pictures
    <3>. QED BY <1>1, <3>1, LessBySecond
  <2>5. CASE o.ret # "ok"
    <3>1. Rounds' <= Rounds /\ Pictures' <= Pictures /\ Way' < Way
      BY <1>2, <2>1, <2>2, <2>3, <2>5 DEF Rounds, Pictures, Way
    <3>. QED BY <1>1, <3>1, LessByThird
  <2>. QED BY <2>4, <2>5
<1>8. CASE Return(enough)
  <2>1. pc = "return" /\ UNCHANGED <<dec, reads>>
    BY <1>8 DEF Return
  <2>2. CASE pkt # "null" /\ pkt' = "null"
    <3>1. Rounds' < Rounds
      BY <1>2, <2>1, <2>2 DEF Rounds
    <3>. QED BY <1>1, <3>1, LessByFirst
  <2>3. CASE pc' \in {"end", "read"} /\ UNCHANGED pkt
    <3>1. Rounds' <= Rounds /\ Pictures' <= Pictures /\ Way' < Way
      BY <1>2, <2>1, <2>3 DEF Rounds, Pictures, Way
    <3>. QED BY <1>1, <3>1, LessByThird
  <2>. QED BY <1>2, <1>8, <2>2, <2>3 DEF Return
<1>. QED BY <1>4, <1>5, <1>6, <1>7, <1>8

(* Every step of the program leaves less to do, in an order in which       *)
(* nothing goes down for ever: the program ends on every input.            *)
THEOREM RecordsRunOut == Spec => [](Left \in Counts) /\ [][Less(Left', Left)]_vars
<1>1. RecordInv /\ RecordInv' /\ [Next]_vars => [Less(Left', Left)]_vars
  BY StepFalls DEF Next
<1>. QED BY <1>1, LeftType, RecordInductive, PTL DEF Spec

(* So does every step of the program in front of the queue: a full queue   *)
(* ends its loop and does not hold it up.                                  *)
THEOREM QueueRunsOut ==
  QueueSpec => [](Left \in Counts) /\ [][Less(Left', Left)]_<<vars, queueVars>>
<1>1. IInv => RecordInv
  BY DEF IInv
<1>2. RecordInv /\ RecordInv' /\ [QueueNext]_<<vars, queueVars>> =>
        [Less(Left', Left)]_<<vars, queueVars>>
  <2>1. Q!isFull \in BOOLEAN
    BY DEF Q!isFull
  <2>. QED BY <2>1, StepFalls DEF QueueNext, DecodeStep, LoopReturn, OtherStep
<1>. QED BY <1>1, <1>2, LeftType, QueueInductive, PTL DEF QueueSpec

--------------------------------------------------------------------------------
(* The frames received, and the pictures that may still come, are those of *)
(* the packets that were read.                                             *)
FromPackets == video_frame_count + Pictures <= reads

LEMMA FromPacketsStep ==
  ASSUME RecordInv, RecordInv', FromPackets, NEW enough \in BOOLEAN,
         \/ createConnection \/ CheckStream \/ AllocRGB \/ Read \/ Send \/ Receive
         \/ Return(enough) \/ End
  PROVE  FromPackets'
<1>1. /\ video_frame_count \in Nat /\ reads \in Nat /\ dec \in Codec /\ pkt \in Packets
      /\ Deliverable(dec) \in Nat /\ Deliverable(dec') \in Nat
  BY DeliverableType DEF RecordInv, TypeOK
<1>2. Deliverable(NoCodec) = 0 /\ Deliverable(Opened) = 0
  BY DEF NoCodec, Opened, Context, Deliverable, Undelivered
<1>3. CASE createConnection \/ CheckStream \/ AllocRGB \/ End
  <2>1. /\ dec' \in {dec, NoCodec, Opened} /\ pc' # "send"
        /\ UNCHANGED <<video_frame_count, reads>>
    BY <1>3 DEF createConnection, CheckStream, AllocRGB, End
  <2>. QED BY <1>1, <1>2, <2>1 DEF FromPackets, Pictures
<1>4. CASE Read
  <2>1. /\ pc = "read" /\ UNCHANGED <<dec, video_frame_count>>
        /\ \/ pkt' = "null" /\ reads' = reads
           \/ reads' = reads + 1
    BY <1>4 DEF Read
  <2>. QED BY <1>1, <2>1 DEF FromPackets, Pictures
<1>5. CASE Send
  <2>1. /\ pc = "send" /\ pc' # "send" /\ UNCHANGED <<video_frame_count, reads>>
        /\ \E o \in SendPacket(dec, pkt) : dec' = o.dec
    BY <1>5 DEF Send
  <2>2. Deliverable(dec') <= Deliverable(dec) + (IF pkt = "null" THEN 0 ELSE 1)
    BY <1>1, <2>1, DeliverableSent
  <2>. QED BY <1>1, <2>1, <2>2 DEF FromPackets, Pictures
<1>6. CASE Receive
  <2>1. PICK o \in ReceiveFrame(dec) :
          /\ dec' = o.dec /\ pc' \in {"receive", "return"}
          /\ video_frame_count' = video_frame_count + (IF o.ret = "ok" THEN 1 ELSE 0)
    BY <1>1, <1>6 DEF Receive, HandOut
  <2>2. /\ Deliverable(dec') <= Deliverable(dec)
        /\ o.ret = "ok" => Deliverable(dec') < Deliverable(dec)
    BY <1>1, <2>1, DeliverableReceived
  <2>3. pc = "receive" /\ UNCHANGED reads
    BY <1>6 DEF Receive
  <2>. QED BY <1>1, <2>1, <2>2, <2>3 DEF FromPackets, Pictures
<1>7. CASE Return(enough)
  <2>1. /\ UNCHANGED <<dec, video_frame_count, reads>> /\ (pc' # "send" \/ pkt' = "null")
        /\ pc = "return"
    BY <1>7 DEF Return, RecordInv, TypeOK
  <2>. QED BY <1>1, <2>1 DEF FromPackets, Pictures
<1>. QED BY <1>3, <1>4, <1>5, <1>6, <1>7

LEMMA FromPacketsBound == RecordInv /\ FromPackets => video_frame_count <= reads
<1>. SUFFICES ASSUME RecordInv, FromPackets PROVE video_frame_count <= reads
  OBVIOUS
<1>1. Deliverable(dec) \in Nat /\ video_frame_count \in Nat /\ reads \in Nat
  BY DeliverableType DEF RecordInv, TypeOK
<1>. QED BY <1>1 DEF FromPackets, Pictures

LEMMA InitFromPackets == Init => FromPackets
  BY DEF Init, FromPackets, Pictures, NoCodec, Context, Deliverable, Undelivered

(* A program never receives more frames than it has read packets: the      *)
(* flush hands out what was held back and nothing twice.                   *)
THEOREM NoFrameWithoutPacket == Spec => [](video_frame_count <= reads)
<1>1. RecordInv /\ RecordInv' /\ FromPackets /\ [Next]_vars => FromPackets'
  <2>1. FromPackets /\ UNCHANGED vars => FromPackets'
    BY DEF FromPackets, Pictures, vars
  <2>. QED BY <2>1, FromPacketsStep DEF Next
<1>. QED BY <1>1, InitFromPackets, FromPacketsBound, RecordInductive, PTL DEF Spec

================================================================================
