--------------------------- MODULE ExtractMvs_proofs ---------------------------
(***************************************************************************)
(* Theorems about extract_mvs, for every reorder delay and every bound on  *)
(* runs, calls, packets and vectors: the types, the agreement of counter   *)
(* and directory, the order of the files, the protocol with the codec.     *)
(***************************************************************************)
EXTENDS ExtractMvs, DecoderLemmas, SequenceTheorems

(* The codec context at each place of the program.                         *)
CodecPhase ==
  /\ pc \in {"idle", "open", "codec"} => dec = NoCodec
  /\ pc = "check" /\ IsOpen(dec) => dec = Opened
  /\ IsOpen(dec) => Consistent(dec)
  /\ pc \in {"read", "send"} /\ IsOpen(dec) => dec.input = "none" /\ ~dec.out
  /\ pc \in {"receive", "write"} =>
       /\ IsOpen(dec)
       /\ dec.input \in IF pkt = "null" THEN {"draining", "done"} ELSE {"none"}
  /\ IsOpen(dec) /\ ~failed => dec.errors = 0
  /\ pc = "end" /\ IsOpen(dec) /\ ~failed => dec.taken = dec.frame_number

(* The counter, the codec's own count, and whose file each number is.      *)
Numbers ==
  /\ base <= video_frame_count
  /\ IsOpen(dec) => video_frame_count = base + dec.frame_number
  /\ pc \in {"open", "codec"} => video_frame_count = base
  /\ pc = "write" => base < video_frame_count
  /\ \A k \in DOMAIN mv :
       /\ mv[k].run <= run
       /\ mv[k].run = run /\ k <= base => mv[k].call < call
       /\ mv[k].run = run /\ base < k => mv[k].call = call /\ mv[k].frame = k - base
       /\ mv[k].run = run /\ mv[k].call = call => base < k
       /\ mv[k].run = run => mv[k].call <= call

IInv == TypeOK /\ CodecPhase /\ Numbers /\ OwnFiles /\ InOrder

--------------------------------------------------------------------------------
(* fopen adds one number to the directory and touches no other file.       *)
LEMMA PutFacts ==
  ASSUME NEW k, NEW f
  PROVE  /\ DOMAIN Put(k, f) = DOMAIN mv \cup {k}
         /\ Put(k, f)[k] = f
         /\ \A j \in DOMAIN mv : j # k => Put(k, f)[j] = mv[j]
         /\ Put(k, f) = [j \in DOMAIN Put(k, f) |-> Put(k, f)[j]]
<1> DEFINE g == Put(k, f)
<1>1. g = [j \in DOMAIN mv \cup {k} |-> IF j = k THEN f ELSE mv[j]]
  BY DEF Put
<1> HIDE DEF g
<1>2. DOMAIN g = DOMAIN mv \cup {k}
  BY <1>1
<1>3. g = [j \in DOMAIN g |-> g[j]]
  BY <1>1, <1>2
<1>4. g[k] = f /\ \A j \in DOMAIN mv : j # k => g[j] = mv[j]
  BY <1>1
<1>. QED BY <1>2, <1>3, <1>4 DEF g

LEMMA InitInv == Init => IInv
<1> SUFFICES ASSUME Init PROVE IInv
  OBVIOUS
<1> USE DEF Init
<1>1. TypeOK
  <2>1. mv = [k \in DOMAIN mv |-> mv[k]] /\ DOMAIN mv \subseteq Nat \ {0}
    OBVIOUS
  <2>2. \A k \in DOMAIN mv : mv[k] \in File
    OBVIOUS
  <2>3. n \in 0 .. MaxMvs
    BY BoundsAssumption DEF BoundsAssumption
  <2>4. failed \in BOOLEAN /\ dec \in Codec
    BY OpenedConsistent
  <2>5. pc \in Alive \cup Dead /\ pkt \in Packets
    BY DEF Alive, Packets
  <2>. QED BY <2>1, <2>2, <2>3, <2>4, <2>5 DEF TypeOK
<1>2. CodecPhase
  BY DEF CodecPhase, NoCodec, Context, IsOpen
<1>3. Numbers
  BY DEF Numbers, NoCodec, Context, IsOpen
<1>4. OwnFiles /\ InOrder
  BY DEF OwnFiles, InOrder
<1>. QED BY <1>1, <1>2, <1>3, <1>4 DEF IInv

LEMMA CallInv == IInv /\ Call => IInv'
<1> SUFFICES ASSUME IInv, Call PROVE IInv'
  OBVIOUS
<1> USE DEF IInv, Call
<1>1. TypeOK'
  <2>1. failed' \in BOOLEAN
    OBVIOUS
  <2>2. pc' \in Alive \cup Dead
    BY DEF Alive
  <2>3. call' \in Nat /\ reads' \in Nat /\ base' \in Nat
    BY DEF TypeOK
  <2>. QED BY <2>1, <2>2, <2>3 DEF TypeOK
<1>2. CodecPhase'
  BY DEF CodecPhase, NoCodec, IsOpen, Context
<1>3. Numbers'
  BY DEF Numbers, TypeOK, CodecPhase, OwnFiles, NoCodec, IsOpen, Context, File
<1>4. OwnFiles' /\ InOrder'
  BY DEF OwnFiles, InOrder
<1>. QED BY <1>1, <1>2, <1>3, <1>4

LEMMA OpenInputInv == IInv /\ OpenInput => IInv'
<1> SUFFICES ASSUME IInv, OpenInput PROVE IInv'
  OBVIOUS
<1> USE DEF IInv, OpenInput
<1>1. TypeOK' /\ CodecPhase' /\ Numbers'
  BY DEF TypeOK, CodecPhase, Numbers, Alive, Dead, NoCodec, IsOpen, Context
<1>2. OwnFiles' /\ InOrder'
  BY DEF OwnFiles, InOrder
<1>. QED BY <1>1, <1>2

LEMMA OpenCodecInv == IInv /\ OpenCodec => IInv'
<1> SUFFICES ASSUME IInv, OpenCodec PROVE IInv'
  OBVIOUS
<1> USE DEF IInv, OpenCodec
<1>1. TypeOK'
  BY OpenedConsistent DEF TypeOK, Alive, Consistent
<1>2. CodecPhase'
  <2>1. Consistent(Opened) /\ Opened.errors = 0
    BY OpenedConsistent DEF Opened, Context
  <2>2. CASE dec' = Opened
    BY <2>1, <2>2 DEF CodecPhase
  <2>3. CASE UNCHANGED dec
    <3>1. ~IsOpen(dec')
      BY <2>3 DEF CodecPhase, NoCodec, IsOpen, Context
    <3>. QED BY <2>3, <3>1 DEF CodecPhase
  <2>. QED BY <2>2, <2>3
<1>3. Numbers'
  BY DEF Numbers, TypeOK, CodecPhase, NoCodec, Opened, IsOpen, Context
<1>4. OwnFiles' /\ InOrder'
  BY DEF OwnFiles, InOrder
<1>. QED BY <1>1, <1>2, <1>3, <1>4

LEMMA CheckStreamInv == IInv /\ CheckStream => IInv'
<1> SUFFICES ASSUME IInv, CheckStream PROVE IInv'
  OBVIOUS
<1> USE DEF IInv, CheckStream
<1>1. TypeOK'
  BY DEF TypeOK, Alive
<1>2. CodecPhase'
  BY DEF CodecPhase, Opened, IsOpen, Context
<1>3. Numbers'
  BY DEF Numbers
<1>4. OwnFiles' /\ InOrder'
  BY DEF OwnFiles, InOrder
<1>. QED BY <1>1, <1>2, <1>3, <1>4

LEMMA ReadInv == IInv /\ Read => IInv'
<1> SUFFICES ASSUME IInv, Read PROVE IInv'
  OBVIOUS
<1> USE DEF IInv, Read
<1>1. TypeOK'
  BY DEF TypeOK, Alive, Packets
<1>2. CodecPhase'
  BY DEF CodecPhase
<1>3. Numbers'
  BY DEF Numbers
<1>4. OwnFiles' /\ InOrder'
  BY DEF OwnFiles, InOrder
<1>. QED BY <1>1, <1>2, <1>3, <1>4

LEMMA SendInv == IInv /\ Send => IInv'
<1> SUFFICES ASSUME IInv, Send PROVE IInv'
  OBVIOUS
<1> USE DEF IInv, Send
<1>1. CASE ~IsOpen(dec)
  <2>1. /\ pc' = "crashed" /\ dec' = dec
        /\ UNCHANGED <<video_stream, video_frame_count, pkt, i, n, mv, run, call,
                       reads, base, failed>>
    BY <1>1
  <2>2. TypeOK'
    BY <2>1 DEF TypeOK, Dead
  <2>3. CodecPhase'
    BY <1>1, <2>1 DEF CodecPhase
  <2>4. Numbers'
    BY <1>1, <2>1 DEF Numbers
  <2>5. OwnFiles' /\ InOrder'
    BY <2>1 DEF OwnFiles, InOrder
  <2>. QED BY <2>2, <2>3, <2>4, <2>5
<1>2. CASE IsOpen(dec)
  <2>1. PICK o \in SendPacket(dec, pkt) :
          /\ dec' = o.dec
          /\ IF o.ret = "ok" THEN pc' = "receive" /\ UNCHANGED <<pkt, failed>>
                             ELSE Return(TRUE)
    BY <1>2
  <2>2. /\ Consistent(dec) /\ dec.input = "none" /\ ~dec.out /\ pkt \in Packets
    BY <1>2 DEF CodecPhase, TypeOK
  <2>3. /\ Consistent(dec') /\ IsOpen(dec') /\ dec' \in Codec
        /\ dec'.frame_number = dec.frame_number
        /\ o.ret # "error" => dec'.errors = dec.errors
        /\ dec'.input \in IF pkt = "null" THEN {"draining", "done"} ELSE {"none"}
        /\ o.ret # "ok" => ~dec'.out
    BY <2>1, <2>2, SendPacketOutcome DEF Consistent
  <2>4. \/ pc' = "receive" /\ o.ret = "ok" /\ UNCHANGED <<pkt, failed>>
        \/ pc' = "end" /\ pkt = "null" /\ UNCHANGED pkt /\ failed' = TRUE
        \/ pc' = "send" /\ pkt # "null" /\ pkt' = "null" /\ failed' = TRUE /\ o.ret # "ok"
    BY <2>1, <2>2 DEF Return, Packets
  <2>5. TypeOK'
    BY <2>3, <2>4 DEF TypeOK, Alive, Packets
  <2>6. CodecPhase'
    BY <1>2, <2>2, <2>3, <2>4 DEF CodecPhase
  <2>7. Numbers'
    BY <1>2, <2>3, <2>4 DEF Numbers
  <2>8. OwnFiles' /\ InOrder'
    BY <2>4 DEF OwnFiles, InOrder
  <2>. QED BY <2>5, <2>6, <2>7, <2>8
<1>. QED BY <1>1, <1>2

(* A received frame opens the next file: of this call, with the codec's    *)
(* frame number, right after the previous one.                             *)
LEMMA ReceiveInv == IInv /\ Receive => IInv'
<1> SUFFICES ASSUME IInv, Receive PROVE IInv'
  OBVIOUS
<1> USE DEF IInv
<1>1. PICK o \in ReceiveFrame(dec) :
        /\ dec' = o.dec
        /\ IF o.ret = "ok"
           THEN OpenJson /\ UNCHANGED <<pkt, failed>>
           ELSE Return(o.ret = "error") /\ UNCHANGED <<video_frame_count, i, n, mv>>
  BY DEF Receive
<1>2. /\ pc = "receive" /\ IsOpen(dec) /\ Consistent(dec)
      /\ UNCHANGED <<video_stream, run, call, reads, base>>
  BY DEF Receive, CodecPhase
<1>3. /\ Consistent(dec') /\ IsOpen(dec') /\ dec' \in Codec /\ ~dec'.out
      /\ dec'.frame_number = dec.frame_number + (IF o.ret = "ok" THEN 1 ELSE 0)
      /\ o.ret # "error" => dec'.errors = dec.errors
      /\ dec'.input \in IF pkt = "null" THEN {"draining", "done"} ELSE {"none"}
      /\ o.ret = "eof" => dec'.input = "done"
      /\ o.ret = "eagain" => dec'.input = "none"
      /\ o.ret \in Codes
  BY <1>1, <1>2, ReceiveFrameOutcome DEF Consistent, CodecPhase
<1>4. CASE o.ret # "ok"
  <2>1. /\ UNCHANGED <<video_frame_count, i, n, mv>>
        /\ \/ pc' = "end" /\ pkt = "null" /\ UNCHANGED pkt
           \/ pc' = "send" /\ pkt # "null" /\ pkt' = "null"
           \/ pc' = "read" /\ pkt # "null" /\ UNCHANGED pkt
        /\ failed' = (failed \/ o.ret = "error")
    BY <1>1, <1>4 DEF Return
  <2>2. TypeOK'
    <3>1. failed' \in BOOLEAN
      BY <2>1 DEF TypeOK
    <3>2. pc' \in Alive \cup Dead /\ pkt' \in Packets
      BY <2>1 DEF TypeOK, Alive, Packets
    <3>. QED BY <1>2, <1>3, <2>1, <3>1, <3>2 DEF TypeOK
  <2>3. CodecPhase'
    <3>1. ~failed' => ~failed /\ o.ret # "error"
      BY <2>1
    <3>2. ~failed' => dec'.errors = 0
      BY <1>2, <1>3, <3>1 DEF CodecPhase
    <3>3. pc' = "end" /\ ~failed' => dec'.taken = dec'.frame_number
      <4>1. pc' = "end" /\ ~failed' => o.ret = "eof"
        BY <1>3, <1>4, <2>1, <3>1 DEF Codes
      <4>. QED BY <1>3, <3>2, <4>1 DEF Consistent, Undelivered, Codec
    <3>. QED BY <1>3, <2>1, <3>2, <3>3 DEF CodecPhase
  <2>4. Numbers'
    BY <1>2, <1>3, <1>4, <2>1 DEF Numbers, Consistent, Codec
  <2>5. OwnFiles' /\ InOrder'
    BY <1>2, <2>1 DEF OwnFiles, InOrder
  <2>. QED BY <2>2, <2>3, <2>4, <2>5
<1>5. CASE o.ret = "ok" /\ pc' = "exited"
  <2>1. /\ video_frame_count' = video_frame_count + 1
        /\ UNCHANGED <<pkt, failed, i, n, mv>>
    BY <1>1, <1>5 DEF OpenJson
  <2>2. TypeOK'
    BY <1>2, <1>3, <1>5, <2>1 DEF TypeOK, Dead
  <2>3. CodecPhase'
    BY <1>2, <1>3, <1>5, <2>1 DEF CodecPhase
  <2>4. Numbers'
    BY <1>2, <1>3, <1>5, <2>1 DEF Numbers, TypeOK, Consistent, Codec
  <2>5. OwnFiles' /\ InOrder'
    BY <1>2, <1>5, <2>1 DEF OwnFiles, InOrder, TypeOK
  <2>. QED BY <2>2, <2>3, <2>4, <2>5
<1>6. CASE o.ret = "ok" /\ pc' # "exited"
  <2>1. PICK mvs \in 0 .. MaxMvs :
          n' = mvs /\ mv' = Put(video_frame_count + 1, NewFile(mvs))
    BY <1>1, <1>6 DEF OpenJson
  <2>2. /\ video_frame_count' = video_frame_count + 1
        /\ pc' = "write" /\ i' = 0 /\ UNCHANGED <<pkt, failed>>
    BY <1>1, <1>6 DEF OpenJson
  <2> DEFINE k == video_frame_count + 1
             f == NewFile(mvs)
  <2>3. /\ f \in File /\ f.run = run /\ f.call = call /\ f.frame = k - base
    <3>1. dec'.frame_number = k - base /\ dec'.frame_number \in Nat
      BY <1>2, <1>3, <1>6 DEF TypeOK, Numbers, Consistent, Codec
    <3>2. <<"[">> \in Seq(Tokens)
      BY DEF Tokens
    <3>3. mvs \in Nat
      BY <2>1, BoundsAssumption DEF BoundsAssumption
    <3>. QED BY <1>2, <3>1, <3>2, <3>3 DEF NewFile, File, TypeOK
  <2>4. /\ DOMAIN mv' = DOMAIN mv \cup {k}
        /\ mv'[k] = f
        /\ \A j \in DOMAIN mv : j # k => mv'[j] = mv[j]
        /\ mv' = [j \in DOMAIN mv' |-> mv'[j]]
    BY <2>1 DEF Put
  <2> HIDE DEF f
  <2>5. TypeOK'
    <3>1. \A j \in DOMAIN mv' : mv'[j] \in File
      BY <2>3, <2>4 DEF TypeOK
    <3>2. DOMAIN mv' \subseteq Nat \ {0}
      BY <2>4 DEF TypeOK
    <3>. QED BY <1>2, <1>3, <2>1, <2>2, <2>4, <3>1, <3>2 DEF TypeOK, Alive
  <2>6. CodecPhase'
    BY <1>2, <1>3, <1>6, <2>2 DEF CodecPhase
  <2>7. Numbers'
    BY <1>2, <1>3, <1>6, <2>2, <2>3, <2>4 DEF Numbers, TypeOK, Consistent, Codec
  <2>8. OwnFiles'
    BY <1>2, <2>2, <2>3, <2>4 DEF OwnFiles, TypeOK
  <2>9. InOrder'
    <3> SUFFICES ASSUME NEW j \in DOMAIN mv', j + 1 \in DOMAIN mv'
                 PROVE  \/ mv'[j + 1].run < mv'[j].run
                        \/ /\ mv'[j + 1].run = mv'[j].run
                           /\ \/ /\ mv'[j + 1].call = mv'[j].call
                                 /\ mv'[j + 1].frame = mv'[j].frame + 1
                              \/ /\ mv'[j + 1].call > mv'[j].call
                                 /\ mv'[j + 1].frame = 1
      BY DEF InOrder
    <3>1. j \in Nat \ {0} /\ k \in Nat
      BY <2>4 DEF TypeOK
    <3>2. CASE j + 1 = k
      <4>1. j \in DOMAIN mv /\ mv[j].run = run /\ mv'[j] = mv[j] /\ j = video_frame_count
        BY <1>2, <2>4, <3>1, <3>2 DEF OwnFiles, TypeOK
      <4>2. /\ j <= base => mv[j].call < call /\ j = base
            /\ base < j => mv[j].call = call /\ mv[j].frame = j - base
        BY <4>1 DEF Numbers, TypeOK
      <4>3. base \in Nat /\ call \in Nat /\ mv[j] \in File
        BY <4>1 DEF TypeOK
      <4>4. /\ mv'[j + 1].run = run /\ mv'[j + 1].call = call
            /\ mv'[j + 1].frame = j + 1 - base
        <5>1. mv'[j + 1] = f
          BY <2>4, <3>2
        <5>2. f.run = run /\ f.call = call /\ f.frame = k - base
          BY <2>3
        <5> HIDE DEF k
        <5>3. f.frame = j + 1 - base
          BY <3>1, <3>2, <4>3, <5>2
        <5>. QED BY <5>1, <5>2, <5>3
      <4>5. mv[j].call \in Nat
        BY <4>3 DEF File
      <4>6. CASE j <= base
        <5>1. mv[j].call < call /\ j + 1 - base = 1
          BY <3>1, <4>2, <4>3, <4>6
        <5>. QED BY <4>1, <4>3, <4>4, <4>5, <5>1
      <4>7. CASE base < j
        <5>1. mv[j].call = call /\ j + 1 - base = mv[j].frame + 1
          BY <3>1, <4>2, <4>3, <4>7
        <5>. QED BY <4>1, <4>4, <5>1
      <4>. QED BY <3>1, <4>3, <4>6, <4>7
    <3>3. CASE j = k
      <4>1. j + 1 \in DOMAIN mv /\ mv'[j + 1] = mv[j + 1]
        BY <2>4, <3>1, <3>3
      <4>2. mv[j + 1].run # run /\ mv[j + 1].run <= run
        BY <3>1, <3>3, <4>1 DEF OwnFiles, Numbers, TypeOK
      <4>3. mv[j + 1].run \in Nat /\ run \in Nat
        BY <4>1 DEF TypeOK, File
      <4>. QED BY <2>3, <2>4, <3>3, <4>1, <4>2, <4>3
    <3>4. CASE j # k /\ j + 1 # k
      BY <2>4, <3>1, <3>4 DEF InOrder
    <3>. QED BY <3>2, <3>3, <3>4
  <2>. QED BY <2>5, <2>6, <2>7, <2>8, <2>9
<1>. QED BY <1>4, <1>5, <1>6

(* Writing to the open file changes only its text.                         *)
LEMMA RewriteInv ==
  ASSUME IInv, pc = "write", NEW text \in Seq(Tokens), NEW closed \in BOOLEAN,
         mv' = Rewrite(text, closed), UNCHANGED <<video_frame_count, run, call, base>>
  PROVE  /\ mv' = [j \in DOMAIN mv' |-> mv'[j]]
         /\ DOMAIN mv' = DOMAIN mv
         /\ \A k \in DOMAIN mv :
              /\ mv'[k] \in File
              /\ mv'[k].run = mv[k].run
              /\ mv'[k].call = mv[k].call
              /\ mv'[k].frame = mv[k].frame
<1> USE DEF IInv
<1> DEFINE c == video_frame_count
           f == mv[c]
           g == [run |-> f.run, call |-> f.call, frame |-> f.frame, n |-> f.n,
                 text |-> text, closed |-> closed]
<1>1. c \in DOMAIN mv /\ f \in File
  BY DEF Numbers, OwnFiles, TypeOK
<1>2. /\ g \in File
      /\ g.run = f.run /\ g.call = f.call /\ g.frame = f.frame
  BY <1>1 DEF File
<1>3. mv' = Put(c, g)
  BY DEF Rewrite
<1> HIDE DEF g
<1>4. /\ mv' = [j \in DOMAIN mv' |-> mv'[j]]
      /\ DOMAIN mv' = DOMAIN mv
      /\ mv'[c] = g
      /\ \A k \in DOMAIN mv : k # c => mv'[k] = mv[k]
  BY <1>1, <1>3 DEF Put
<1>. QED BY <1>1, <1>2, <1>4 DEF TypeOK

LEMMA RewriteDirectory ==
  ASSUME IInv, DOMAIN mv' = DOMAIN mv,
         UNCHANGED <<video_frame_count, run, call, base>>, pc # "exited",
         \A k \in DOMAIN mv : /\ mv'[k].run = mv[k].run
                              /\ mv'[k].call = mv[k].call
                              /\ mv'[k].frame = mv[k].frame
  PROVE  OwnFiles' /\ InOrder'
<1>1. OwnFiles'
  BY DEF IInv, OwnFiles
<1>2. InOrder'
  BY DEF IInv, InOrder
<1>. QED BY <1>1, <1>2

LEMMA WriteVectorInv == IInv /\ WriteVector => IInv'
<1> SUFFICES ASSUME IInv, WriteVector PROVE IInv'
  OBVIOUS
<1> USE DEF IInv
<1>1. mv[video_frame_count] \in File
  BY DEF WriteVector, Numbers, OwnFiles, TypeOK
<1>2. Text \o VectorText \in Seq(Tokens)
  <2>1. VectorText \in Seq(Tokens)
    <3>1. <<"obj">> \in Seq(Tokens)
      BY DEF Tokens
    <3>2. <<"obj", ",">> \in Seq(Tokens)
      BY DEF Tokens
    <3>. QED BY <3>1, <3>2 DEF VectorText
  <2>2. Text \in Seq(Tokens)
    BY <1>1 DEF Text, File
  <2>. QED BY <2>1, <2>2
<1>3. /\ mv' = [j \in DOMAIN mv' |-> mv'[j]]
      /\ DOMAIN mv' = DOMAIN mv
      /\ \A k \in DOMAIN mv : /\ mv'[k] \in File
                              /\ mv'[k].run = mv[k].run
                              /\ mv'[k].call = mv[k].call
                              /\ mv'[k].frame = mv[k].frame
  BY <1>2, RewriteInv DEF WriteVector
<1>4. TypeOK'
  <2>1. i' \in Nat
    BY DEF TypeOK, WriteVector
  <2>. QED BY <1>3, <2>1 DEF TypeOK, WriteVector, Alive
<1>5. CodecPhase'
  BY DEF CodecPhase, WriteVector
<1>6. Numbers'
  BY <1>3 DEF Numbers, WriteVector
<1>7. OwnFiles' /\ InOrder'
  BY <1>3, RewriteDirectory DEF WriteVector
<1>. QED BY <1>4, <1>5, <1>6, <1>7

LEMMA CloseJsonInv == IInv /\ CloseJson => IInv'
<1> SUFFICES ASSUME IInv, CloseJson PROVE IInv'
  OBVIOUS
<1> USE DEF IInv
<1>1. mv[video_frame_count] \in File
  BY DEF CloseJson, Numbers, OwnFiles, TypeOK
<1>2. Append(Text, "]") \in Seq(Tokens)
  <2>1. "]" \in Tokens
    BY DEF Tokens
  <2>2. Text \in Seq(Tokens)
    BY <1>1 DEF Text, File
  <2>. QED BY <2>1, <2>2
<1>3. /\ mv' = [j \in DOMAIN mv' |-> mv'[j]]
      /\ DOMAIN mv' = DOMAIN mv
      /\ \A k \in DOMAIN mv : /\ mv'[k] \in File
                              /\ mv'[k].run = mv[k].run
                              /\ mv'[k].call = mv[k].call
                              /\ mv'[k].frame = mv[k].frame
  BY <1>2, RewriteInv DEF CloseJson
<1>4. TypeOK'
  BY <1>3 DEF TypeOK, CloseJson, Alive
<1>5. CodecPhase'
  BY DEF CodecPhase, CloseJson
<1>6. Numbers'
  BY <1>3 DEF Numbers, CloseJson
<1>7. OwnFiles' /\ InOrder'
  BY <1>3, RewriteDirectory DEF CloseJson
<1>. QED BY <1>4, <1>5, <1>6, <1>7

LEMMA EndInv == IInv /\ End => IInv'
<1> SUFFICES ASSUME IInv, End PROVE IInv'
  OBVIOUS
<1> USE DEF IInv, End
<1>1. ~IsOpen(dec') /\ dec' \in Codec
  BY OpenedConsistent DEF NoCodec, IsOpen, Context
<1>2. TypeOK'
  BY <1>1 DEF TypeOK, Alive
<1>3. CodecPhase'
  BY <1>1 DEF CodecPhase
<1>4. Numbers'
  BY <1>1 DEF Numbers
<1>5. OwnFiles' /\ InOrder'
  BY DEF OwnFiles, InOrder
<1>. QED BY <1>2, <1>3, <1>4, <1>5

LEMMA KillInv == IInv /\ Kill => IInv'
<1> SUFFICES ASSUME IInv, Kill PROVE IInv'
  OBVIOUS
<1> USE DEF IInv
<1>1. /\ mv' = [j \in DOMAIN mv' |-> mv'[j]]
      /\ DOMAIN mv' = DOMAIN mv
      /\ \A k \in DOMAIN mv : /\ mv'[k] \in File
                              /\ mv'[k].run = mv[k].run
                              /\ mv'[k].call = mv[k].call
                              /\ mv'[k].frame = mv[k].frame
  <2>1. CASE pc = "write"
    <3>1. mv[video_frame_count] \in File
      BY <2>1 DEF Numbers, OwnFiles, TypeOK
    <3>2. PICK len \in 0 .. Len(Text) : mv' = Rewrite(SubSeq(Text, 1, len), FALSE)
      BY <2>1 DEF Kill
    <3>3. Text \in Seq(Tokens)
      BY <3>1 DEF Text, File
    <3>4. SubSeq(Text, 1, len) \in Seq(Tokens)
      BY <3>2, <3>3
    <3>. QED BY <2>1, <3>2, <3>4, RewriteInv DEF Kill
  <2>2. CASE pc # "write"
    BY <2>2 DEF Kill, TypeOK
  <2>. QED BY <2>1, <2>2
<1>2. TypeOK'
  BY <1>1 DEF TypeOK, Kill, Dead
<1>3. CodecPhase'
  BY DEF CodecPhase, Kill
<1>4. Numbers'
  BY <1>1 DEF Numbers, Kill
<1>5. OwnFiles' /\ InOrder'
  BY <1>1, RewriteDirectory DEF Kill, Alive
<1>. QED BY <1>2, <1>3, <1>4, <1>5

LEMMA RestartInv == IInv /\ Restart => IInv'
<1> SUFFICES ASSUME IInv, Restart PROVE IInv'
  OBVIOUS
<1> USE DEF IInv, Restart
<1>1. ~IsOpen(dec') /\ dec' \in Codec
  BY OpenedConsistent DEF NoCodec, IsOpen, Context
<1>2. TypeOK'
  <2>1. failed' \in BOOLEAN
    OBVIOUS
  <2>2. n' \in 0 .. MaxMvs
    BY BoundsAssumption DEF BoundsAssumption
  <2>3. pc' \in Alive \cup Dead /\ pkt' \in Packets
    BY DEF Alive, Packets
  <2>4. run' \in Nat
    BY DEF TypeOK
  <2>. QED BY <1>1, <2>1, <2>2, <2>3, <2>4 DEF TypeOK
<1>3. CodecPhase'
  BY <1>1 DEF CodecPhase
<1>4. \A k \in DOMAIN mv : mv[k].run \in Nat /\ mv[k].run <= run /\ mv[k].run # run'
  BY DEF Numbers, TypeOK, File
<1>5. Numbers'
  BY <1>1, <1>4 DEF Numbers, TypeOK
<1>6. OwnFiles' /\ InOrder'
  BY <1>4 DEF OwnFiles, InOrder
<1>. QED BY <1>2, <1>3, <1>5, <1>6

LEMMA Inductive == Spec => []IInv
<1>1. IInv /\ [Next]_vars => IInv'
  <2> SUFFICES ASSUME IInv, [Next]_vars PROVE IInv'
    OBVIOUS
  <2>1. CASE UNCHANGED vars
    BY <2>1 DEF vars, IInv, TypeOK, CodecPhase, Numbers, OwnFiles, InOrder
  <2>2. CASE Next
    BY <2>2, CallInv, OpenInputInv, OpenCodecInv, CheckStreamInv, ReadInv, SendInv,
       ReceiveInv, WriteVectorInv, CloseJsonInv, EndInv, KillInv, RestartInv
    DEF Next, Step
  <2>. QED BY <2>1, <2>2
<1>. QED BY <1>1, InitInv, PTL DEF Spec

(* Every variable keeps its type: in particular the directory only ever    *)
(* holds files with positive numbers.                                      *)
THEOREM TypeCorrect == Spec => []TypeOK
<1>1. IInv => TypeOK
  BY DEF IInv
<1>. QED BY <1>1, Inductive, PTL

(* The files of the running process are exactly those up to its counter,   *)
(* through any number of calls, kills and restarts.                        *)
THEOREM CounterMatchesDirectory == Spec => []OwnFiles
<1>1. IInv => OwnFiles
  BY DEF IInv
<1>. QED BY <1>1, Inductive, PTL

(* File numbers follow the order of frames and calls within a process, and *)
(* nothing newer ever lies behind something older.                         *)
THEOREM FilesInOrder == Spec => []InOrder
<1>1. IInv => InOrder
  BY DEF IInv
<1>. QED BY <1>1, Inductive, PTL

(* A packet is only ever sent to a codec that has nothing left to give.    *)
THEOREM PacketsNeverRefused == Spec => []SentOnlyWhenDrained
<1>1. IInv => SentOnlyWhenDrained
  BY DEF IInv, CodecPhase, SentOnlyWhenDrained
<1>. QED BY <1>1, Inductive, PTL

(* A call that ends without a decoding error has written every picture,    *)
(* the ones the codec held back for reordering included.                   *)
THEOREM NoFrameMissing == Spec => []EveryPictureWritten
<1>1. IInv => EveryPictureWritten
  BY DEF IInv, CodecPhase, Numbers, TypeOK, Codec, EveryPictureWritten
<1>. QED BY <1>1, Inductive, PTL

--------------------------------------------------------------------------------
(* The text of a file while its vectors are written: a prefix of the array *)
(* it is going to be.                                                      *)
ArrayLength(m) == IF m = 0 THEN 2 ELSE 2 * m + 1
Written(m, j) == IF j = 0 THEN 1 ELSE IF j = m THEN 2 * m ELSE 2 * j + 1
Prefix(m, j) == [q \in 1 .. Written(m, j) |-> JsonArray(m)[q]]

LEMMA JsonArrayElement ==
  ASSUME NEW m \in Nat, NEW j \in 1 .. ArrayLength(m)
  PROVE  JsonArray(m)[j] = IF j = 1 THEN "[" ELSE IF j = ArrayLength(m) THEN "]"
                           ELSE IF j % 2 = 0 THEN "obj" ELSE ","
  BY DEF JsonArray, ArrayLength

LEMMA JsonArrayTokens ==
  ASSUME NEW m \in Nat
  PROVE  /\ JsonArray(m) \in Seq(Tokens)
         /\ Len(JsonArray(m)) = ArrayLength(m)
         /\ JsonArray(m)[1] = "["
         /\ JsonArray(m)[ArrayLength(m)] = "]"
<1> DEFINE last == ArrayLength(m)
           T(j) == IF j = 1 THEN "[" ELSE IF j = last THEN "]"
                   ELSE IF j % 2 = 0 THEN "obj" ELSE ","
<1>1. last \in Nat /\ last >= 2
  BY DEF ArrayLength
<1>2. JsonArray(m) = [j \in 1 .. last |-> T(j)]
  BY DEF JsonArray, ArrayLength
<1>3. \A j \in 1 .. last : T(j) \in Tokens
  BY <1>1 DEF Tokens
<1>4. JsonArray(m)[1] = "[" /\ JsonArray(m)[last] = "]"
  <2>1. 1 \in 1 .. last /\ last \in 1 .. last /\ last # 1
    BY <1>1
  <2>. QED BY <2>1, JsonArrayElement, Zenon
<1> HIDE DEF last, T
<1>5. JsonArray(m) \in Seq(Tokens) /\ Len(JsonArray(m)) = last
  BY <1>1, <1>2, <1>3
<1>. QED BY <1>4, <1>5 DEF last

LEMMA JsonArrayVector ==
  ASSUME NEW m \in Nat, NEW j \in Nat, j < m
  PROVE  /\ JsonArray(m)[2 * j + 2] = "obj"
         /\ j + 1 < m => JsonArray(m)[2 * j + 3] = ","
<1> DEFINE last == ArrayLength(m)
<1>1. last = 2 * m + 1
  BY DEF ArrayLength
<1>2. ASSUME NEW k \in 1 .. last, k # 1, k # last
      PROVE  JsonArray(m)[k] = IF k % 2 = 0 THEN "obj" ELSE ","
  BY <1>2, JsonArrayElement
<1> HIDE DEF last
<1>3. JsonArray(m)[2 * j + 2] = "obj"
  <2>1. 2 * j + 2 \in 1 .. last /\ 2 * j + 2 # 1 /\ 2 * j + 2 # last
    BY <1>1
  <2>2. (2 * j + 2) % 2 = 0
    OBVIOUS
  <2>. QED BY <1>2, <2>1, <2>2, Zenon
<1>4. ASSUME j + 1 < m
      PROVE  JsonArray(m)[2 * j + 3] = ","
  <2>1. 2 * j + 3 \in 1 .. last /\ 2 * j + 3 # 1 /\ 2 * j + 3 # last
    BY <1>1, <1>4
  <2>2. (2 * j + 3) % 2 # 0
    OBVIOUS
  <2>. QED BY <1>2, <2>1, <2>2, Zenon
<1>. QED BY <1>3, <1>4

LEMMA PrefixTokens ==
  ASSUME NEW m \in Nat, NEW j \in 0 .. m
  PROVE  /\ Prefix(m, j) \in Seq(Tokens)
         /\ Len(Prefix(m, j)) = Written(m, j)
         /\ Written(m, j) \in 1 .. ArrayLength(m)
<1>1. Written(m, j) \in 1 .. ArrayLength(m)
  BY DEF Written, ArrayLength
<1>2. \A q \in 1 .. ArrayLength(m) : JsonArray(m)[q] \in Tokens
  BY JsonArrayTokens, ElementOfSeq
<1>3. \A q \in 1 .. Written(m, j) : JsonArray(m)[q] \in Tokens
  BY <1>1, <1>2 DEF ArrayLength
<1>. QED BY <1>1, <1>3 DEF Prefix

(* fopen writes the first prefix, each vector extends it to the next, and  *)
(* the bracket completes the array.                                        *)
LEMMA PrefixFirst ==
  ASSUME NEW m \in Nat
  PROVE  Prefix(m, 0) = <<"[">>
<1>1. <<"[">> \in Seq(Tokens) /\ Len(<<"[">>) = 1
  BY DEF Tokens
<1>2. Prefix(m, 0) \in Seq(Tokens) /\ Len(Prefix(m, 0)) = 1
  BY PrefixTokens DEF Written
<1>3. Prefix(m, 0)[1] = "["
  <2>1. Prefix(m, 0) = [q \in 1 .. 1 |-> JsonArray(m)[q]]
    BY DEF Prefix, Written
  <2>2. JsonArray(m)[1] = "["
    BY JsonArrayTokens
  <2>. QED BY <2>1, <2>2
<1>4. \A q \in 1 .. Len(Prefix(m, 0)) : Prefix(m, 0)[q] = <<"[">>[q]
  BY <1>2, <1>3
<1>. QED BY <1>1, <1>2, <1>4, SeqEqual

LEMMA PrefixNext ==
  ASSUME NEW m \in Nat, NEW j \in Nat, j < m
  PROVE  Prefix(m, j) \o (IF j = m - 1 THEN <<"obj">> ELSE <<"obj", ",">>) = Prefix(m, j + 1)
<1> DEFINE s == Prefix(m, j)
           t == IF j = m - 1 THEN <<"obj">> ELSE <<"obj", ",">>
           u == Prefix(m, j + 1)
           a == JsonArray(m)
<1>1. a[2 * j + 2] = "obj" /\ (j + 1 < m => a[2 * j + 3] = ",")
  BY JsonArrayVector, Zenon
<1>2. s \in Seq(Tokens) /\ Len(s) = 2 * j + 1
  <2>1. j \in 0 .. m
    OBVIOUS
  <2>2. s \in Seq(Tokens) /\ Len(s) = Written(m, j)
    BY <2>1, PrefixTokens, Zenon
  <2>3. Written(m, j) = 2 * j + 1
    BY DEF Written
  <2>. QED BY <2>2, <2>3
<1>3. u \in Seq(Tokens) /\ Len(u) = IF j = m - 1 THEN 2 * j + 2 ELSE 2 * j + 3
  <2>1. j + 1 \in 0 .. m
    OBVIOUS
  <2>2. u \in Seq(Tokens) /\ Len(u) = Written(m, j + 1)
    BY <2>1, PrefixTokens, Zenon
  <2>3. Written(m, j + 1) = IF j = m - 1 THEN 2 * j + 2 ELSE 2 * j + 3
    BY DEF Written
  <2>. QED BY <2>2, <2>3
<1>4. t \in Seq(Tokens) /\ Len(t) = (IF j = m - 1 THEN 1 ELSE 2) /\ t[1] = "obj"
      /\ (j # m - 1 => t[2] = ",")
  <2>1. <<"obj">> \in Seq(Tokens) /\ <<"obj", ",">> \in Seq(Tokens)
    BY DEF Tokens
  <2>. QED BY <2>1
<1>5. \A q \in 1 .. Len(s) : s[q] = a[q]
  BY <1>2 DEF Prefix, Written
<1>6. \A q \in 1 .. Len(u) : u[q] = a[q]
  BY <1>3 DEF Prefix, Written
<1> HIDE DEF s, t, u, a
<1>7. /\ s \o t \in Seq(Tokens) /\ Len(s \o t) = Len(s) + Len(t)
      /\ \A q \in 1 .. Len(s) + Len(t) :
           (s \o t)[q] = IF q <= Len(s) THEN s[q] ELSE t[q - Len(s)]
  BY <1>2, <1>4, ConcatProperties
<1>8. Len(s \o t) = Len(u) /\ Len(s \o t) = (IF j = m - 1 THEN 2 * j + 2 ELSE 2 * j + 3)
  <2>1. Len(s \o t) = (2 * j + 1) + (IF j = m - 1 THEN 1 ELSE 2)
    BY <1>2, <1>4, <1>7
  <2>2. CASE j = m - 1
    BY <1>3, <2>1, <2>2
  <2>3. CASE j # m - 1
    BY <1>3, <2>1, <2>3
  <2>. QED BY <2>2, <2>3
<1>9. ASSUME NEW q \in 1 .. Len(s \o t)
      PROVE  (s \o t)[q] = u[q]
  <2>1. u[q] = a[q]
    BY <1>6, <1>8
  <2>2. (s \o t)[q] = IF q <= Len(s) THEN s[q] ELSE t[q - Len(s)]
    BY <1>7
  <2>3. CASE q <= Len(s)
    <3>1. s[q] = a[q]
      BY <1>2, <1>5, <2>3
    <3>. QED BY <2>1, <2>2, <2>3, <3>1
  <2>4. CASE q = 2 * j + 2
    <3>1. ~(q <= Len(s)) /\ q - Len(s) = 1
      BY <1>2, <2>4
    <3>. QED BY <1>1, <1>4, <2>1, <2>2, <2>4, <3>1
  <2>5. CASE q = 2 * j + 3 /\ j # m - 1
    <3>1. ~(q <= Len(s)) /\ q - Len(s) = 2 /\ j + 1 < m
      BY <1>2, <2>5
    <3>. QED BY <1>1, <1>4, <2>1, <2>2, <2>5, <3>1
  <2>6. q <= Len(s) \/ q = 2 * j + 2 \/ (q = 2 * j + 3 /\ j # m - 1)
    BY <1>2, <1>8
  <2>. QED BY <2>3, <2>4, <2>5, <2>6
<1>10. s \o t = u
  BY <1>3, <1>7, <1>8, <1>9, SeqEqual
<1>. QED BY <1>10 DEF s, t, u

LEMMA PrefixLast ==
  ASSUME NEW m \in Nat
  PROVE  Append(Prefix(m, m), "]") = JsonArray(m)
<1> DEFINE s == Prefix(m, m)
           u == JsonArray(m)
<1>1. /\ s \in Seq(Tokens) /\ Len(s) = ArrayLength(m) - 1
      /\ \A q \in 1 .. Len(s) : s[q] = u[q]
  <2>1. Written(m, m) = ArrayLength(m) - 1
    BY DEF Written, ArrayLength
  <2>. QED BY <2>1, PrefixTokens DEF Prefix
<1>2. u \in Seq(Tokens) /\ Len(u) = ArrayLength(m) /\ u[ArrayLength(m)] = "]"
  BY JsonArrayTokens
<1>3. "]" \in Tokens /\ ArrayLength(m) \in Nat
  BY DEF Tokens, ArrayLength
<1> HIDE DEF s, u
<1>4. /\ Append(s, "]") \in Seq(Tokens) /\ Len(Append(s, "]")) = ArrayLength(m)
      /\ \A q \in 1 .. ArrayLength(m) - 1 : Append(s, "]")[q] = s[q]
      /\ Append(s, "]")[ArrayLength(m)] = "]"
  BY <1>1, <1>3, AppendProperties
<1>5. \A q \in 1 .. Len(Append(s, "]")) : Append(s, "]")[q] = u[q]
  BY <1>1, <1>2, <1>3, <1>4
<1>6. Append(s, "]") = u
  BY <1>2, <1>4, <1>5, SeqEqual
<1>. QED BY <1>6 DEF s, u

--------------------------------------------------------------------------------
(* What each file contains.  An open file, of the running process or of a  *)
(* killed one, is the last of its process.                                 *)
Texts ==
  /\ pc = "write" =>
       /\ i <= n
       /\ mv[video_frame_count].n = n
       /\ ~mv[video_frame_count].closed
       /\ mv[video_frame_count].text = Prefix(n, i)
  /\ \A k \in DOMAIN mv : mv[k].closed => mv[k].text = JsonArray(mv[k].n)
  /\ \A k \in DOMAIN mv : ~mv[k].closed =>
       \/ mv[k].run = run /\ k = video_frame_count /\ pc \in {"write", "killed"}
       \/ mv[k].run < run /\ (k + 1 \in DOMAIN mv => mv[k + 1].run < mv[k].run)

LEMMA QuietTexts ==
  ASSUME IInv, Texts, UNCHANGED <<mv, run>>, pc \notin {"write", "killed"}, pc' # "write"
  PROVE  Texts'
  BY DEF Texts

LEMMA OpenJsonTexts ==
  ASSUME IInv, IInv', Texts, pc = "receive", UNCHANGED run, pc' = "write",
         video_frame_count' = video_frame_count + 1, i' = 0,
         NEW mvs \in 0 .. MaxMvs, n' = mvs,
         mv' = Put(video_frame_count + 1, NewFile(mvs))
  PROVE  Texts'
<1> DEFINE k == video_frame_count + 1
           f == NewFile(mvs)
<1>1. /\ DOMAIN mv' = DOMAIN mv \cup {k}
      /\ mv'[k] = f
      /\ \A j \in DOMAIN mv : j # k => mv'[j] = mv[j]
  BY DEF Put
<1>2. f.n = mvs /\ f.closed = FALSE /\ f.text = <<"[">> /\ f.run = run
  BY DEF NewFile
<1>3. mvs \in Nat /\ k \in Nat \ {0} /\ DOMAIN mv \subseteq Nat \ {0}
  BY BoundsAssumption DEF BoundsAssumption, IInv, TypeOK
<1> HIDE DEF f
<1>4. f.text = Prefix(mvs, 0)
  BY <1>2, <1>3, PrefixFirst
<1>5. \A j \in DOMAIN mv' : mv'[j].closed => mv'[j].text = JsonArray(mv'[j].n)
  BY <1>1, <1>2 DEF Texts
<1>6. ASSUME NEW j \in DOMAIN mv', ~mv'[j].closed, j # k
      PROVE  mv'[j].run < run /\ (j + 1 \in DOMAIN mv' => mv'[j + 1].run < mv'[j].run)
  <2>1. j \in DOMAIN mv /\ mv'[j] = mv[j] /\ j \in Nat
    BY <1>1, <1>3, <1>6
  <2>2. mv[j].run < run /\ (j + 1 \in DOMAIN mv => mv[j + 1].run < mv[j].run)
    BY <1>6, <2>1 DEF Texts
  <2>3. j + 1 # k
    <3>1. ASSUME j + 1 = k PROVE FALSE
      <4>1. j = video_frame_count /\ video_frame_count \in Nat
        BY <2>1, <3>1 DEF IInv, TypeOK
      <4>2. mv[j].run = run
        BY <2>1, <4>1, <1>3 DEF IInv, OwnFiles
      <4>. QED BY <2>1, <2>2, <4>2 DEF IInv, TypeOK
    <3>. QED BY <3>1
  <2>. QED BY <1>1, <2>1, <2>2, <2>3
<1>. QED BY <1>1, <1>2, <1>3, <1>4, <1>5, <1>6 DEF Texts

(* Writing the open file: the other files stay, and so does its owner.     *)
LEMMA RewriteOpen ==
  ASSUME IInv, pc = "write", NEW text \in Seq(Tokens), NEW closed \in BOOLEAN,
         mv' = Rewrite(text, closed)
  PROVE  /\ video_frame_count \in DOMAIN mv
         /\ mv[video_frame_count] \in File
         /\ mv[video_frame_count].run = run
         /\ DOMAIN mv' = DOMAIN mv
         /\ \A j \in DOMAIN mv : j # video_frame_count => mv'[j] = mv[j]
         /\ mv'[video_frame_count].text = text
         /\ mv'[video_frame_count].closed = closed
         /\ mv'[video_frame_count].n = mv[video_frame_count].n
         /\ mv'[video_frame_count].run = run
         /\ mv'[video_frame_count].call = mv[video_frame_count].call
         /\ mv'[video_frame_count].frame = mv[video_frame_count].frame
<1> DEFINE c == video_frame_count
           f == mv[c]
           g == [run |-> f.run, call |-> f.call, frame |-> f.frame, n |-> f.n,
                 text |-> text, closed |-> closed]
<1>1. c \in DOMAIN mv /\ f \in File /\ f.run = run
  BY DEF IInv, Numbers, OwnFiles, TypeOK
<1>2. /\ g.run = f.run /\ g.call = f.call /\ g.frame = f.frame /\ g.n = f.n
      /\ g.text = text /\ g.closed = closed
  OBVIOUS
<1>3. mv' = Put(c, g)
  BY DEF Rewrite
<1> HIDE DEF g
<1>4. /\ DOMAIN mv' = DOMAIN mv
      /\ mv'[c] = g
      /\ \A k \in DOMAIN mv : k # c => mv'[k] = mv[k]
  BY <1>1, <1>3 DEF Put
<1>. QED BY <1>1, <1>2, <1>4

LEMMA TextTokens ==
  ASSUME IInv, pc = "write"
  PROVE  Text \in Seq(Tokens) /\ VectorText \in Seq(Tokens) /\ "]" \in Tokens
<1>1. mv[video_frame_count] \in File
  BY DEF IInv, Numbers, OwnFiles, TypeOK
<1>2. <<"obj">> \in Seq(Tokens) /\ <<"obj", ",">> \in Seq(Tokens) /\ "]" \in Tokens
  BY DEF Tokens
<1>. QED BY <1>1, <1>2 DEF Text, File, VectorText

LEMMA WriteVectorTexts == IInv /\ Texts /\ WriteVector => Texts'
<1> SUFFICES ASSUME IInv, Texts, WriteVector PROVE Texts'
  OBVIOUS
<1> DEFINE c == video_frame_count
<1>1. Text \o VectorText \in Seq(Tokens)
  BY TextTokens DEF WriteVector
<1>2. /\ c \in DOMAIN mv /\ DOMAIN mv' = DOMAIN mv /\ mv[c].run = run
      /\ \A j \in DOMAIN mv : j # c => mv'[j] = mv[j]
      /\ mv'[c].text = Text \o VectorText
      /\ mv'[c].closed = FALSE
      /\ mv'[c].n = mv[c].n
      /\ mv'[c].run = run
  BY <1>1, RewriteOpen DEF WriteVector
<1>3. /\ pc = "write" /\ i \in Nat /\ n \in Nat /\ i < n /\ i' = i + 1
      /\ UNCHANGED <<pc, n, run, video_frame_count>>
  BY BoundsAssumption DEF WriteVector, IInv, TypeOK, BoundsAssumption
<1>4. Text = Prefix(n, i) /\ mv[c].n = n
  BY <1>3 DEF Texts, Text
<1>5. Text \o VectorText = Prefix(n, i + 1)
  BY <1>3, <1>4, PrefixNext DEF VectorText
<1>6. \A k \in DOMAIN mv : k # c => mv'[k] = mv[k] /\ k # video_frame_count
  BY <1>2
<1>7. \A k \in DOMAIN mv' : mv'[k].closed => mv'[k].text = JsonArray(mv'[k].n)
  BY <1>2 DEF Texts
<1>8. ASSUME NEW k \in DOMAIN mv', k # c, ~mv'[k].closed
      PROVE  mv'[k].run < run /\ (k + 1 \in DOMAIN mv' => mv'[k + 1].run < mv'[k].run)
  <2>1. mv[k].run < run /\ (k + 1 \in DOMAIN mv => mv[k + 1].run < mv[k].run)
    BY <1>2, <1>8 DEF Texts
  <2>. QED BY <1>2, <1>8, <2>1
<1>. QED BY <1>2, <1>3, <1>4, <1>5, <1>7, <1>8 DEF Texts

LEMMA CloseJsonTexts == IInv /\ Texts /\ CloseJson => Texts'
<1> SUFFICES ASSUME IInv, Texts, CloseJson PROVE Texts'
  OBVIOUS
<1> DEFINE c == video_frame_count
<1>1. Append(Text, "]") \in Seq(Tokens)
  BY TextTokens DEF CloseJson
<1>2. /\ c \in DOMAIN mv /\ DOMAIN mv' = DOMAIN mv /\ mv[c].run = run
      /\ \A j \in DOMAIN mv : j # c => mv'[j] = mv[j]
      /\ mv'[c].text = Append(Text, "]")
      /\ mv'[c].closed = TRUE
      /\ mv'[c].n = mv[c].n
      /\ mv'[c].run = run
  BY <1>1, RewriteOpen DEF CloseJson
<1>3. /\ pc = "write" /\ n \in Nat /\ i = n /\ pc' = "receive"
      /\ UNCHANGED <<n, run, video_frame_count>>
  BY BoundsAssumption DEF CloseJson, IInv, TypeOK, BoundsAssumption
<1>4. Text = Prefix(n, n) /\ mv[c].n = n
  BY <1>3 DEF Texts, Text
<1>5. mv'[c].text = JsonArray(mv'[c].n)
  BY <1>2, <1>3, <1>4, PrefixLast
<1>6. \A k \in DOMAIN mv' : mv'[k].closed => mv'[k].text = JsonArray(mv'[k].n)
  BY <1>2, <1>5 DEF Texts
<1>7. ASSUME NEW k \in DOMAIN mv', ~mv'[k].closed
      PROVE  mv'[k].run < run /\ (k + 1 \in DOMAIN mv' => mv'[k + 1].run < mv'[k].run)
  <2>1. k # c
    BY <1>2, <1>7
  <2>2. mv[k].run < run /\ (k + 1 \in DOMAIN mv => mv[k + 1].run < mv[k].run)
    BY <1>2, <1>7, <2>1 DEF Texts
  <2>. QED BY <1>2, <1>7, <2>1, <2>2
<1>. QED BY <1>3, <1>6, <1>7 DEF Texts

LEMMA KillTexts == IInv /\ Texts /\ Kill => Texts'
<1> SUFFICES ASSUME IInv, Texts, Kill PROVE Texts'
  OBVIOUS
<1> DEFINE c == video_frame_count
<1>1. CASE pc # "write"
  BY <1>1 DEF Kill, Alive, Texts
<1>2. CASE pc = "write"
  <2>1. PICK len \in 0 .. Len(Text) : mv' = Rewrite(SubSeq(Text, 1, len), FALSE)
    BY <1>2 DEF Kill
  <2>2. SubSeq(Text, 1, len) \in Seq(Tokens)
    BY <1>2, <2>1, TextTokens
  <2>3. /\ c \in DOMAIN mv /\ DOMAIN mv' = DOMAIN mv /\ mv[c].run = run
        /\ \A j \in DOMAIN mv : j # c => mv'[j] = mv[j]
        /\ mv'[c].closed = FALSE
        /\ mv'[c].run = run
    BY <1>2, <2>1, <2>2, RewriteOpen
  <2>4. pc' = "killed" /\ UNCHANGED <<run, video_frame_count>>
    BY DEF Kill
  <2>5. \A k \in DOMAIN mv' : mv'[k].closed => mv'[k].text = JsonArray(mv'[k].n)
    BY <2>3 DEF Texts
  <2>6. ASSUME NEW k \in DOMAIN mv', k # c, ~mv'[k].closed
        PROVE  mv'[k].run < run /\ (k + 1 \in DOMAIN mv' => mv'[k + 1].run < mv'[k].run)
    <3>1. mv[k].run < run /\ (k + 1 \in DOMAIN mv => mv[k + 1].run < mv[k].run)
      BY <2>3, <2>6 DEF Texts
    <3>. QED BY <2>3, <2>6, <3>1
  <2>. QED BY <2>3, <2>4, <2>5, <2>6 DEF Texts
<1>. QED BY <1>1, <1>2

LEMMA RestartTexts == IInv /\ Texts /\ Restart => Texts'
<1> SUFFICES ASSUME IInv, Texts, Restart PROVE Texts'
  OBVIOUS
<1>1. pc' = "idle" /\ UNCHANGED mv /\ run' = run + 1
  BY DEF Restart
<1>2. ASSUME NEW k \in DOMAIN mv, ~mv[k].closed
      PROVE  mv[k].run < run + 1 /\ (k + 1 \in DOMAIN mv => mv[k + 1].run < mv[k].run)
  <2>1. CASE mv[k].run = run /\ k = video_frame_count
    <3>1. ASSUME k + 1 \in DOMAIN mv PROVE mv[k + 1].run < mv[k].run
      <4>1. mv[k + 1].run # run /\ mv[k + 1].run <= run /\ mv[k + 1].run \in Nat
        BY <2>1, <3>1 DEF IInv, OwnFiles, Numbers, TypeOK, File
      <4>. QED BY <2>1, <4>1 DEF IInv, TypeOK
    <3>. QED BY <2>1, <3>1 DEF IInv, TypeOK
  <2>2. CASE mv[k].run < run /\ (k + 1 \in DOMAIN mv => mv[k + 1].run < mv[k].run)
    BY <2>2 DEF IInv, TypeOK, File
  <2>. QED BY <1>2, <2>1, <2>2 DEF Texts
<1>. QED BY <1>1, <1>2 DEF Texts

LEMMA ReceiveTexts == IInv /\ IInv' /\ Texts /\ Receive => Texts'
<1> SUFFICES ASSUME IInv, IInv', Texts, Receive PROVE Texts'
  OBVIOUS
<1>1. pc = "receive" /\ UNCHANGED run
  BY DEF Receive
<1>2. \/ OpenJson
      \/ UNCHANGED <<video_frame_count, i, n, mv>> /\ \E error \in BOOLEAN : Return(error)
  BY DEF Receive
<1>3. CASE UNCHANGED <<video_frame_count, i, n, mv>> /\ \E error \in BOOLEAN : Return(error)
  <2>1. pc' # "write"
    BY <1>3 DEF Return, IInv, TypeOK, Packets
  <2>. QED BY <1>1, <1>3, <2>1, QuietTexts
<1>4. CASE OpenJson
  <2>1. CASE pc' = "exited" /\ UNCHANGED mv
    BY <1>1, <2>1, QuietTexts
  <2>2. CASE pc' = "write" /\ i' = 0 /\ \E mvs \in 0 .. MaxMvs :
               n' = mvs /\ mv' = Put(video_frame_count + 1, NewFile(mvs))
    BY <1>1, <1>4, <2>2, OpenJsonTexts DEF OpenJson
  <2>. QED BY <1>4, <2>1, <2>2 DEF OpenJson
<1>. QED BY <1>2, <1>3, <1>4

LEMMA SendTexts == IInv /\ Texts /\ Send => Texts'
<1> SUFFICES ASSUME IInv, Texts, Send PROVE Texts'
  OBVIOUS
<1>1. pc = "send" /\ UNCHANGED <<mv, run>>
  BY DEF Send
<1>2. pc' # "write"
  BY DEF Send, Return, IInv, TypeOK, Packets
<1>. QED BY <1>1, <1>2, QuietTexts

LEMMA FullInductive == Spec => [](IInv /\ Texts)
<1>1. Init => Texts
  BY DEF Init, Texts
<1>2. IInv /\ IInv' /\ Texts /\ [Next]_vars => Texts'
  <2> SUFFICES ASSUME IInv, IInv', Texts, [Next]_vars PROVE Texts'
    OBVIOUS
  <2>1. CASE UNCHANGED vars
    BY <2>1 DEF vars, Texts
  <2>2. CASE Call \/ OpenInput \/ OpenCodec \/ CheckStream \/ Read \/ End
    <3>1. UNCHANGED <<mv, run>> /\ pc \notin {"write", "killed"} /\ pc' # "write"
      BY <2>2 DEF Call, OpenInput, OpenCodec, CheckStream, Read, End
    <3>. QED BY <3>1, QuietTexts
  <2>3. CASE Next
    BY <2>2, <2>3, SendTexts, ReceiveTexts, WriteVectorTexts, CloseJsonTexts, KillTexts,
       RestartTexts DEF Next, Step
  <2>. QED BY <2>1, <2>3
<1>. QED BY <1>1, <1>2, Inductive, PTL DEF Spec

(* Whatever interrupts the program, a file that is not a complete JSON     *)
(* array is the one being written, or the last one of a killed process.    *)
THEOREM OnlyTheLastFileIsTorn == Spec => []TornOnlyWhereInterrupted
<1>1. IInv /\ Texts => TornOnlyWhereInterrupted
  BY DEF IInv, Texts, TornOnlyWhereInterrupted
<1>. QED BY <1>1, FullInductive, PTL

--------------------------------------------------------------------------------
Entries == [call : Nat, frame : Nat, whole : BOOLEAN]

LEMMA PublishedType ==
  ASSUME IInv
  PROVE  /\ PublishedCount \in Nat
         /\ PublishedCount <= video_frame_count
         /\ \A k \in 1 .. PublishedCount : k \in DOMAIN mv /\ mv[k].run = run
         /\ Published \in Seq(Entries)
         /\ Len(Published) = PublishedCount
         /\ \A k \in 1 .. PublishedCount : Published[k] = Entry(mv[k])
<1>1. PublishedCount \in Nat /\ PublishedCount <= video_frame_count
  BY DEF PublishedCount, IInv, TypeOK
<1>2. \A k \in 1 .. PublishedCount : k \in DOMAIN mv /\ mv[k].run = run
  BY DEF PublishedCount, Closed, IInv, OwnFiles, TypeOK
<1>3. \A k \in 1 .. PublishedCount : Entry(mv[k]) \in Entries
  <2> SUFFICES ASSUME NEW k \in 1 .. PublishedCount PROVE Entry(mv[k]) \in Entries
    OBVIOUS
  <2>1. mv[k] \in File
    BY <1>2 DEF IInv, TypeOK
  <2>. QED BY <2>1 DEF Entry, Entries, File
<1> DEFINE c == PublishedCount
           E(k) == Entry(mv[k])
<1>4. Published = [k \in 1 .. c |-> E(k)]
  BY DEF Published
<1>5. c \in Nat /\ \A k \in 1 .. c : E(k) \in Entries
  BY <1>1, <1>3
<1> HIDE DEF c, E
<1>6. Published \in Seq(Entries) /\ Len(Published) = c /\ \A k \in 1 .. c : Published[k] = E(k)
  BY <1>4, <1>5
<1>. QED BY <1>1, <1>2, <1>6 DEF c, E

LEMMA PublishedTypeBox ==
  IInv => /\ Published \in Seq(Entries)
          /\ Len(Published) = PublishedCount
          /\ \A k \in 1 .. PublishedCount : Published[k] = Entry(mv[k])
  BY PublishedType

LEMMA PublishedTypeNext ==
  (IInv => /\ Published \in Seq(Entries)
           /\ Len(Published) = PublishedCount
           /\ \A k \in 1 .. PublishedCount : Published[k] = Entry(mv[k]))'
  BY PublishedTypeBox, PTL

(* Between the steps that close a file the log does not change.            *)
LEMMA PublishedStays ==
  ASSUME PublishedCount' = PublishedCount,
         \A k \in 1 .. PublishedCount : mv'[k] = mv[k]
  PROVE  Published' = Published
  BY DEF Published, Entry

LEMMA PublishedCountAt ==
  IInv /\ Texts =>
    /\ pc = "write" => PublishedCount = video_frame_count - 1
    /\ pc \notin {"write", "killed", "exited"} => PublishedCount = video_frame_count
<1> SUFFICES ASSUME IInv, Texts
             PROVE  /\ pc = "write" => PublishedCount = video_frame_count - 1
                    /\ pc \notin {"write", "killed", "exited"} =>
                         PublishedCount = video_frame_count
  OBVIOUS
<1>1. CASE pc = "write"
  BY <1>1 DEF Texts, PublishedCount, Closed, IInv, Numbers, TypeOK
<1>2. CASE pc \notin {"write", "killed", "exited"} /\ video_frame_count # 0
  <2>1. video_frame_count \in DOMAIN mv /\ mv[video_frame_count].run = run
    BY <1>2 DEF IInv, OwnFiles, TypeOK
  <2>2. mv[video_frame_count].closed
    BY <1>2, <2>1 DEF Texts, IInv, TypeOK
  <2>. QED BY <1>2, <2>1, <2>2 DEF PublishedCount, Closed
<1>3. CASE pc \notin {"write", "killed", "exited"} /\ video_frame_count = 0
  BY <1>3 DEF PublishedCount
<1>. QED BY <1>1, <1>2, <1>3

LEMMA PublishedCountNext ==
  (IInv /\ Texts =>
    /\ pc = "write" => PublishedCount = video_frame_count - 1
    /\ pc \notin {"write", "killed", "exited"} => PublishedCount = video_frame_count)'
  BY PublishedCountAt, PTL

(* Closing a file publishes its frame, whole and in its place.             *)
LEMMA CloseJsonPublishes == IInv /\ IInv' /\ Texts /\ Texts' /\ CloseJson => Log!Publish
<1> SUFFICES ASSUME IInv, IInv', Texts, Texts', CloseJson PROVE Log!Publish
  OBVIOUS
<1> DEFINE c == video_frame_count
<1>1. pc = "write" /\ pc' = "receive" /\ UNCHANGED <<c, run, call, base>>
  BY DEF CloseJson
<1>2. c \in Nat /\ base \in Nat /\ base < c
  BY <1>1 DEF IInv, TypeOK, Numbers
<1>3. PublishedCount = c - 1 /\ PublishedCount' = c
  BY <1>1, PublishedCountAt, PublishedCountNext
<1>4. /\ c \in DOMAIN mv /\ DOMAIN mv' = DOMAIN mv
      /\ \A j \in DOMAIN mv : j # c => mv'[j] = mv[j]
      /\ mv'[c].closed = TRUE /\ mv'[c].run = run
  <2>1. Append(Text, "]") \in Seq(Tokens)
    BY <1>1, TextTokens
  <2>. QED BY <1>1, <2>1, RewriteOpen DEF CloseJson
<1>5. /\ Published \in Seq(Entries) /\ Len(Published) = c - 1
      /\ \A k \in 1 .. c - 1 : /\ k \in DOMAIN mv /\ mv[k].run = run
                              /\ Published[k] = Entry(mv[k])
  BY <1>3, PublishedType
<1>6. /\ Published' \in Seq(Entries) /\ Len(Published') = c
      /\ \A k \in 1 .. c : Published'[k] = Entry(mv'[k])
  <2>1. /\ Published' \in Seq(Entries) /\ Len(Published') = PublishedCount'
        /\ \A k \in 1 .. PublishedCount' : Published'[k] = Entry(mv[k])'
    BY PublishedTypeNext DEF Entries
  <2>2. \A k \in 1 .. c : Entry(mv[k])' = Entry(mv'[k])
    BY DEF Entry
  <2>. QED BY <1>3, <2>1, <2>2
<1>7. \A k \in 1 .. c - 1 : Published'[k] = Published[k]
  BY <1>2, <1>4, <1>5, <1>6
<1>8. Published'[c].whole
  <2>1. mv'[c].text = JsonArray(mv'[c].n)
    BY <1>4 DEF Texts
  <2>2. Published'[c] = Entry(mv'[c])
    BY <1>2, <1>6
  <2>3. Entry(mv'[c]).whole = (mv'[c].text = JsonArray(mv'[c].n))
    BY Zenon DEF Entry
  <2>. QED BY <2>1, <2>2, <2>3, Zenon
<1>9. Log!Follows(Published, Published'[c])
  <2>1. CASE c = 1
    <3>1. mv'[c].frame = c - base
      BY <1>1, <1>2, <1>4 DEF IInv, Numbers
    <3>2. Published = <<>>
      BY <1>5, <2>1
    <3>. QED BY <1>2, <1>6, <2>1, <3>1, <3>2 DEF Log!Follows, Entry
  <2>2. CASE c # 1
    <3>1. c - 1 \in 1 .. c - 1 /\ c - 1 \in Nat /\ (c - 1) + 1 = c
      BY <1>2, <2>2
    <3>2. /\ c - 1 \in DOMAIN mv' /\ mv'[c - 1] = mv[c - 1] /\ mv'[c - 1].run = run
      BY <1>4, <1>5, <3>1
    <3>3. \/ mv'[c].call = mv'[c - 1].call /\ mv'[c].frame = mv'[c - 1].frame + 1
          \/ mv'[c].call > mv'[c - 1].call /\ mv'[c].frame = 1
      <4>1. LET f == mv'[c - 1]
                g == mv'[(c - 1) + 1]
            IN \/ g.run < f.run
               \/ g.run = f.run /\ g.call = f.call /\ g.frame = f.frame + 1
               \/ g.run = f.run /\ g.call > f.call /\ g.frame = 1
        BY <1>4, <3>1, <3>2 DEF IInv, InOrder
      <4>2. run \in Nat
        BY DEF IInv, TypeOK
      <4>. QED BY <1>4, <3>1, <3>2, <4>1, <4>2
    <3>4. Published # <<>> /\ Published[Len(Published)] = Entry(mv'[c - 1])
      BY <1>5, <3>1, <3>2
    <3>. QED BY <1>2, <1>6, <3>3, <3>4 DEF Log!Follows, Entry
  <2>. QED BY <2>1, <2>2
<1>. QED BY <1>2, <1>5, <1>6, <1>7, <1>8, <1>9 DEF Log!Publish

LEMMA StepRefines ==
  IInv /\ IInv' /\ Texts /\ Texts' /\ [Next]_vars => [Log!Next]_Published
<1> SUFFICES ASSUME IInv, IInv', Texts, Texts', [Next]_vars
             PROVE  Log!Next \/ Published' = Published
  OBVIOUS
<1> DEFINE c == video_frame_count
<1>1. CASE UNCHANGED vars
  BY <1>1 DEF vars, Published, PublishedCount, Closed, Entry
<1>2. CASE Call \/ OpenInput \/ OpenCodec \/ CheckStream \/ Read \/ Send \/ End
  BY <1>2 DEF Call, OpenInput, OpenCodec, CheckStream, Read, Send, End,
     Published, PublishedCount, Closed, Entry
<1>3. CASE CloseJson
  BY <1>3, CloseJsonPublishes DEF Log!Next
<1>4. CASE Restart
  <2>1. PublishedCount' = 0
    BY <1>4 DEF Restart, PublishedCount
  <2>2. Len(Published') = PublishedCount' /\ Published' \in Seq(Entries)
    BY PublishedTypeNext DEF Entries
  <2>3. Published' = <<>>
    BY <2>1, <2>2
  <2>. QED BY <2>3 DEF Log!Next, Log!NewProcess
<1>5. CASE WriteVector
  <2>1. pc = "write" /\ pc' = "write" /\ c' = c
    BY <1>5 DEF WriteVector
  <2>2. PublishedCount = c - 1 /\ PublishedCount' = c - 1
    BY <2>1, PublishedCountAt, PublishedCountNext
  <2>3. \A j \in DOMAIN mv : j # c => mv'[j] = mv[j]
    <3>1. Text \o VectorText \in Seq(Tokens)
      BY <2>1, TextTokens
    <3>. QED BY <1>5, <2>1, <3>1, RewriteOpen DEF WriteVector
  <2>4. \A k \in 1 .. PublishedCount : k # c /\ k \in DOMAIN mv
    BY <2>2, PublishedType DEF IInv, TypeOK
  <2>. QED BY <2>2, <2>3, <2>4, PublishedStays
<1>6. CASE Kill
  <2>1. CASE pc # "write"
    BY <1>6, <2>1 DEF Kill, Published, PublishedCount, Closed, Entry
  <2>2. CASE pc = "write"
    <3>1. PICK len \in 0 .. Len(Text) : mv' = Rewrite(SubSeq(Text, 1, len), FALSE)
      BY <1>6, <2>2 DEF Kill
    <3>2. SubSeq(Text, 1, len) \in Seq(Tokens)
      BY <2>2, <3>1, TextTokens
    <3>3. /\ \A j \in DOMAIN mv : j # c => mv'[j] = mv[j]
          /\ mv'[c].closed = FALSE
      BY <2>2, <3>1, <3>2, RewriteOpen
    <3>4. PublishedCount = c - 1 /\ c \in Nat /\ base \in Nat /\ base < c
      BY <2>2, PublishedCountAt DEF IInv, TypeOK, Numbers
    <3>5. PublishedCount' = c - 1
      BY <1>6, <3>3, <3>4 DEF PublishedCount, Closed, Kill
    <3>6. \A k \in 1 .. PublishedCount : k # c /\ k \in DOMAIN mv
      BY <3>4, PublishedType
    <3>. QED BY <3>3, <3>4, <3>5, <3>6, PublishedStays
  <2>. QED BY <2>1, <2>2
<1>7. CASE Receive
  <2>1. pc = "receive" /\ PublishedCount = c /\ c \in Nat /\ run' = run
    BY <1>7, PublishedCountAt DEF Receive, IInv, TypeOK
  <2>2. CASE UNCHANGED <<video_frame_count, mv>>
    BY <2>1, <2>2 DEF Published, PublishedCount, Closed, Entry
  <2>3. CASE OpenJson /\ pc' = "exited" /\ UNCHANGED mv
    <3>1. c' = c + 1
      BY <2>3 DEF OpenJson
    <3>2. ~(c + 1 \in DOMAIN mv /\ mv[c + 1].run = run)
      BY <2>1 DEF IInv, OwnFiles
    <3>3. PublishedCount' = c
      BY <2>1, <2>3, <3>1, <3>2 DEF PublishedCount, Closed
    <3>. QED BY <2>1, <2>3, <3>3, PublishedStays
  <2>4. CASE OpenJson /\ pc' = "write"
    <3>1. c' = c + 1
      BY <2>4 DEF OpenJson
    <3>2. PublishedCount' = c' - 1
      BY <2>4, PublishedCountNext
    <3>3. \A j \in DOMAIN mv : j # c + 1 => mv'[j] = mv[j]
      BY <2>4 DEF OpenJson, Put
    <3>4. \A k \in 1 .. PublishedCount : k # c + 1 /\ k \in DOMAIN mv
      BY <2>1, PublishedType
    <3>. QED BY <2>1, <3>1, <3>2, <3>3, <3>4, PublishedStays
  <2>5. \/ UNCHANGED <<video_frame_count, mv>>
        \/ OpenJson /\ pc' = "exited" /\ UNCHANGED mv
        \/ OpenJson /\ pc' = "write"
    BY <1>7 DEF Receive, OpenJson
  <2>. QED BY <2>2, <2>3, <2>4, <2>5
<1>. QED BY <1>1, <1>2, <1>3, <1>4, <1>5, <1>6, <1>7 DEF Next, Step

(* extract_mvs implements the log of frames its readers rely on.           *)
THEOREM Refinement == Spec => ImplementsFrameLog
<1>1. Init => Log!Init
  <2> SUFFICES ASSUME Init PROVE Published = <<>>
    BY DEF Log!Init
  <2>1. PublishedCount = 0
    BY DEF Init, PublishedCount
  <2>2. Published \in Seq(Entries) /\ Len(Published) = PublishedCount
    BY InitInv, PublishedType
  <2>. QED BY <2>1, <2>2
<1>. QED
  BY <1>1, StepRefines, Inductive, FullInductive, PTL DEF Spec, ImplementsFrameLog, Log!Spec

--------------------------------------------------------------------------------
(* What is left to do in a call: the packets to read and the flush; the    *)
(* pictures that may come out before the next packet; and the rest of the  *)
(* way to the next packet, or of the vectors and that way.                 *)
Flushing == pkt = "null" /\ pc \in {"send", "receive", "write"}

Rounds ==
  IF Flushing \/ pc \in Dead \cup {"idle", "end"} THEN 0 ELSE MaxPackets - reads + 1

Pictures == Deliverable(dec) + (IF pc = "send" /\ pkt # "null" THEN 1 ELSE 0)

Way ==
  CASE pc = "open"    -> 7
    [] pc = "codec"   -> 6
    [] pc = "check"   -> 5
    [] pc = "send"    -> 4
    [] pc = "write"   -> 4 + (n - i)
    [] pc = "receive" -> 3
    [] pc = "read"    -> 2
    [] pc = "end"     -> 1
    [] OTHER          -> 0

Left == <<Rounds, Pictures, Way>>

Bounded == reads <= MaxPackets /\ (pc = "write" => i <= n)

LEMMA BoundedStep == IInv /\ Bounded /\ [Next]_vars => Bounded'
<1> SUFFICES ASSUME IInv, Bounded, [Next]_vars PROVE Bounded'
  OBVIOUS
<1> USE DEF Bounded
<1>1. reads \in Nat /\ i \in Nat /\ n \in Nat /\ MaxPackets \in Nat
  BY BoundsAssumption DEF IInv, TypeOK
<1>2. CASE Call \/ Restart
  BY <1>1, <1>2 DEF Call, Restart
<1>3. CASE OpenInput \/ OpenCodec \/ CheckStream \/ CloseJson \/ End \/ Kill
  <2>1. reads' = reads /\ pc' # "write"
    BY <1>3 DEF OpenInput, OpenCodec, CheckStream, CloseJson, End, Kill
  <2>. QED BY <2>1
<1>4. CASE Read
  BY <1>1, <1>4 DEF Read
<1>5. CASE WriteVector
  <2>1. reads' = reads /\ i' = i + 1 /\ n' = n /\ i < n
    BY <1>5 DEF WriteVector
  <2>. QED BY <1>1, <2>1
<1>6. CASE Send
  BY <1>6 DEF Send, Return
<1>7. CASE Receive
  <2>1. reads' = reads
    BY <1>7 DEF Receive
  <2>2. pc' = "write" => i' = 0 /\ n' \in 0 .. MaxMvs
    BY <1>7 DEF Receive, OpenJson, Return
  <2>. QED BY <2>1, <2>2, BoundsAssumption
<1>8. CASE UNCHANGED vars
  BY <1>8 DEF vars
<1>. QED BY <1>2, <1>3, <1>4, <1>5, <1>6, <1>7, <1>8 DEF Next, Step

LEMMA BoundedInductive == Spec => [](IInv /\ Bounded)
<1>1. Init => Bounded
  BY BoundsAssumption DEF Init, Bounded
<1>. QED BY <1>1, BoundedStep, Inductive, PTL DEF Spec

LEMMA LeftType == IInv /\ Bounded => Left \in Counts
<1> SUFFICES ASSUME IInv, Bounded PROVE Left \in Counts
  OBVIOUS
<1>1. reads \in Nat /\ i \in Nat /\ n \in Nat /\ Deliverable(dec) \in Nat
  BY DeliverableType DEF IInv, TypeOK
<1>2. Rounds \in Nat
  BY <1>1, BoundsAssumption DEF Rounds, Bounded
<1>3. Pictures \in Nat
  BY <1>1 DEF Pictures
<1>4. Way \in Nat
  BY <1>1 DEF Way, Bounded
<1>. QED BY <1>2, <1>3, <1>4 DEF Left, Counts

LEMMA LeftTypeNext == (IInv /\ Bounded => Left \in Counts)'
  BY LeftType, PTL

LEMMA StepFalls == IInv /\ Bounded /\ IInv' /\ Bounded' /\ Step => Less(Left', Left)
<1> SUFFICES ASSUME IInv, Bounded, IInv', Bounded', Step PROVE Less(Left', Left)
  OBVIOUS
<1> USE BoundsAssumption
<1>1. /\ Left \in Counts /\ Left[1] = Rounds /\ Left[2] = Pictures /\ Left[3] = Way
      /\ Left' \in Counts /\ Left'[1] = Rounds' /\ Left'[2] = Pictures' /\ Left'[3] = Way'
  BY LeftType, LeftTypeNext DEF Left
<1>2. /\ reads \in 0 .. MaxPackets /\ i \in Nat /\ n \in Nat
      /\ dec \in Codec /\ Deliverable(dec) \in Nat /\ Deliverable(dec') \in Nat
      /\ pkt \in Packets
  BY DeliverableType DEF IInv, TypeOK, Bounded
<1>3. CASE OpenInput \/ CheckStream
  <2>1. Rounds' <= Rounds /\ Pictures' <= Pictures /\ Way' < Way
    BY <1>2, <1>3 DEF OpenInput, CheckStream, Rounds, Flushing, Pictures, Way, Dead
  <2>. QED BY <1>1, <2>1, LessByThird
<1>4. CASE OpenCodec
  <2>1. Deliverable(Opened) = 0
    BY DEF Opened, Context, Deliverable, Undelivered
  <2>2. Rounds' <= Rounds /\ Pictures' <= Pictures /\ Way' < Way
    BY <1>2, <1>4, <2>1 DEF OpenCodec, Rounds, Flushing, Pictures, Way, Dead
  <2>. QED BY <1>1, <2>2, LessByThird
<1>5. CASE Read
  <2>1. Rounds' < Rounds
    BY <1>2, <1>5 DEF Read, Rounds, Flushing, Dead
  <2>. QED BY <1>1, <2>1, LessByFirst
<1>6. CASE Send
  <2>1. CASE ~IsOpen(dec)
    <3>1. /\ pc = "send" /\ pc' = "crashed"
          /\ UNCHANGED <<dec, pkt, reads>>
      BY <1>6, <2>1 DEF Send
    <3>2. Rounds' <= Rounds
      BY <1>2, <3>1 DEF Rounds, Flushing, Dead
    <3>3. Pictures' <= Pictures
      BY <1>2, <3>1 DEF Pictures
    <3>4. Way' < Way
      BY <1>2, <3>1 DEF Way
    <3>. QED BY <1>1, <3>2, <3>3, <3>4, LessByThird
  <2>2. CASE IsOpen(dec)
    <3>1. PICK o \in SendPacket(dec, pkt) :
            /\ dec' = o.dec
            /\ IF o.ret = "ok" THEN pc' = "receive" /\ UNCHANGED <<pkt, failed>>
                               ELSE Return(TRUE)
      BY <1>6, <2>2 DEF Send
    <3>2. Deliverable(dec') <= Deliverable(dec) + (IF pkt = "null" THEN 0 ELSE 1)
      BY <1>2, <3>1, DeliverableSent
    <3>3. pc = "send" /\ reads' = reads
      BY <1>6 DEF Send
    <3>4. CASE pc' = "send" /\ pkt # "null" /\ pkt' = "null"
      <4>1. Rounds' < Rounds
        BY <1>2, <3>3, <3>4 DEF Rounds, Flushing, Dead
      <4>. QED BY <1>1, <4>1, LessByFirst
    <3>5. CASE (pc' = "receive" \/ (pc' = "end" /\ pkt = "null")) /\ UNCHANGED pkt
      <4>1. Rounds' <= Rounds /\ Pictures' <= Pictures /\ Way' < Way
        BY <1>2, <3>2, <3>3, <3>5 DEF Rounds, Flushing, Pictures, Way, Dead
      <4>. QED BY <1>1, <4>1, LessByThird
    <3>. QED BY <3>1, <3>4, <3>5 DEF Return
  <2>. QED BY <2>1, <2>2
<1>7. CASE Receive
  <2>1. PICK o \in ReceiveFrame(dec) :
          /\ dec' = o.dec
          /\ IF o.ret = "ok" THEN OpenJson /\ UNCHANGED <<pkt, failed>>
             ELSE Return(o.ret = "error")
    BY <1>7 DEF Receive
  <2>2. /\ Deliverable(dec') <= Deliverable(dec)
        /\ o.ret = "ok" => Deliverable(dec') < Deliverable(dec)
    BY <1>2, <2>1, DeliverableReceived
  <2>3. pc = "receive" /\ reads' = reads
    BY <1>7 DEF Receive
  <2>4. CASE o.ret = "ok"
    <3>1. pc' \in {"exited", "write"} /\ UNCHANGED pkt
      BY <2>1, <2>4 DEF OpenJson
    <3>2. Rounds' <= Rounds /\ Pictures' < Pictures
      BY <1>2, <2>2, <2>3, <2>4, <3>1 DEF Rounds, Flushing, Pictures, Dead
    <3>. QED BY <1>1, <3>2, LessBySecond
  <2>5. CASE pc' = "send" /\ pkt # "null" /\ pkt' = "null"
    <3>1. Rounds' < Rounds
      BY <1>2, <2>3, <2>5 DEF Rounds, Flushing, Dead
    <3>. QED BY <1>1, <3>1, LessByFirst
  <2>6. CASE ((pc' = "read" /\ pkt # "null") \/ (pc' = "end" /\ pkt = "null")) /\ UNCHANGED pkt
    <3>1. Rounds' <= Rounds /\ Pictures' <= Pictures /\ Way' < Way
      BY <1>2, <2>2, <2>3, <2>6 DEF Rounds, Flushing, Pictures, Way, Dead
    <3>. QED BY <1>1, <3>1, LessByThird
  <2>. QED BY <2>1, <2>4, <2>5, <2>6 DEF Return
<1>8. CASE WriteVector \/ CloseJson
  <2>1. /\ pc = "write" /\ UNCHANGED <<dec, pkt, reads, n>>
        /\ (pc' = "write" /\ i < n /\ i' = i + 1) \/ (pc' = "receive" /\ i = n)
    BY <1>8 DEF WriteVector, CloseJson
  <2>2. Rounds' <= Rounds
    BY <1>2, <2>1 DEF Rounds, Flushing, Dead
  <2>3. Pictures' <= Pictures
    BY <1>2, <2>1 DEF Pictures
  <2>4. Way' < Way
    BY <1>2, <2>1 DEF Way
  <2>. QED BY <1>1, <2>2, <2>3, <2>4, LessByThird
<1>9. CASE End
  <2>1. Deliverable(NoCodec) = 0
    BY DEF NoCodec, Context, Deliverable, Undelivered
  <2>2. Rounds' <= Rounds /\ Pictures' <= Pictures /\ Way' < Way
    BY <1>2, <1>9, <2>1 DEF End, Rounds, Flushing, Pictures, Way, Dead
  <2>. QED BY <1>1, <2>2, LessByThird
<1>. QED BY <1>3, <1>4, <1>5, <1>6, <1>7, <1>8, <1>9 DEF Step

(* Every statement of a call leaves less to do, in an order in which       *)
(* nothing goes down for ever: however many pictures the codec holds back  *)
(* and whatever errors it returns, a call takes finitely many steps until  *)
(* it returns or its process ends.                                         *)
THEOREM CallsRunOut == Spec => [](Left \in Counts) /\ [][Step => Less(Left', Left)]_vars
<1>1. (IInv /\ Bounded) /\ (IInv /\ Bounded)' /\ [Next]_vars => [Step => Less(Left', Left)]_vars
  BY StepFalls
<1>. QED BY <1>1, LeftType, BoundedInductive, PTL DEF Spec

--------------------------------------------------------------------------------
(* The files of a call, and the pictures that may still come, are those of *)
(* the packets it has read.                                                *)
FromPackets == video_frame_count - base + Pictures <= reads

LEMMA FromPacketsStep == IInv /\ IInv' /\ FromPackets /\ [Next]_vars => FromPackets'
<1> SUFFICES ASSUME IInv, IInv', FromPackets, [Next]_vars PROVE FromPackets'
  OBVIOUS
<1>1. /\ video_frame_count \in Nat /\ base \in Nat /\ reads \in Nat
      /\ dec \in Codec /\ Deliverable(dec) \in Nat /\ Deliverable(dec') \in Nat
      /\ pkt \in Packets
  BY DeliverableType DEF IInv, TypeOK
<1>2. Deliverable(NoCodec) = 0 /\ Deliverable(Opened) = 0
  BY DEF NoCodec, Opened, Context, Deliverable, Undelivered
<1>3. CASE Call
  <2>1. dec' = NoCodec /\ pc' = "open" /\ video_frame_count' = base' /\ reads' = 0
    BY <1>3 DEF Call, IInv, CodecPhase
  <2>. QED BY <1>1, <1>2, <2>1 DEF FromPackets, Pictures, IInv, TypeOK
<1>4. CASE Restart
  <2>1. dec' = NoCodec /\ pc' = "idle" /\ video_frame_count' = 0 /\ base' = 0 /\ reads' = 0
    BY <1>4 DEF Restart
  <2>. QED BY <1>2, <2>1 DEF FromPackets, Pictures
<1>5. CASE OpenInput \/ OpenCodec \/ CheckStream \/ WriteVector \/ CloseJson \/ End \/ Kill
  <2>1. /\ dec' \in {dec, NoCodec, Opened} /\ pc' # "send"
        /\ UNCHANGED <<video_frame_count, base, reads>>
    BY <1>5 DEF OpenInput, OpenCodec, CheckStream, WriteVector, CloseJson, End, Kill
  <2>2. Pictures' <= Pictures
    BY <1>1, <1>2, <2>1 DEF Pictures
  <2>. QED BY <1>1, <2>1, <2>2 DEF FromPackets, Pictures
<1>6. CASE Read
  <2>1. pc = "read" /\ UNCHANGED <<dec, video_frame_count, base>>
    BY <1>6 DEF Read
  <2>2. \/ pkt' = "null" /\ reads' = reads
        \/ reads' = reads + 1
    BY <1>6 DEF Read
  <2>. QED BY <1>1, <2>1, <2>2 DEF FromPackets, Pictures
<1>7. CASE Send
  <2>1. pc = "send" /\ UNCHANGED <<video_frame_count, base, reads>>
    BY <1>7 DEF Send
  <2>2. CASE ~IsOpen(dec)
    <3>1. dec' = dec /\ pc' = "crashed"
      BY <1>7, <2>2 DEF Send
    <3>. QED BY <1>1, <2>1, <3>1 DEF FromPackets, Pictures
  <2>3. CASE IsOpen(dec)
    <3>1. /\ \E o \in SendPacket(dec, pkt) : dec' = o.dec
          /\ pc' # "send" \/ pkt' = "null"
      BY <1>7, <2>3 DEF Send, Return
    <3>2. Deliverable(dec') <= Deliverable(dec) + (IF pkt = "null" THEN 0 ELSE 1)
      BY <1>1, <3>1, DeliverableSent
    <3>. QED BY <1>1, <2>1, <3>1, <3>2 DEF FromPackets, Pictures
  <2>. QED BY <2>2, <2>3
<1>8. CASE Receive
  <2>1. PICK o \in ReceiveFrame(dec) :
          /\ dec' = o.dec
          /\ IF o.ret = "ok" THEN OpenJson
             ELSE Return(o.ret = "error") /\ UNCHANGED video_frame_count
    BY <1>8 DEF Receive
  <2>2. /\ dec' = o.dec /\ (pc' # "send" \/ pkt' = "null")
        /\ video_frame_count' = video_frame_count + (IF o.ret = "ok" THEN 1 ELSE 0)
    <3>1. CASE o.ret = "ok"
      BY <1>1, <2>1, <3>1 DEF OpenJson
    <3>2. CASE o.ret # "ok"
      <4>1. Return(o.ret = "error") /\ video_frame_count' = video_frame_count
        BY <2>1, <3>2
      <4>2. pc' # "send" \/ pkt' = "null"
        BY <4>1 DEF Return
      <4>. QED BY <1>1, <2>1, <3>2, <4>1, <4>2
    <3>. QED BY <3>1, <3>2
  <2>3. /\ Deliverable(dec') <= Deliverable(dec)
        /\ o.ret = "ok" => Deliverable(dec') < Deliverable(dec)
    BY <1>1, <2>2, DeliverableReceived
  <2>4. pc = "receive" /\ UNCHANGED <<base, reads>>
    BY <1>8 DEF Receive
  <2>. QED BY <1>1, <2>2, <2>3, <2>4 DEF FromPackets, Pictures
<1>9. CASE UNCHANGED vars
  BY <1>9 DEF vars, FromPackets, Pictures
<1>. QED BY <1>3, <1>4, <1>5, <1>6, <1>7, <1>8, <1>9 DEF Next, Step

(* A call never writes more files than it has read packets, whatever the   *)
(* codec holds back, loses or fails on: no picture comes out twice, and    *)
(* the flush adds none.                                                    *)
THEOREM NoFileWithoutPacket == Spec => [](video_frame_count - base <= reads)
<1>1. Init => FromPackets
  BY DEF Init, FromPackets, Pictures, NoCodec, Context, Deliverable, Undelivered
<1>2. IInv /\ FromPackets => video_frame_count - base <= reads
  <2>. SUFFICES ASSUME IInv, FromPackets PROVE video_frame_count - base <= reads
    OBVIOUS
  <2>1. /\ Deliverable(dec) \in Nat /\ video_frame_count \in Nat /\ base \in Nat
        /\ reads \in Nat
    BY DeliverableType DEF IInv, TypeOK
  <2>. QED BY <2>1 DEF FromPackets, Pictures
<1>. QED BY <1>1, <1>2, FromPacketsStep, Inductive, PTL DEF Spec

================================================================================
