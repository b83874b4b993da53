---------------------------- MODULE DecoderLemmas ------------------------------
(***************************************************************************)
(* Lemmas about the outcomes of the two calls of the decoding interface,   *)
(* for every reorder delay and every limit on drain errors.                *)
(***************************************************************************)
EXTENDS Decoder, WellFoundedInduction, TLAPS

(* What holds of an open codec context between any two calls: its pictures *)
(* add up, and it is done only when it holds none or a drain step failed.  *)
Consistent(d) ==
  /\ d \in Codec
  /\ IsOpen(d)
  /\ d.taken = d.frame_number + Undelivered(d)
  /\ d.input = "done" => d.held = 0 \/ d.errors > 0
  /\ d.input = "done" \/ d.errors <= MaxDrainErrors

LEMMA OpenedConsistent == Consistent(Opened) /\ NoCodec \in Codec
  BY DelayAssumption, DrainAssumption
  DEF Consistent, Opened, NoCodec, Codec, Context, Inputs, IsOpen, Undelivered

(* One step of the codec, with buffer_frame empty.  An "ok" outcome has    *)
(* taken one picture out of the context, an "eof" one has ended it.        *)
LEMMA DecodeNextOutcome ==
  ASSUME NEW d, Consistent(d), ~d.out, NEW o \in DecodeNext(d)
  PROVE  /\ o.ret \in Codes
         /\ o.dec \in Codec
         /\ IsOpen(o.dec)
         /\ ~o.dec.out
         /\ o.dec.frame_number = d.frame_number
         /\ o.dec.taken = d.frame_number + o.dec.held + (IF o.ret = "ok" THEN 1 ELSE 0)
         /\ o.dec.input = "done" => o.dec.held = 0 \/ o.dec.errors > 0
         /\ o.dec.input = "done" \/ o.dec.errors <= MaxDrainErrors
         /\ o.ret = "eof" => o.dec.input = "done"
         /\ o.ret = "eagain" => o.dec.input = "none"
         /\ d.input \in {"none", "data"} => o.dec.input = "none"
         /\ d.input \in {"eof", "draining", "done"} =>
              o.dec.input \in {"draining", "done"}
         /\ o.ret # "error" => o.dec.errors = d.errors
<1> USE DelayAssumption, DrainAssumption DEF Codes, Codec, Inputs, IsOpen, Outcome,
        Context, Consistent, Undelivered
<1>1. CASE d.input = "data"
  BY <1>1 DEF DecodeNext, DecodePacket
<1>2. CASE d.input \in {"eof", "draining"}
  BY <1>2 DEF DecodeNext, DrainCodec
<1>3. CASE d.input \in {"none", "done"}
  BY <1>3 DEF DecodeNext
<1>. QED BY <1>1, <1>2, <1>3

(* avcodec_send_packet keeps the context consistent, and takes a packet    *)
(* from a caller that has received everything without asking it to wait.   *)
LEMMA SendPacketOutcome ==
  ASSUME NEW d, Consistent(d), NEW pkt \in Packets, NEW o \in SendPacket(d, pkt)
  PROVE  /\ o.ret \in Codes
         /\ Consistent(o.dec)
         /\ o.dec.frame_number = d.frame_number
         /\ o.ret # "error" => o.dec.errors = d.errors
         /\ d.input = "none" /\ ~d.out =>
              /\ o.dec.input \in IF pkt = "null" THEN {"draining", "done"} ELSE {"none"}
              /\ o.ret # "ok" => ~o.dec.out
<1>1. CASE Refusal(d, pkt) # "ok"
  BY <1>1 DEF SendPacket, Outcome, Refusal, Consistent, Codec, Inputs, Codes, Packets
<1>2. CASE Refusal(d, pkt) = "ok"
  <2> DEFINE e == Accept(d, pkt)
  <2>1. /\ Consistent(e)
        /\ e.out = d.out /\ e.frame_number = d.frame_number /\ e.errors = d.errors
        /\ e.input = IF pkt = "null" THEN "eof" ELSE "data"
    BY <1>2 DEF Refusal, Accept, Consistent, Context, Codec, Inputs, Packets,
                IsOpen, Undelivered
  <2>2. CASE d.out
    BY <1>2, <2>1, <2>2 DEF SendPacket, Outcome, Codes
  <2>3. CASE ~d.out
    <3>1. PICK q \in DecodeNext(e) :
            o = Outcome(IF q.ret = "error" THEN "error" ELSE "ok",
                        Context(q.dec.input, q.dec.held, q.ret = "ok", q.dec.errors,
                                q.dec.frame_number, q.dec.taken))
      BY <1>2, <2>3 DEF SendPacket, DecodeAhead
    <3> HIDE DEF e
    <3>2. ~e.out
      BY <2>1, <2>3
    <3> DEFINE ahead == q.ret = "ok"
    <3>3. o.dec = Context(q.dec.input, q.dec.held, ahead, q.dec.errors,
                          q.dec.frame_number, q.dec.taken)
      BY <3>1 DEF Outcome
    <3>4. o.ret \in Codes /\ (o.ret = "error" <=> q.ret = "error")
      BY <3>1 DEF Outcome, Codes
    <3>5. ahead \in BOOLEAN /\ (ahead <=> q.ret = "ok") /\ (o.ret # "ok" => ~ahead)
      BY <3>1 DEF Outcome
    <3> HIDE DEF ahead
    <3>. QED
      BY <2>1, <3>2, <3>3, <3>4, <3>5, DecodeNextOutcome, DelayAssumption, DrainAssumption
      DEF Outcome, Context, Consistent, Codec, Codes, Inputs, IsOpen, Undelivered
  <2>. QED BY <2>2, <2>3 DEF Consistent, Codec
<1>. QED BY <1>1, <1>2

(* avcodec_receive_frame keeps the context consistent; frame_number counts *)
(* the frames it returns; the end of the stream leaves nothing in it.      *)
LEMMA ReceiveFrameOutcome ==
  ASSUME NEW d, Consistent(d), NEW o \in ReceiveFrame(d)
  PROVE  /\ o.ret \in Codes
         /\ Consistent(o.dec)
         /\ o.dec.frame_number = d.frame_number + (IF o.ret = "ok" THEN 1 ELSE 0)
         /\ ~o.dec.out
         /\ o.ret = "eof" => o.dec.input = "done"
         /\ o.ret = "eagain" => o.dec.input = "none"
         /\ d.input = "none" => o.dec.input = "none"
         /\ d.input \in {"draining", "done"} => o.dec.input \in {"draining", "done"}
         /\ o.ret # "error" => o.dec.errors = d.errors
<1>1. CASE d.out
  <2>1. o = Outcome("ok", Context(d.input, d.held, FALSE, d.errors,
                                  d.frame_number + 1, d.taken))
    BY <1>1 DEF ReceiveFrame, Consistent
  <2>. QED
    BY <1>1, <2>1, DelayAssumption, DrainAssumption
    DEF Outcome, Context, Consistent, Codec, Codes, Inputs, IsOpen, Undelivered
<1>2. CASE ~d.out
  <2>1. PICK q \in DecodeNext(d) :
          o = Outcome(q.ret,
                      Context(q.dec.input, q.dec.held, FALSE, q.dec.errors,
                              q.dec.frame_number + (IF q.ret = "ok" THEN 1 ELSE 0),
                              q.dec.taken))
    BY <1>2 DEF ReceiveFrame, Consistent
  <2>. QED
    BY <1>2, <2>1, DecodeNextOutcome, DelayAssumption, DrainAssumption
    DEF Outcome, Context, Consistent, Codec, Codes, Inputs, IsOpen, Undelivered
<1>. QED BY <1>1, <1>2 DEF Consistent, Codec

(* A context with nothing in its filter and nothing ready asks for a       *)
(* packet.                                                                 *)
LEMMA EmptyContextAsks ==
  ASSUME NEW d, Consistent(d), d.input = "none", ~d.out, NEW o \in ReceiveFrame(d)
  PROVE  o.ret = "eagain"
  BY DEF ReceiveFrame, DecodeNext, Consistent, Outcome

(* A context that was flushed takes no packet any more.                    *)
LEMMA EndedContextRefuses ==
  ASSUME NEW d, Consistent(d), d.input \in {"draining", "done"},
         NEW pkt0 \in Packets, NEW o \in SendPacket(d, pkt0)
  PROVE  o.ret = "eof" /\ o.dec = d
  BY DEF SendPacket, Refusal, Outcome

--------------------------------------------------------------------------------
(* The pictures a context can still hand out before it asks for a packet:  *)
(* those decoded and not received, and the one of a packet in the filter.  *)
Deliverable(d) == Undelivered(d) + (IF d.input = "data" THEN 1 ELSE 0)

LEMMA DeliverableType == \A d \in Codec : Deliverable(d) \in Nat
  BY DelayAssumption DEF Deliverable, Undelivered, Codec

(* A packet may bring one picture, the end of stream none.                 *)
LEMMA DeliverableSent ==
  ASSUME NEW d \in Codec, NEW pkt \in Packets, NEW o \in SendPacket(d, pkt)
  PROVE  Deliverable(o.dec) <= Deliverable(d) + (IF pkt = "null" THEN 0 ELSE 1)
<1> USE DelayAssumption DEF Deliverable, Undelivered
<1>1. CASE Refusal(d, pkt) # "ok"
  BY <1>1 DEF SendPacket, Outcome, Codec
<1>2. CASE Refusal(d, pkt) = "ok"
  <2> DEFINE e == Accept(d, pkt)
  <2>1. /\ e.held = d.held /\ e.out = d.out
        /\ e.input = (IF pkt = "null" THEN "eof" ELSE "data")
    BY DEF Accept, Context
  <2>2. d.held \in Nat /\ d.out \in BOOLEAN
    BY DEF Codec
  <2>3. CASE d.out
    <3>1. o.dec = e
      BY <1>2, <2>3 DEF SendPacket, Outcome
    <3>. QED BY <2>1, <2>2, <3>1
  <2>4. CASE ~d.out
    <3>1. PICK q \in DecodeNext(e) :
            /\ o.dec.input = q.dec.input /\ o.dec.held = q.dec.held
            /\ o.dec.out = (q.ret = "ok")
      BY <1>2, <2>4 DEF SendPacket, DecodeAhead, Outcome, Context
    <3>2. q.dec.input # "data" /\ q.dec.held \in Nat
          /\ q.dec.held + (IF q.ret = "ok" THEN 1 ELSE 0)
               <= d.held + (IF pkt = "null" THEN 0 ELSE 1)
      <4> HIDE DEF e
      <4>1. CASE pkt = "null"
        BY <2>1, <2>2, <4>1 DEF DecodeNext, DrainCodec, Outcome, Context
      <4>2. CASE pkt # "null"
        BY <2>1, <2>2, <4>2 DEF DecodeNext, DecodePacket, Outcome, Context
      <4>. QED BY <4>1, <4>2
    <3>. QED BY <2>2, <2>4, <3>1, <3>2
  <2>. QED BY <2>3, <2>4
<1>. QED BY <1>1, <1>2

(* Receiving brings none, and a frame received is one less.                *)
LEMMA DeliverableReceived ==
  ASSUME NEW d \in Codec, NEW o \in ReceiveFrame(d)
  PROVE  /\ Deliverable(o.dec) <= Deliverable(d)
         /\ o.ret = "ok" => Deliverable(o.dec) < Deliverable(d)
<1> USE DelayAssumption DEF Deliverable, Undelivered
<1>1. d.held \in Nat /\ d.out \in BOOLEAN
  BY DEF Codec
<1>2. CASE ~IsOpen(d)
  BY <1>1, <1>2 DEF ReceiveFrame, Outcome
<1>3. CASE IsOpen(d) /\ d.out
  BY <1>1, <1>3 DEF ReceiveFrame, Outcome, Context
<1>4. CASE IsOpen(d) /\ ~d.out
  <2>1. PICK q \in DecodeNext(d) :
          /\ o.ret = q.ret /\ o.dec.input = q.dec.input /\ o.dec.held = q.dec.held
          /\ o.dec.out = FALSE
    BY <1>4 DEF ReceiveFrame, Outcome, Context
  <2>2. CASE d.input = "data"
    BY <1>1, <1>4, <2>1, <2>2 DEF DecodeNext, DecodePacket, Outcome, Context
  <2>3. CASE d.input \in {"eof", "draining"}
    BY <1>1, <1>4, <2>1, <2>3 DEF DecodeNext, DrainCodec, Outcome, Context
  <2>4. CASE d.input \in {"none", "done"}
    BY <1>1, <1>4, <2>1, <2>4 DEF DecodeNext, Outcome
  <2>. QED BY <1>4, <2>2, <2>3, <2>4 DEF Codec, Inputs, IsOpen
<1>. QED BY <1>2, <1>3, <1>4

(* The lexicographic order of three counts, in which what is left to do in *)
(* a call goes down.                                                       *)
Counts == Nat \X Nat \X Nat
Less(a, b) ==
  \/ a[1] < b[1]
  \/ a[1] = b[1] /\ a[2] < b[2]
  \/ a[1] = b[1] /\ a[2] = b[2] /\ a[3] < b[3]

LEMMA LessByFirst ==
  ASSUME NEW a \in Counts, NEW b \in Counts, b[1] < a[1]
  PROVE  Less(b, a)
  BY DEF Less

LEMMA LessBySecond ==
  ASSUME NEW a \in Counts, NEW b \in Counts, b[1] <= a[1], b[2] < a[2]
  PROVE  Less(b, a)
  BY DEF Less, Counts

LEMMA LessByThird ==
  ASSUME NEW a \in Counts, NEW b \in Counts, b[1] <= a[1], b[2] <= a[2], b[3] < a[3]
  PROVE  Less(b, a)
  BY DEF Less, Counts

(* The orders as sets of pairs, the lesser one first.                      *)
Below == {p \in Nat \X Nat : p[1] < p[2]}
LEMMA BelowWF == IsWellFoundedOn(Below, Nat)
<1>1. OpToRel(<, Nat) = Below
  BY DEF OpToRel, Below
<1>. QED BY <1>1, NatLessThanWellFounded

Descents == {p \in Counts \X Counts : Less(p[1], p[2])}

(* No sequence of counts goes down for ever, so a variant that every       *)
(* statement of a call lowers allows only finitely many of them: what the  *)
(* loops of decode_packet and extract_motion_vectors rely on to end.       *)
LEMMA NoEndlessDescent == IsWellFoundedOn(Descents, Counts)
<1> DEFINE Pairs == Nat \X Nat
           R == LexPairOrdering(Below, Below, Nat, Nat)
           RR == LexPairOrdering(Below, R, Nat, Pairs)
<1>1. IsWellFoundedOn(R, Pairs)
  BY BelowWF, WFLexPairOrdering
<1>2. IsWellFoundedOn(RR, Nat \X Pairs)
  <2> HIDE DEF R, Pairs
  <2>. QED BY <1>1, BelowWF, WFLexPairOrdering
<1>3. SUFFICES ASSUME NEW f \in [Nat -> Counts], \A k \in Nat : <<f[k + 1], f[k]>> \in Descents
               PROVE  FALSE
  BY DEF IsWellFoundedOn
<1> DEFINE g == [k \in Nat |-> <<f[k][1], <<f[k][2], f[k][3]>> >>]
<1>4. \A k \in Nat : f[k] \in Counts
  OBVIOUS
<1>5. g \in [Nat -> Nat \X Pairs]
  BY <1>4 DEF Counts
<1>6. ASSUME NEW k \in Nat PROVE <<g[k + 1], g[k]>> \in RR
  <2>1. Less(f[k + 1], f[k])
    BY <1>3 DEF Descents
  <2>2. f[k] \in Counts /\ f[k + 1] \in Counts /\ k + 1 \in Nat
    BY <1>4
  <2>3. /\ g[k][1] = f[k][1] /\ g[k][2] = <<f[k][2], f[k][3]>>
        /\ g[k + 1][1] = f[k + 1][1] /\ g[k + 1][2] = <<f[k + 1][2], f[k + 1][3]>>
    BY <2>2
  <2>4. g[k] \in Nat \X Pairs /\ g[k + 1] \in Nat \X Pairs
    BY <1>5, <2>2
  <2> HIDE DEF g
  <2>5. f[k+1][1] < f[k][1] => <<g[k + 1][1], g[k][1]>> \in Below
    BY <2>2, <2>3 DEF Below, Counts
  <2>6. f[k+1][2] < f[k][2] => <<f[k + 1][2], f[k][2]>> \in Below
    BY <2>2 DEF Below, Counts
  <2>7. f[k+1][3] < f[k][3] => <<f[k + 1][3], f[k][3]>> \in Below
    BY <2>2 DEF Below, Counts
  <2>8. f[k+1][2] < f[k][2] \/ (f[k+1][2] = f[k][2] /\ f[k+1][3] < f[k][3])
          => <<g[k + 1][2], g[k][2]>> \in R
    <3> DEFINE a == f[k + 1]  b == f[k]
    <3>1. /\ a[2] \in Nat /\ a[3] \in Nat /\ b[2] \in Nat /\ b[3] \in Nat
      BY <2>2 DEF Counts
    <3> HIDE DEF a, b
    <3>2. \/ <<a[2], b[2]>> \in Below
          \/ a[2] = b[2] /\ <<a[3], b[3]>> \in Below
          => <<<<a[2], a[3]>>, <<b[2], b[3]>>>> \in R
      BY <3>1 DEF LexPairOrdering
    <3>. QED BY <2>3, <2>6, <2>7, <3>2 DEF a, b
  <2> HIDE DEF R
  <2>. QED BY <2>1, <2>2, <2>3, <2>4, <2>5, <2>8 DEF LexPairOrdering, Less, Counts
<1>. QED
  <2> HIDE DEF RR, g
  <2>. QED BY <1>2, <1>5, <1>6 DEF IsWellFoundedOn

================================================================================
