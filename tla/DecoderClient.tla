----------------------------- MODULE DecoderClient -----------------------------
(***************************************************************************)
(* The decoding interface under a client that calls it in any order: the   *)
(* contract the extractors rely on, before any of them is looked at.       *)
(***************************************************************************)
EXTENDS Decoder

CONSTANT MaxPackets     \* bound: packets the client sends

ASSUME ClientAssumption == MaxPackets \in Nat

VARIABLES dec,          \* the codec context
          sent,         \* packets sent, refused ones included
          last          \* the last call and its return code

vars == <<dec, sent, last>>

Last(op, r) == [op |-> op, ret |-> r]

Init == dec = Opened /\ sent = 0 /\ last = Last("none", "ok")

Send(pkt) ==
  /\ sent < MaxPackets
  /\ \E o \in SendPacket(dec, pkt) : dec' = o.dec /\ last' = Last("send", o.ret)
  /\ sent' = sent + 1

Receive ==
  /\ \E o \in ReceiveFrame(dec) : dec' = o.dec /\ last' = Last("receive", o.ret)
  /\ UNCHANGED sent

Next == Receive \/ \E pkt \in Packets : Send(pkt)

Spec == Init /\ [][Next]_vars

TypeOK ==
  /\ dec \in Codec
  /\ sent \in 0 .. MaxPackets
  /\ last \in [op : {"none", "send", "receive"}, ret : Codes]

(* Whatever the client does, every picture decoded is held back, waiting   *)
(* in buffer_frame, or has been received: decoding ahead loses none.       *)
NoPictureLost == dec.taken = dec.frame_number + Undelivered(dec)

(* decode.c: once avcodec_receive_frame has reported the end of stream and *)
(* no drain step failed, every picture has been received.                  *)
EofMeansDrained ==
  last = Last("receive", "eof") /\ dec.errors = 0 => dec.frame_number = dec.taken

(* avcodec.h:145-147: EAGAIN from one call implies that the other call "at *)
(* least will not fail with AVERROR(EAGAIN)".                              *)
NeverBothEagain ==
  [][~ /\ last = Last("send", "eagain")
       /\ last' = Last("receive", "eagain")]_vars

================================================================================
