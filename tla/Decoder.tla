-------------------------------- MODULE Decoder --------------------------------
(***************************************************************************)
(* The send/receive decoding interface of the bundled libavcodec, as every *)
(* extractor of MV-Tractus uses it: avcodec_send_packet and                *)
(* avcodec_receive_frame (include/libavcodec/decode.c) over the null       *)
(* bitstream filter (bsf.c).  A codec context is a record; the two calls   *)
(* return the set of outcomes the codec may produce, each a return code    *)
(* and the context it leaves.  What a packet holds is the codec's choice.  *)
(***************************************************************************)
EXTENDS Integers

CONSTANTS Delay,            \* pictures a codec may hold back (has_b_frames)
          MaxDrainErrors    \* nb_errors_max, 21 without frame threads

ASSUME DelayAssumption == Delay \in Nat
ASSUME DrainAssumption == MaxDrainErrors \in Nat

Packets == {"data", "empty", "null"}
Codes == {"ok", "eagain", "eof", "error"}

(* The input side of a context, from the flags of its filter and of        *)
(* AVCodecInternal: "closed" without a codec; "none" and "data" say        *)
(* whether the filter holds a packet; "eof" is the filter's end of stream, *)
(* which hides a packet it still holds; then draining and draining_done.   *)
Inputs == {"closed", "none", "data", "eof", "draining", "done"}

(*   held          pictures decoded and held back for reordering           *)
(*   out           buffer_frame holds a picture nobody has received        *)
(*   errors        nb_draining_errors                                      *)
(*   frame_number  pictures received;  taken  pictures ever decoded (ghost)*)
Codec == [input : Inputs, held : 0 .. Delay, out : BOOLEAN,
          errors : 0 .. MaxDrainErrors + 1, frame_number : Nat, taken : Nat]

Context(input, held, out, errors, frame_number, taken) ==
  [input |-> input, held |-> held, out |-> out, errors |-> errors,
   frame_number |-> frame_number, taken |-> taken]

(* A codec context as avcodec_open2 leaves it, and the absence of one.     *)
Opened == Context("none", 0, FALSE, 0, 0, 0)
NoCodec == Context("closed", 0, FALSE, 0, 0, 0)

IsOpen(d) == d.input # "closed"

Outcome(r, c) == [ret |-> r, dec |-> c]

(* codec->decode on the packet in the filter: it is consumed whole, and    *)
(* holds no picture or one.  The codec fails, keeps the picture (the loop  *)
(* then asks for another packet, EAGAIN), or emits the oldest it holds.    *)
DecodePacket(d) ==
  LET After(got, kept) ==
        Context("none", kept, d.out, d.errors, d.frame_number, d.taken + got)
  IN {Outcome("error", After(0, d.held))}
     \cup {Outcome("eagain", After(got, d.held + got)) :
             got \in {k \in {0, 1} : d.held + k <= Delay}}
     \cup {Outcome("ok", After(got, d.held + got - 1)) :
             got \in {k \in {0, 1} : d.held + k >= 1}}

(* Mutant: the drain does not ask whether the codec holds a picture.       *)
DrainCodecUnchecked(d) ==
  {Outcome("ok", Context("draining", d.held - 1, d.out, d.errors,
                         d.frame_number, d.taken))}

(* Mutant: the drain ends at once, whatever the codec holds.               *)
DrainCodecEndsEarly(d) ==
  {Outcome("eof", Context("done", d.held, d.out, d.errors,
                          d.frame_number, d.taken))}

(* codec->decode with no packet after the end of stream: the held pictures *)
(* come out one by one; an error counts against the limit, and one error   *)
(* beyond it forces the end.                                               *)
DrainCodec(d) ==
  LET After(input, held, errors) ==
        Context(input, held, d.out, errors, d.frame_number, d.taken)
  IN {Outcome("error", After(IF d.errors >= MaxDrainErrors THEN "done" ELSE "draining",
                             d.held, d.errors + 1))}
     \cup IF d.held > 0 THEN {Outcome("ok", After("draining", d.held - 1, d.errors))}
                        ELSE {Outcome("eof", After("done", 0, d.errors))}

(* decode_receive_frame_internal: the filter reports the end of stream     *)
(* before it looks at its packet, so a packet still pending then is lost.  *)
DecodeNext(d) ==
  CASE d.input = "data"                -> DecodePacket(d)
    [] d.input \in {"eof", "draining"} -> DrainCodec(d)
    [] d.input = "done"                -> {Outcome("eof", d)}
    [] d.input = "none"                -> {Outcome("eagain", d)}

(* Why avcodec_send_packet refuses a packet, "ok" when it takes it.        *)
Refusal(d, pkt) ==
  CASE d.input = "closed"                                          -> "error"
    [] d.input \in {"draining", "done"}                            -> "eof"
    [] d.input \in {"none", "data", "eof"} /\ pkt = "null"         -> "ok"
    [] d.input \in {"none", "data", "eof"} /\ pkt = "empty"        -> "error"
    [] d.input = "eof" /\ pkt = "data"                             -> "error"
    [] d.input = "data" /\ pkt = "data"                            -> "eagain"
    [] d.input = "none" /\ pkt = "data"                            -> "ok"

(* The filter takes the packet, or notes the end of stream.                *)
Accept(d, pkt) ==
  Context(IF pkt = "null" THEN "eof" ELSE "data",
          d.held, d.out, d.errors, d.frame_number, d.taken)

(* Decoding ahead, from avcodec_send_packet into buffer_frame: of the      *)
(* codes only an error is handed on.                                       *)
DecodeAhead(d) ==
  {Outcome(IF o.ret = "error" THEN "error" ELSE "ok",
           Context(o.dec.input, o.dec.held, o.ret = "ok", o.dec.errors,
                   o.dec.frame_number, o.dec.taken)) : o \in DecodeNext(d)}

(* Mutant: decodes ahead even when buffer_frame still holds a picture.     *)
SendPacketOverwrites(d, pkt) ==
  IF Refusal(d, pkt) # "ok" THEN {Outcome(Refusal(d, pkt), d)}
  ELSE DecodeAhead(Accept(d, pkt))

(* avcodec_send_packet.                                                    *)
SendPacket(d, pkt) ==
  IF Refusal(d, pkt) # "ok" THEN {Outcome(Refusal(d, pkt), d)}
  ELSE IF d.out THEN {Outcome("ok", Accept(d, pkt))}
  ELSE DecodeAhead(Accept(d, pkt))

(* avcodec_receive_frame: the picture decoded ahead, or the next one.      *)
ReceiveFrame(d) ==
  IF ~IsOpen(d) THEN {Outcome("error", d)}
  ELSE IF d.out
  THEN {Outcome("ok", Context(d.input, d.held, FALSE, d.errors,
                              d.frame_number + 1, d.taken))}
  ELSE {Outcome(o.ret,
                Context(o.dec.input, o.dec.held, FALSE, o.dec.errors,
                        o.dec.frame_number + (IF o.ret = "ok" THEN 1 ELSE 0),
                        o.dec.taken)) : o \in DecodeNext(d)}

(* Pictures the codec has decoded and the caller has not received.         *)
Undelivered(d) == d.held + (IF d.out THEN 1 ELSE 0)

================================================================================
