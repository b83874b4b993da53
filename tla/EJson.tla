--------------------------------- MODULE EJson ----------------------------------
(***************************************************************************)
(* src/c/e_json.c hands a frame and a JSON array of vectors to its caller  *)
(* in a global record, fmv.  decode_packet makes one array per packet and  *)
(* the record holds a pointer to it, so arrays live in a heap here.        *)
(***************************************************************************)
EXTENDS Decoder, Sequences

CONSTANT MaxPackets     \* bound: packets of the video file

ASSUME PacketsAssumption == MaxPackets \in Nat

VARIABLES
  pc,                   \* what the program does next
  dec,                  \* *pCodecCtx
  video_frame_count,
  pkt, ret,             \* argument and result of decode_packet: "ok" or "error"
  reads,                \* packets read (ghost)
  arrays,               \* the heap of JSON arrays, each the frames whose vectors it has
  fmv,                  \* the frame handed out, and its array (0 for NULL)
  withVectors           \* the last frame that had motion vectors (ghost)

vars == <<pc, dec, video_frame_count, pkt, ret, reads, arrays, fmv, withVectors>>

Places == {"connect", "extract", "alloc", "read", "send", "receive", "return",
           "end", "done", "exited"}

Fmv == [frame : Nat, mv : Nat]
NoFmv == [frame |-> 0, mv |-> 0]

Init ==
  /\ pc = "connect" /\ dec = NoCodec /\ video_frame_count = 0
  /\ pkt = "data" /\ ret = "ok" /\ reads = 0
  /\ arrays = <<>> /\ fmv = NoFmv /\ withVectors = 0

(* createConnection: exit(1) when the input cannot be opened; without a    *)
(* video stream or a codec it goes on, and nothing is assigned.            *)
createConnection ==
  /\ pc = "connect"
  /\ \/ pc' = "exited" /\ UNCHANGED dec
     \/ pc' = "extract" /\ dec' \in {Opened, NoCodec}
  /\ UNCHANGED <<video_frame_count, pkt, ret, reads, arrays, fmv, withVectors>>

(* The test of video_stream, assigned together with the context, and the   *)
(* first allocation.                                                       *)
CheckStream ==
  /\ pc = "extract"
  /\ pc' \in IF IsOpen(dec) THEN {"alloc", "end"} ELSE {"end"}
  /\ UNCHANGED <<dec, video_frame_count, pkt, ret, reads, arrays, fmv, withVectors>>

(* The second allocation: its failure returns at once.                     *)
AllocRGB ==
  /\ pc = "alloc" /\ pc' \in {"read", "done"}
  /\ UNCHANGED <<dec, video_frame_count, pkt, ret, reads, arrays, fmv, withVectors>>

(* av_read_frame: the end of the input leads to the flush, a packet of     *)
(* another stream is skipped.                                              *)
Read ==
  /\ pc = "read"
  /\ \/ pkt' = "null" /\ pc' = "send" /\ UNCHANGED reads
     \/ /\ reads < MaxPackets /\ reads' = reads + 1
        /\ \/ UNCHANGED <<pc, pkt>>
           \/ pkt' \in {"data", "empty"} /\ pc' = "send"
  /\ UNCHANGED <<dec, video_frame_count, ret, arrays, fmv, withVectors>>

(* Mutant: one array for all packets.                                      *)
SendSharesArray ==
  /\ pc = "send"
  /\ \E o \in SendPacket(dec, pkt) :
       /\ dec' = o.dec
       /\ IF o.ret = "ok"
          THEN /\ pc' = "receive" /\ UNCHANGED ret
               /\ arrays' = IF arrays = <<>> THEN << <<>> >> ELSE arrays
          ELSE pc' = "return" /\ ret' = "error" /\ UNCHANGED arrays
  /\ UNCHANGED <<video_frame_count, pkt, reads, fmv, withVectors>>

(* A packet the decoder takes gets a new array.                            *)
Send ==
  /\ pc = "send"
  /\ \E o \in SendPacket(dec, pkt) :
       /\ dec' = o.dec
       /\ IF o.ret = "ok"
          THEN pc' = "receive" /\ arrays' = Append(arrays, <<>>) /\ UNCHANGED ret
          ELSE pc' = "return" /\ ret' = "error" /\ UNCHANGED arrays
  /\ UNCHANGED <<video_frame_count, pkt, reads, fmv, withVectors>>

(* Mutant: the array is handed over only when none was.                    *)
HandOutFirstArray ==
  LET k == video_frame_count + 1
      top == Len(arrays)
  IN /\ video_frame_count' = k
     /\ \/ /\ fmv' = [frame |-> k, mv |-> fmv.mv]
           /\ UNCHANGED <<arrays, withVectors>>
        \/ /\ arrays' = [arrays EXCEPT ![top] = Append(@, k)]
           /\ fmv' = [frame |-> k, mv |-> IF fmv.mv = 0 THEN top ELSE fmv.mv]
           /\ withVectors' = k

(* A frame: it replaces the one in the record; its vectors, if it has any, *)
(* join the array of the packet, and only then the record gets that array. *)
HandOut ==
  LET k == video_frame_count + 1
      top == Len(arrays)
  IN /\ video_frame_count' = k
     /\ \/ /\ fmv' = [frame |-> k, mv |-> fmv.mv]
           /\ UNCHANGED <<arrays, withVectors>>
        \/ /\ arrays' = [arrays EXCEPT ![top] = Append(@, k)]
           /\ fmv' = [frame |-> k, mv |-> top]
           /\ withVectors' = k

(* avcodec_receive_frame: EAGAIN and the end of the stream end the loop    *)
(* well, anything else but a frame makes decode_packet fail.               *)
Receive ==
  /\ pc = "receive"
  /\ \E o \in ReceiveFrame(dec) :
       /\ dec' = o.dec
       /\ IF o.ret = "ok"
          THEN HandOut /\ UNCHANGED <<pc, ret>>
          ELSE /\ pc' = "return"
               /\ ret' = IF o.ret = "error" THEN "error" ELSE "ok"
               /\ UNCHANGED <<video_frame_count, arrays, fmv, withVectors>>
  /\ UNCHANGED <<pkt, reads>>

(* After a packet the loop goes on or, after an error or when the program  *)
(* has enough, flushes; after the flush the end label follows.             *)
Return(enough) ==
  /\ pc = "return"
  /\ CASE pkt = "null" -> pc' = "end" /\ UNCHANGED pkt
       [] pkt # "null" /\ (ret = "error" \/ enough) -> pc' = "send" /\ pkt' = "null"
       [] pkt # "null" /\ ret = "ok" /\ ~enough     -> pc' = "read" /\ UNCHANGED pkt
  /\ UNCHANGED <<dec, video_frame_count, ret, reads, arrays, fmv, withVectors>>

End ==
  /\ pc = "end" /\ pc' = "done"
  /\ dec' = NoCodec
  /\ UNCHANGED <<video_frame_count, pkt, ret, reads, arrays, fmv, withVectors>>

Next == \/ createConnection \/ CheckStream \/ AllocRGB \/ Read \/ Send \/ Receive
        \/ Return(FALSE) \/ End

Spec == Init /\ [][Next]_vars

--------------------------------------------------------------------------------
TypeOK ==
  /\ pc \in Places /\ dec \in Codec /\ video_frame_count \in Nat
  /\ pkt \in Packets /\ ret \in {"ok", "error"} /\ reads \in 0 .. MaxPackets
  /\ arrays \in Seq(Seq(Nat))
  /\ fmv \in Fmv /\ fmv.mv <= Len(arrays)
  /\ withVectors \in 0 .. video_frame_count

(* The array of a packet holds the vectors of one frame at most: only the  *)
(* frames of the flush share theirs.                                       *)
OneFramePerArray ==
  \A h \in 1 .. Len(arrays) :
    Len(arrays[h]) > 1 => h = Len(arrays) /\ pkt = "null"

(* The record holds the newest frame, with the newest vectors as the last  *)
(* ones of its array: those of the frame or, when it has none, those of    *)
(* the last frame that had any.                                            *)
NewestVectors ==
  /\ fmv.frame = video_frame_count
  /\ IF withVectors = 0 THEN fmv.mv = 0
     ELSE /\ fmv.mv \in 1 .. Len(arrays) /\ arrays[fmv.mv] # <<>>
          /\ arrays[fmv.mv][Len(arrays[fmv.mv])] = withVectors

================================================================================
