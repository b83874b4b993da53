----------------------------- MODULE QueueExtractor -----------------------------
(***************************************************************************)
(* experiments/extract_mvs_with_frames_in_DS_with_Q.c: decode_packet of    *)
(* e_json.c, followed by one insertion of the record into the circular     *)
(* queue, and a loop that stops reading when the queue is full.            *)
(***************************************************************************)
EXTENDS EJson

CONSTANT MAX_FRAMES     \* the size of the queue, 10 in the code

ASSUME QueueAssumption == MAX_FRAMES \in Nat \ {0}

VARIABLES queue, front, rear, itemCount,
          data          \* what the queue returned last: nothing, it is not read here

queueVars == <<queue, front, rear, itemCount, data>>

Q == INSTANCE FrameQueue WITH Items <- Fmv, Garbage <- NoFmv

QueueInit == Init /\ Q!Init

(* Mutant: the record enters the queue when the packet is sent, before the *)
(* frames that come out of it.                                             *)
EnqueueEarly ==
  IF pc = "send" /\ pc' = "receive" THEN Q!enqueueFrameData(fmv)
  ELSE UNCHANGED queueVars

(* At its end, unless it failed, decode_packet inserts the record whether  *)
(* or not a frame has come out, and how many.                              *)
Enqueue ==
  IF pc' = "return" /\ ret' = "ok" THEN Q!enqueueFrameData(fmv')
  ELSE UNCHANGED queueVars

DecodeStep == (Send \/ Receive) /\ Enqueue

(* Mutant: the loop does not look at the queue.                            *)
LoopReturnBlind == Return(FALSE) /\ UNCHANGED queueVars

(* After a packet the loop ends on an error or a full queue, and flushes.  *)
LoopReturn == Return(Q!isFull) /\ UNCHANGED queueVars

OtherStep ==
  (createConnection \/ CheckStream \/ AllocRGB \/ Read \/ End) /\ UNCHANGED queueVars

QueueNext == DecodeStep \/ LoopReturn \/ OtherStep

QueueSpec == QueueInit /\ [][QueueNext]_<<vars, queueVars>>

--------------------------------------------------------------------------------
Waiting == Q!Waiting
Flushed == pkt = "null" /\ pc \in {"return", "end", "done"}

(* Of the frames received before the flush the queue has every one, in     *)
(* order: an entry repeats the frame before it (the packet gave none), or  *)
(* is the next frame.  Only the entry of the flush may leave frames out.   *)
EveryFrameQueued ==
  /\ \A k \in 1 .. Len(Waiting) :
       LET before == IF k = 1 THEN 0 ELSE Waiting[k - 1].frame
       IN \/ Waiting[k].frame \in {before, before + 1}
          \/ k = Len(Waiting) /\ Flushed
  /\ pc = "read" =>
       video_frame_count = IF Waiting = <<>> THEN 0 ELSE Waiting[Len(Waiting)].frame

(* A packet is decoded only while the queue has room for its entry: no     *)
(* entry but that of the flush can be dropped.                             *)
RoomForEveryPacket ==
  pkt # "null" /\ pc \in {"send", "receive"} => ~Q!isFull

(* Entries share arrays through pointers.  What an entry points to does    *)
(* not change any more once it is in the queue.                            *)
EntriesKeepTheirVectors ==
  [][\A k \in 1 .. Len(Waiting) :
       Waiting[k].mv # 0 => arrays'[Waiting[k].mv] = arrays[Waiting[k].mv]]_<<vars, queueVars>>

================================================================================
