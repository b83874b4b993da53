---------------------------------- MODULE FMV -----------------------------------
(***************************************************************************)
(* The class FMV of src/cpp/efmvs.cpp (and of efmvs_2.cpp, which exports   *)
(* no vectors and wraps its counter later): a call of                      *)
(* extract_motion_vectors reads packets until it has decoded one, and      *)
(* leaves its picture, if any, in a buffer that cv_mat wraps.  A client    *)
(* calls the methods in any order, as the Python binding lets it, but for  *)
(* open_codec_context, which connect calls, and decode_packet, whose       *)
(* packet is a local variable of a method that has ended.  MainLoop has    *)
(* the loops around the class.                                             *)
(***************************************************************************)
EXTENDS Decoder

CONSTANTS Wrap,         \* the frame counter wraps here: 100, in efmvs_2 2500
          SideData,     \* vectors of a frame: "none", "empty", "some"
          MaxPackets,   \* bound: packets of the input
          MaxFailures   \* bound: failures of av_frame_alloc

ASSUME FMVAssumption ==
  /\ Wrap \in Nat \ {0} /\ MaxPackets \in Nat /\ MaxFailures \in Nat
  /\ SideData \subseteq {"none", "empty", "some"}

VARIABLES
  pc,                   \* "new", "idle" between two methods, or inside one
  dec,                  \* *pCodecCtx, NoCodec when it is NULL
  video_stream,         \* whether the pointer is set
  gotFrame, video_frame_count, pkt,
  pFrame,               \* whether it points to a frame
  buffer,               \* the pixels of pFrameRGB: "null", "live", "freed"
  cv_mat,               \* the pixels it wraps, likewise
  jarray,               \* whether decode_packet still has its array
  mv_json_array,        \* the frame its vectors are of, Null or Garbage
  ret,                  \* what extract_motion_vectors returned last
  method,               \* the method running, or the last one
  reads, failures,      \* packets read, allocations failed (ghosts)
  frames, got,          \* frames received ever, and in this method (ghosts)
  described,            \* whether the newest frame had side data (ghost)
  ended                 \* the last extraction ran out of packets or memory (ghost)

ghosts == <<reads, failures, frames, got, described, ended>>
vars == <<pc, dec, video_stream, gotFrame, video_frame_count, pkt, pFrame, buffer,
          cv_mat, jarray, mv_json_array, ret, method, ghosts>>

Inside == {"read", "send", "receive"}
Final == {"exited", "crashed", "freed"}

Null == 0               \* frames count from 1
Garbage == -1           \* a pointer nobody has set

(* gotFrame and mv_json_array have no initialiser: `new` leaves what was   *)
(* in the memory.                                                          *)
Init ==
  /\ pc = "new" /\ dec = NoCodec /\ video_stream = FALSE
  /\ gotFrame \in BOOLEAN /\ video_frame_count = 0 /\ pkt = "null"
  /\ pFrame = FALSE /\ buffer = "null" /\ cv_mat = "null"
  /\ jarray = FALSE /\ mv_json_array = Garbage /\ ret = 0 /\ method = "none"
  /\ reads = 0 /\ failures = 0 /\ frames = 0 /\ got = 0
  /\ described = FALSE /\ ended = FALSE

(* Mutant: video_stream is set before the codec was opened.                *)
ConnectStreamFirst ==
  /\ pc = "new"
  /\ \/ pc' = "exited" /\ UNCHANGED <<dec, video_stream>>
     \/ pc' = "idle" /\ dec' = Opened /\ video_stream' = TRUE
     \/ pc' = "idle" /\ video_stream' = TRUE /\ UNCHANGED dec
  /\ UNCHANGED <<gotFrame, video_frame_count, pkt, pFrame, buffer, cv_mat, jarray,
                 mv_json_array, ret, method, ghosts>>

(* connect: exit(1) if the input cannot be opened; what open_codec_context *)
(* returns is ignored.                                                     *)
Connect ==
  /\ pc = "new"
  /\ \/ pc' = "exited" /\ UNCHANGED <<dec, video_stream>>
     \/ pc' = "idle" /\ dec' = Opened /\ video_stream' = TRUE
     \/ pc' = "idle" /\ UNCHANGED <<dec, video_stream>>
  /\ UNCHANGED <<gotFrame, video_frame_count, pkt, pFrame, buffer, cv_mat, jarray,
                 mv_json_array, ret, method, ghosts>>

(* extract_motion_vectors up to its loop.  Without a stream, or a frame to *)
(* decode into, its end label returns ret < 0; without one for the pixels  *)
(* it returns -1 and keeps the other.                                      *)
Extract ==
  /\ pc = "idle"
  /\ method' = "extract" /\ got' = 0
  /\ \/ /\ ~video_stream
        /\ pFrame' = FALSE /\ ret' = 0 /\ ended' = TRUE
        /\ UNCHANGED <<pc, buffer, failures>>
     \/ /\ video_stream /\ failures < MaxFailures
        /\ failures' = failures + 1 /\ ended' = TRUE
        /\ \/ pFrame' = FALSE /\ ret' = 1 /\ UNCHANGED buffer
           \/ pFrame' = TRUE /\ ret' = -1 /\ buffer' = "null"
        /\ UNCHANGED pc
     \/ /\ video_stream
        /\ pFrame' = TRUE /\ buffer' = "live" /\ pc' = "read" /\ ended' = FALSE
        /\ UNCHANGED <<ret, failures>>
  /\ UNCHANGED <<dec, video_stream, gotFrame, video_frame_count, pkt, cv_mat, jarray,
                 mv_json_array, reads, frames, described>>

(* av_freep(&buffer): a Mat around the pixels is left dangling.            *)
FreePixels ==
  /\ buffer' = "freed"
  /\ cv_mat' = IF cv_mat = "live" THEN "freed" ELSE cv_mat

(* Mutant: an error of decode_packet is returned in place of the counter.  *)
AfterPacketReturnsError(error, flag) ==
  IF error \/ flag
  THEN /\ pc' = "idle" /\ gotFrame' = FALSE /\ FreePixels
       /\ ret' = IF error THEN -1 ELSE video_frame_count
  ELSE /\ pc' = "read" /\ gotFrame' = flag /\ UNCHANGED <<buffer, cv_mat, ret>>

(* After each packet: an error, or the flag, ends the method; the pixels   *)
(* are freed, and the counter is returned.                                 *)
AfterPacket(error, flag) ==
  IF error \/ flag
  THEN /\ pc' = "idle" /\ gotFrame' = FALSE /\ FreePixels
       /\ ret' = video_frame_count
  ELSE /\ pc' = "read" /\ gotFrame' = flag /\ UNCHANGED <<buffer, cv_mat, ret>>

(* decode_packet returns to extract_motion_vectors or flush_cached_frames. *)
Return(error) ==
  LET flag == gotFrame \/ ~error
  IN IF method = "flush"
     THEN pc' = "idle" /\ gotFrame' = flag /\ UNCHANGED <<buffer, cv_mat, ret>>
     ELSE AfterPacket(error, flag)

(* Mutant: the flush that efmvs.cpp:360 has commented out.                 *)
ReadFlushes ==
  /\ pc = "read"
  /\ \/ /\ pc' = "send" /\ pkt' = "null" /\ method' = "flush" /\ ended' = TRUE
        /\ UNCHANGED <<gotFrame, pFrame, buffer, cv_mat, ret, reads>>
     \/ /\ reads < MaxPackets /\ reads' = reads + 1
        /\ \/ AfterPacket(FALSE, gotFrame) /\ UNCHANGED pkt
           \/ /\ pc' = "send" /\ pkt' \in {"data", "empty"}
              /\ UNCHANGED <<gotFrame, buffer, cv_mat, ret>>
        /\ UNCHANGED <<pFrame, ended, method>>
  /\ UNCHANGED <<dec, video_stream, video_frame_count, jarray, mv_json_array, failures,
                 frames, got, described>>

(* av_read_frame: at the end of the input (or an error) the frame is freed *)
(* and 0 returned; a packet of another stream is skipped.                  *)
Read ==
  /\ pc = "read"
  /\ \/ /\ pc' = "idle" /\ pFrame' = FALSE /\ ret' = 0 /\ ended' = TRUE
        /\ UNCHANGED <<gotFrame, pkt, buffer, cv_mat, reads>>
     \/ /\ reads < MaxPackets /\ reads' = reads + 1
        /\ \/ AfterPacket(FALSE, gotFrame) /\ UNCHANGED pkt
           \/ /\ pc' = "send" /\ pkt' \in {"data", "empty"}
              /\ UNCHANGED <<gotFrame, buffer, cv_mat, ret>>
        /\ UNCHANGED <<pFrame, ended>>
  /\ UNCHANGED <<dec, video_stream, video_frame_count, jarray, mv_json_array, method,
                 failures, frames, got, described>>

(* Mutant: frames are received during the flush only.                      *)
SendDefersReceive ==
  /\ pc = "send"
  /\ \/ /\ ~IsOpen(dec)
        /\ pc' = "crashed" /\ UNCHANGED <<dec, gotFrame, buffer, cv_mat, ret, jarray>>
     \/ /\ IsOpen(dec)
        /\ \E o \in SendPacket(dec, pkt) :
             /\ dec' = o.dec
             /\ IF o.ret = "ok" /\ pkt = "null"
                THEN pc' = "receive" /\ jarray' = TRUE /\ UNCHANGED <<gotFrame, buffer, cv_mat, ret>>
                ELSE UNCHANGED jarray /\ Return(o.ret # "ok")
  /\ UNCHANGED <<video_stream, video_frame_count, pkt, pFrame, mv_json_array, method,
                 ghosts>>

(* decode_packet: avcodec_send_packet, which dereferences a NULL context,  *)
(* then a new array for the vectors.                                       *)
Send ==
  /\ pc = "send"
  /\ \/ /\ ~IsOpen(dec)
        /\ pc' = "crashed" /\ UNCHANGED <<dec, gotFrame, buffer, cv_mat, ret, jarray>>
     \/ /\ IsOpen(dec)
        /\ \E o \in SendPacket(dec, pkt) :
             /\ dec' = o.dec
             /\ IF o.ret = "ok"
                THEN pc' = "receive" /\ jarray' = TRUE /\ UNCHANGED <<gotFrame, buffer, cv_mat, ret>>
                ELSE UNCHANGED jarray /\ Return(TRUE)
  /\ UNCHANGED <<video_stream, video_frame_count, pkt, pFrame, mv_json_array, method,
                 ghosts>>

(* Mutant: the counter wraps to 0.                                         *)
increaseWrapsToZero(count) == (count + 1) % Wrap

(* Mutant: it wraps one frame late.                                        *)
increaseWrapsLate(count) == (count % (Wrap + 1)) + 1

increase_current_frame_number(count) == (count % Wrap) + 1

(* A received frame: scaled into the pixels, which cv_mat wraps without a  *)
(* copy; its vectors are added to the array, which side data, even empty,  *)
(* then hands over and clears.  Pixels that are not there, or vectors      *)
(* without an array, are a fault.                                          *)
Deliver(sd) ==
  /\ video_frame_count' = increase_current_frame_number(video_frame_count)
  /\ frames' = frames + 1 /\ got' = got + 1 /\ described' = (sd # "none")
  /\ pc' = IF buffer # "live" \/ (sd = "some" /\ ~jarray) THEN "crashed" ELSE "receive"
  /\ cv_mat' = buffer
  /\ mv_json_array' = CASE sd = "none"             -> mv_json_array
                       [] sd # "none" /\ jarray    -> frames + 1
                       [] sd # "none" /\ ~jarray   -> Null
  /\ jarray' = (jarray /\ sd = "none")

(* One turn of the loop of decode_packet; avcodec_receive_frame needs a    *)
(* frame to fill.  At EAGAIN and at the end of the stream the flag is set. *)
Receive ==
  /\ pc = "receive"
  /\ \/ /\ ~pFrame
        /\ pc' = "crashed"
        /\ UNCHANGED <<dec, gotFrame, buffer, cv_mat, ret, video_frame_count, jarray,
                       mv_json_array, frames, got, described>>
     \/ /\ pFrame
        /\ \E o \in ReceiveFrame(dec) :
             /\ dec' = o.dec
             /\ IF o.ret = "ok"
                THEN (\E sd \in SideData : Deliver(sd)) /\ UNCHANGED <<gotFrame, buffer, ret>>
                ELSE /\ Return(o.ret = "error")
                     /\ UNCHANGED <<video_frame_count, jarray, mv_json_array, frames,
                                    got, described>>
  /\ UNCHANGED <<video_stream, pkt, pFrame, method, reads, failures, ended>>

flush_cached_frames ==
  /\ pc = "idle"
  /\ pc' = "send" /\ pkt' = "null" /\ method' = "flush" /\ got' = 0
  /\ UNCHANGED <<dec, video_stream, gotFrame, video_frame_count, pFrame, buffer,
                 cv_mat, jarray, mv_json_array, ret, reads, failures, frames, described,
                 ended>>

(* The binding turns the Mat it is given into an array, which copies the   *)
(* pixels; copying freed ones may end the process.                         *)
getMAT ==
  /\ pc = "idle" /\ method' = "getMAT"
  /\ pc' \in IF cv_mat = "freed" THEN {"idle", "crashed"} ELSE {"idle"}
  /\ UNCHANGED <<dec, video_stream, gotFrame, video_frame_count, pkt, pFrame, buffer,
                 cv_mat, jarray, mv_json_array, ret, ghosts>>

(* setFrameFlag, and increase_current_frame_number from outside.           *)
Set ==
  /\ pc = "idle"
  /\ \/ gotFrame' \in BOOLEAN /\ UNCHANGED video_frame_count
     \/ /\ video_frame_count' = increase_current_frame_number(video_frame_count)
        /\ UNCHANGED gotFrame
  /\ UNCHANGED <<pc, dec, video_stream, pkt, pFrame, buffer, cv_mat, jarray,
                 mv_json_array, ret, method, ghosts>>

freeStuff ==
  /\ pc = "idle"
  /\ pc' = "freed" /\ pFrame' = FALSE /\ dec' = NoCodec
  /\ UNCHANGED <<video_stream, gotFrame, video_frame_count, pkt, buffer, cv_mat, jarray,
                 mv_json_array, ret, method, ghosts>>

(* The statements inside a method.                                         *)
Step == Read \/ Send \/ Receive

(* A client that connects once and frees last.                             *)
Next ==
  Connect \/ Extract \/ flush_cached_frames \/ getMAT \/ Set \/ freeStuff \/ Step

Spec == Init /\ [][Next]_vars

--------------------------------------------------------------------------------
TypeOK ==
  /\ pc \in {"new", "idle"} \cup Inside \cup Final
  /\ dec \in Codec
  /\ video_stream \in BOOLEAN /\ gotFrame \in BOOLEAN /\ pFrame \in BOOLEAN
  /\ video_frame_count \in 0 .. Wrap
  /\ pkt \in Packets /\ buffer \in {"null", "live", "freed"} /\ jarray \in BOOLEAN
  /\ cv_mat \in {"null", "live", "freed"}
  /\ mv_json_array \in Nat \cup {Garbage} /\ described \in BOOLEAN
  /\ ret \in -1 .. Wrap \cup {1} /\ method \in {"none", "extract", "flush", "getMAT"}
  /\ reads \in Nat /\ failures \in Nat /\ frames \in Nat /\ got \in Nat
  /\ ended \in BOOLEAN

(* One extraction receives at most one frame, so the number it returns     *)
(* leaves none out.  (Its pixels are freed before it returns.)             *)
OneFramePerCall == method = "extract" => got <= 1

(* When the newest frame has side data, even empty, getMVJSON gives the    *)
(* array with the vectors of that frame.  A second frame of one packet     *)
(* would find the array handed over and put NULL in its place.  (Without   *)
(* side data it still gives those of an earlier frame, or garbage.)        *)
VectorsOfTheFrame == described /\ pc # "crashed" => mv_json_array = frames

(* Between two methods, the pictures the codec has decoded and not handed  *)
(* out are those it holds back for reordering: no packet is left in the    *)
(* filter and no picture in buffer_frame for a later call to trip over.    *)
OnlyHeldBackLost ==
  pc = "idle" /\ IsOpen(dec) => frames + dec.held = dec.taken /\ dec.input # "data"

(* Whatever was called before, an extraction finds a context, a frame, its *)
(* pixels and its array.  flush_cached_frames may miss them, and getMAT    *)
(* the pixels of the picture.                                              *)
FaultsOutsideExtractions == pc = "crashed" => method # "extract"
================================================================================
