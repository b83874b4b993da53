------------------------- MODULE ExtractMvsWithFrames --------------------------
(***************************************************************************)
(* src/c/extract_mvs_with_frames.c: for every picture a frame file and a   *)
(* file of vectors, in two directories.  Beyond extract_mvs.c it saves the *)
(* frame before the vectors, gives a frame up silently, and has a return   *)
(* in the middle that skips the end label; the next call of the process    *)
(* then finds the old input open and reads on in it.                       *)
(***************************************************************************)
EXTENDS Decoder, FiniteSets

CONSTANTS MaxRuns,      \* bound: processes, one after another
          MaxCalls,     \* bound: calls of extract_motion_vectors per process
          MaxPackets    \* bound: packets read by a process

ASSUME FramesBoundsAssumption ==
  MaxRuns \in Nat /\ MaxCalls \in Nat /\ MaxPackets \in Nat

VARIABLES
  pc,                   \* what the process does next
  dec,                  \* *pCodecCtx, NoCodec when it is NULL
  video_stream,         \* "null", "live", or "dangling" once its input is closed
  input,                \* the call whose video pFormatCtx reads, 0 when it is NULL
  video_frame_count,
  pkt,                  \* the packet decode_packet works on, "null" to flush
  frames, mv,           \* ./output/frames and ./output/mv: number -> file
  run, call, reads,     \* process, call in it, packets read by it (ghosts)
  skipped,              \* calls that returned without the end label (ghost)
  lost,                 \* codec contexts nothing points to any more (ghost)
  unopened              \* those of them that could not be opened (ghost)

vars == <<pc, dec, video_stream, input, video_frame_count, pkt, frames, mv,
          run, call, reads, skipped, lost, unopened>>

Dead == {"exited", "crashed", "killed"}     \* exit(1), a fault, a signal
Alive == {"idle", "open", "codec", "check", "alloc", "read", "send", "receive",
          "save", "frame", "json", "write", "end"}

(* A picture: the process and the call that received it, the call that was *)
(* given the video it is from, and its place among the decoder's frames.   *)
Picture == [run : Nat, call : Nat, video : Nat, frame : Nat]

(* A file: the picture it is about, and whether it was closed complete.    *)
File == [pic : Picture, whole : BOOLEAN]

ThisPicture ==
  [run |-> run, call |-> call, video |-> input, frame |-> dec.frame_number]

(* The directory d with a file under the current number, new or replaced.  *)
Put(d, whole) ==
  [k \in DOMAIN d \cup {video_frame_count} |->
     IF k = video_frame_count THEN [pic |-> ThisPicture, whole |-> whole] ELSE d[k]]

Init ==
  /\ pc = "idle" /\ dec = NoCodec /\ video_stream = "null" /\ input = 0
  /\ video_frame_count = 0 /\ pkt = "data"
  /\ frames = [k \in {} |-> 0] /\ mv = [k \in {} |-> 0]
  /\ run = 1 /\ call = 0 /\ reads = 0 /\ skipped = {} /\ lost = 0 /\ unopened = 0

(* main, or the Python wrapper, calls extract_motion_vectors.              *)
Call ==
  /\ pc = "idle" /\ call < MaxCalls
  /\ pc' = "open" /\ call' = call + 1 /\ UNCHANGED reads
  /\ UNCHANGED <<dec, video_stream, input, video_frame_count, pkt, frames, mv,
                 run, skipped, lost, unopened>>

(* avformat_open_input, handed a context that is still open, reads on in   *)
(* the old input; otherwise it opens the video it is given.  exit(1) when  *)
(* it or avformat_find_stream_info fails.                                  *)
OpenInput ==
  /\ pc = "open"
  /\ \/ pc' = "exited" /\ UNCHANGED input
     \/ pc' = "codec" /\ input' = IF input = 0 THEN call ELSE input
  /\ UNCHANGED <<dec, video_stream, video_frame_count, pkt, frames, mv,
                 run, call, reads, skipped, lost, unopened>>

(* open_codec_context: the statics are assigned on success only, and its   *)
(* return value is ignored.  A context still open is overwritten; one that *)
(* has been allocated and cannot be opened is not freed.                   *)
OpenCodec ==
  /\ pc = "codec" /\ pc' = "check"
  /\ \/ /\ dec' = Opened /\ video_stream' = "live"
        /\ lost' = lost + (IF IsOpen(dec) THEN 1 ELSE 0) /\ UNCHANGED unopened
     \/ UNCHANGED <<dec, video_stream, lost, unopened>>
     \/ /\ lost' = lost + 1 /\ unopened' = unopened + 1
        /\ UNCHANGED <<dec, video_stream>>
  /\ UNCHANGED <<input, video_frame_count, pkt, frames, mv, run, call, reads, skipped>>

(* The test of video_stream, then av_frame_alloc, which may fail.          *)
CheckStream ==
  /\ pc = "check"
  /\ pc' \in IF video_stream = "null" THEN {"end"} ELSE {"alloc", "end"}
  /\ UNCHANGED <<dec, video_stream, input, video_frame_count, pkt, frames, mv,
                 run, call, reads, skipped, lost, unopened>>

(* The second av_frame_alloc: when it fails the call returns on the spot.  *)
(* The size of the picture is then read through pCodecCtx, NULL or not.    *)
AllocRGB ==
  /\ pc = "alloc"
  /\ \/ pc' = "idle" /\ skipped' = skipped \cup {<<run, call>>}
     \/ pc' = (IF IsOpen(dec) THEN "read" ELSE "crashed") /\ UNCHANGED skipped
  /\ UNCHANGED <<dec, video_stream, input, video_frame_count, pkt, frames, mv,
                 run, call, reads, lost, unopened>>

(* av_read_frame: the end of the file (or an error) leads to the flush, a  *)
(* packet of another stream is skipped, one of the video is decoded.       *)
Read ==
  /\ pc = "read"
  /\ \/ pkt' = "null" /\ pc' = "send" /\ UNCHANGED reads
     \/ /\ reads < MaxPackets /\ reads' = reads + 1
        /\ \/ UNCHANGED <<pc, pkt>>
           \/ pkt' \in {"data", "empty"} /\ pc' = "send"
  /\ UNCHANGED <<dec, video_stream, input, video_frame_count, frames, mv,
                 run, call, skipped, lost, unopened>>

(* decode_packet returns: an error leads to the flush, the flush to the    *)
(* end label, everything else to the next packet.                          *)
Return(error) ==
  CASE pkt = "null"           -> pc' = "end" /\ UNCHANGED pkt
    [] pkt # "null" /\ error  -> pc' = "send" /\ pkt' = "null"
    [] pkt # "null" /\ ~error -> pc' = "read" /\ UNCHANGED pkt

Send ==
  /\ pc = "send"
  /\ \E o \in SendPacket(dec, pkt) :
       /\ dec' = o.dec
       /\ IF o.ret = "ok" THEN pc' = "receive" /\ UNCHANGED pkt ELSE Return(TRUE)
  /\ UNCHANGED <<video_stream, input, video_frame_count, frames, mv,
                 run, call, reads, skipped, lost, unopened>>

(* avcodec_receive_frame; a frame advances the counter and is scaled.      *)
Receive ==
  /\ pc = "receive"
  /\ \E o \in ReceiveFrame(dec) :
       /\ dec' = o.dec
       /\ IF o.ret = "ok"
          THEN /\ pc' = "save" /\ video_frame_count' = video_frame_count + 1
               /\ UNCHANGED pkt
          ELSE Return(o.ret = "error") /\ UNCHANGED video_frame_count
  /\ UNCHANGED <<video_stream, input, frames, mv, run, call, reads, skipped, lost, unopened>>

(* SaveFrame opens its file, or returns without a word.                    *)
SaveFrame ==
  /\ pc = "save"
  /\ \/ pc' = "json" /\ UNCHANGED frames
     \/ pc' = "frame" /\ frames' = Put(frames, FALSE)
  /\ UNCHANGED <<dec, video_stream, input, video_frame_count, pkt, mv,
                 run, call, reads, skipped, lost, unopened>>

(* Mutant: the frame is left to be flushed at the exit of the process.     *)
CloseFrameNever ==
  /\ pc = "frame" /\ pc' = "json"
  /\ UNCHANGED <<dec, video_stream, input, video_frame_count, pkt, frames, mv,
                 run, call, reads, skipped, lost, unopened>>

(* SaveFrame has written the pixels and closes its file.                   *)
CloseFrame ==
  /\ pc = "frame" /\ pc' = "json"
  /\ frames' = Put(frames, TRUE)
  /\ UNCHANGED <<dec, video_stream, input, video_frame_count, pkt, mv,
                 run, call, reads, skipped, lost, unopened>>

(* The file of the vectors: exit(1) when it cannot be opened.              *)
OpenJson ==
  /\ pc = "json"
  /\ \/ pc' = "exited" /\ UNCHANGED mv
     \/ pc' = "write" /\ mv' = Put(mv, FALSE)
  /\ UNCHANGED <<dec, video_stream, input, video_frame_count, pkt, frames,
                 run, call, reads, skipped, lost, unopened>>

(* Mutant: the file of the vectors is not closed.                          *)
WriteJsonUnclosed ==
  /\ pc = "write" /\ pc' = "receive"
  /\ UNCHANGED <<dec, video_stream, input, video_frame_count, pkt, frames, mv,
                 run, call, reads, skipped, lost, unopened>>

(* The vectors, the brackets around them, and fclose.                      *)
WriteJson ==
  /\ pc = "write" /\ pc' = "receive"
  /\ mv' = Put(mv, TRUE)
  /\ UNCHANGED <<dec, video_stream, input, video_frame_count, pkt, frames,
                 run, call, reads, skipped, lost, unopened>>

(* Mutant: the codec context is not freed.                                 *)
EndKeepsCodec ==
  /\ pc = "end" /\ pc' = "idle"
  /\ input' = 0
  /\ video_stream' = IF video_stream = "null" THEN "null" ELSE "dangling"
  /\ UNCHANGED <<dec, video_frame_count, pkt, frames, mv,
                 run, call, reads, skipped, lost, unopened>>

(* Mutant: the input is not closed.                                        *)
EndKeepsInput ==
  /\ pc = "end" /\ pc' = "idle"
  /\ dec' = NoCodec
  /\ UNCHANGED <<input, video_stream, video_frame_count, pkt, frames, mv,
                 run, call, reads, skipped, lost, unopened>>

(* The end label: the codec context and the input are closed and their     *)
(* pointers cleared; video_stream keeps pointing into the input.           *)
End ==
  /\ pc = "end" /\ pc' = "idle"
  /\ dec' = NoCodec /\ input' = 0
  /\ video_stream' = IF video_stream = "null" THEN "null" ELSE "dangling"
  /\ UNCHANGED <<video_frame_count, pkt, frames, mv,
                 run, call, reads, skipped, lost, unopened>>

(* A signal ends the process; a file still open stays incomplete.          *)
Kill ==
  /\ pc \in Alive /\ pc' = "killed"
  /\ UNCHANGED <<dec, video_stream, input, video_frame_count, pkt, frames, mv,
                 run, call, reads, skipped, lost, unopened>>

(* A new process: fresh statics, the same directories.                     *)
Restart ==
  /\ pc \in Dead \cup {"idle"} /\ run < MaxRuns
  /\ pc' = "idle" /\ dec' = NoCodec /\ video_stream' = "null" /\ input' = 0
  /\ video_frame_count' = 0 /\ pkt' = "data"
  /\ run' = run + 1 /\ call' = 0 /\ reads' = 0
  /\ lost' = 0 /\ unopened' = 0
  /\ UNCHANGED <<frames, mv, skipped>>

(* The statements of extract_motion_vectors.                               *)
Step == \/ OpenInput \/ OpenCodec \/ CheckStream \/ AllocRGB \/ Read \/ Send
        \/ Receive \/ SaveFrame \/ CloseFrame \/ OpenJson \/ WriteJson \/ End

Next == Call \/ Step \/ Kill \/ Restart

Spec == Init /\ [][Next]_vars

--------------------------------------------------------------------------------
TypeOK ==
  /\ pc \in Alive \cup Dead
  /\ dec \in Codec
  /\ video_stream \in {"null", "live", "dangling"}
  /\ input \in 0 .. call
  /\ video_frame_count \in Nat /\ pkt \in Packets
  /\ DOMAIN frames \subseteq Nat \ {0} /\ DOMAIN mv \subseteq Nat \ {0}
  /\ \A k \in DOMAIN frames : frames[k] \in File
  /\ \A k \in DOMAIN mv : mv[k] \in File
  /\ run \in Nat /\ call \in Nat /\ reads \in Nat
  /\ lost \in Nat /\ unopened \in Nat
  /\ skipped \subseteq Nat \X Nat

(* Frame k and vectors k written by one process are about one picture, and *)
(* the frame is complete before the vectors exist.  A frame without its    *)
(* own vectors is the last one of an interrupted process, or a leftover    *)
(* over which a later process saved only vectors.                          *)
Paired ==
  \A k \in DOMAIN frames :
    LET f == frames[k]
        own == k \in DOMAIN mv /\ mv[k].pic.run = f.pic.run
    IN \/ own /\ mv[k].pic = f.pic /\ f.whole
       \/ ~own /\ f.pic.run = run /\ k = video_frame_count
               /\ pc \in {"frame", "json", "exited", "killed"}
       \/ ~own /\ f.pic.run < run
               /\ \/ k \in DOMAIN mv /\ mv[k].pic.run > f.pic.run
                  \/ \A j \in DOMAIN mv : j > k => mv[j].pic.run # f.pic.run

(* A file that is not complete is being written, or is the last one of its *)
(* process, which was killed: vectors that exist vouch for all lower files.*)
CutOnlyAtTheEnd ==
  \A d \in {frames, mv} : \A k \in DOMAIN d : ~d[k].whole =>
    /\ d[k].pic.run = run => k = video_frame_count /\ pc \in {"frame", "write", "killed"}
    /\ \A j \in DOMAIN d : j > k => d[j].pic.run < d[k].pic.run \/ d[k].pic.run < run

(* A call extracts the video it was given, unless the calls since the one  *)
(* that opened that video all returned without the end label.              *)
OwnVideo ==
  \A k \in DOMAIN mv :
    LET p == mv[k].pic
    IN /\ p.video \in 1 .. p.call
       /\ \A c \in p.video .. p.call - 1 : <<p.run, c>> \in skipped

(* Between calls nothing is open, except after the return that skips the   *)
(* end label; and each codec context the process has lost is either one    *)
(* that could not be opened or is due to one of those returns.             *)
NothingLeftOpen ==
  /\ pc = "idle" /\ <<run, call>> \notin skipped => input = 0 /\ ~IsOpen(dec)
  /\ lost <= Cardinality({s \in skipped : s[1] = run}) + unopened

--------------------------------------------------------------------------------
(* How many files of vectors this process has closed: all up to its        *)
(* counter, or all but the last one.                                       *)
Closed(k) == k \in DOMAIN mv /\ mv[k].pic.run = run /\ mv[k].whole
PublishedCount ==
  IF video_frame_count = 0 \/ Closed(video_frame_count)
  THEN video_frame_count ELSE video_frame_count - 1

(* The closed files of this process, in order.                             *)
Entry(f) == [call |-> f.pic.call, frame |-> f.pic.frame, whole |-> f.whole]
Published == [k \in 1 .. PublishedCount |-> Entry(mv[k])]

Log == INSTANCE FrameLog WITH log <- Published

(* With frames saved in between, frames given up, and calls that skip the  *)
(* end label, the vectors are still the log extract_mvs.c promises: every  *)
(* file closed whole, after all earlier ones, numbered without a gap, a    *)
(* call starting over at its decoder's first frame.                        *)
ImplementsFrameLog == Log!Spec

================================================================================
