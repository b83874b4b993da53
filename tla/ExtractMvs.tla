------------------------------ MODULE ExtractMvs -------------------------------
(***************************************************************************)
(* src/c/extract_mvs.c, the motion vector extractor, as a command (one     *)
(* call of extract_motion_vectors per process) and as the shared library   *)
(* the Python package calls again and again: its static variables survive  *)
(* a call, its output files ./output/mv/<n>.json survive the process.      *)
(***************************************************************************)
EXTENDS Decoder, Sequences

CONSTANTS MaxRuns,      \* bound: processes, one after another
          MaxCalls,     \* bound: calls of extract_motion_vectors per process
          MaxPackets,   \* bound: packets of a video file
          MaxMvs        \* bound: motion vectors of a frame

ASSUME BoundsAssumption ==
  MaxRuns \in Nat /\ MaxCalls \in Nat /\ MaxPackets \in Nat /\ MaxMvs \in Nat

VARIABLES
  pc,                   \* what the process does next
  dec,                  \* *video_dec_ctx, NoCodec when it is NULL
  video_stream,         \* "null", "live", or "dangling" once its file is closed
  video_frame_count,    \* frames written since the process started
  pkt,                  \* the packet decode_packet works on, "null" to flush
  i, n,                 \* loop variable and number of motion vectors of the frame
  mv,                   \* the directory ./output/mv: file number -> file
  run, call, reads,     \* process, call in it, packets read in the call (ghosts)
  base, failed          \* count when the call began, a decoding error in it (ghosts)

vars == <<pc, dec, video_stream, video_frame_count, pkt, i, n, mv,
          run, call, reads, base, failed>>

Dead == {"exited", "crashed", "killed"}     \* exit(1), a fault, a signal
Alive == {"idle", "open", "codec", "check", "read", "send", "receive",
          "write", "end"}

Tokens == {"[", "obj", ",", "]"}

(* A file: whose it is, how many vectors its frame has, its text, and      *)
(* whether fclose has completed it.                                        *)
File == [run : Nat, call : Nat, frame : Nat, n : Nat, text : Seq(Tokens),
         closed : BOOLEAN]

(* The text a JSON parser accepts for an array of m objects.               *)
JsonArray(m) ==
  LET last == IF m = 0 THEN 2 ELSE 2 * m + 1
  IN [j \in 1 .. last |-> IF j = 1 THEN "[" ELSE IF j = last THEN "]"
                          ELSE IF j % 2 = 0 THEN "obj" ELSE ","]

(* fopen(..., "w"): the file under number k, new or replaced.              *)
Put(k, file) == [j \in DOMAIN mv \cup {k} |-> IF j = k THEN file ELSE mv[j]]

Init ==
  /\ pc = "idle" /\ dec = NoCodec /\ video_stream = "null"
  /\ video_frame_count = 0 /\ pkt = "data" /\ i = 0 /\ n = 0
  /\ mv = [k \in {} |-> 0]
  /\ run = 1 /\ call = 0 /\ reads = 0 /\ base = 0 /\ failed = FALSE

(* Mutant: frames are numbered from 1 again in every call.                 *)
CallRenumbers ==
  /\ pc = "idle" /\ call < MaxCalls
  /\ pc' = "open" /\ call' = call + 1
  /\ reads' = 0 /\ video_frame_count' = 0 /\ base' = 0 /\ failed' = FALSE
  /\ UNCHANGED <<dec, video_stream, pkt, i, n, mv, run>>

(* main, or the Python wrapper, calls extract_motion_vectors.              *)
Call ==
  /\ pc = "idle" /\ call < MaxCalls
  /\ pc' = "open" /\ call' = call + 1
  /\ reads' = 0 /\ base' = video_frame_count /\ failed' = FALSE
  /\ UNCHANGED <<dec, video_stream, video_frame_count, pkt, i, n, mv, run>>

(* avformat_open_input and avformat_find_stream_info: exit(1) on failure.  *)
OpenInput ==
  /\ pc = "open"
  /\ pc' \in {"codec", "exited"}
  /\ UNCHANGED <<dec, video_stream, video_frame_count, pkt, i, n, mv,
                 run, call, reads, base, failed>>

(* open_codec_context: the statics are assigned on success only, and its   *)
(* return value is ignored.                                                *)
OpenCodec ==
  /\ pc = "codec"
  /\ \/ dec' = Opened /\ video_stream' = "live"
     \/ UNCHANGED <<dec, video_stream>>
  /\ pc' = "check"
  /\ UNCHANGED <<video_frame_count, pkt, i, n, mv, run, call, reads, base, failed>>

(* The test of video_stream, then av_frame_alloc, which may fail.          *)
CheckStream ==
  /\ pc = "check"
  /\ pc' \in IF video_stream = "null" THEN {"end"} ELSE {"read", "end"}
  /\ UNCHANGED <<dec, video_stream, video_frame_count, pkt, i, n, mv,
                 run, call, reads, base, failed>>

(* Mutant: no flush at the end of the file.                                *)
ReadNoFlush ==
  /\ pc = "read"
  /\ \/ pc' = "end" /\ UNCHANGED <<pkt, reads>>
     \/ /\ reads < MaxPackets /\ reads' = reads + 1
        /\ \/ UNCHANGED <<pc, pkt>>
           \/ pkt' \in {"data", "empty"} /\ pc' = "send"
  /\ UNCHANGED <<dec, video_stream, video_frame_count, i, n, mv,
                 run, call, base, failed>>

(* av_read_frame: the end of the file (or an error) leads to the flush, a  *)
(* packet of another stream is skipped, one of the video is decoded.       *)
Read ==
  /\ pc = "read"
  /\ \/ pkt' = "null" /\ pc' = "send" /\ UNCHANGED reads
     \/ /\ reads < MaxPackets /\ reads' = reads + 1
        /\ \/ UNCHANGED <<pc, pkt>>
           \/ pkt' \in {"data", "empty"} /\ pc' = "send"
  /\ UNCHANGED <<dec, video_stream, video_frame_count, i, n, mv,
                 run, call, base, failed>>

(* decode_packet returns: after an error the loop breaks and the decoder   *)
(* is flushed; after the flush, whatever it returned, the call ends.       *)
Return(error) ==
  /\ failed' = (failed \/ error)
  /\ CASE pkt = "null"           -> pc' = "end" /\ UNCHANGED pkt
       [] pkt # "null" /\ error  -> pc' = "send" /\ pkt' = "null"
       [] pkt # "null" /\ ~error -> pc' = "read" /\ UNCHANGED pkt

(* Mutant: frames are received during the flush only.                      *)
SendDefersReceive ==
  /\ pc = "send"
  /\ \/ /\ ~IsOpen(dec)
        /\ pc' = "crashed" /\ UNCHANGED <<dec, pkt, failed>>
     \/ /\ IsOpen(dec)
        /\ \E o \in SendPacket(dec, pkt) :
             /\ dec' = o.dec
             /\ IF o.ret = "ok" /\ pkt = "null"
                THEN pc' = "receive" /\ UNCHANGED <<pkt, failed>>
                ELSE Return(o.ret # "ok")
  /\ UNCHANGED <<video_stream, video_frame_count, i, n, mv, run, call, reads, base>>

(* avcodec_send_packet; it dereferences a NULL context.                    *)
Send ==
  /\ pc = "send"
  /\ \/ /\ ~IsOpen(dec)
        /\ pc' = "crashed" /\ UNCHANGED <<dec, pkt, failed>>
     \/ /\ IsOpen(dec)
        /\ \E o \in SendPacket(dec, pkt) :
             /\ dec' = o.dec
             /\ IF o.ret = "ok" THEN pc' = "receive" /\ UNCHANGED <<pkt, failed>>
                                ELSE Return(TRUE)
  /\ UNCHANGED <<video_stream, video_frame_count, i, n, mv, run, call, reads, base>>

(* The file of the frame just received, as fopen and "[" leave it.         *)
NewFile(mvs) ==
  [run |-> run, call |-> call, frame |-> dec'.frame_number, n |-> mvs,
   text |-> <<"[">>, closed |-> FALSE]

(* The open file with another text: fprintf, fclose.                       *)
Rewrite(text, closed) ==
  LET f == mv[video_frame_count]
  IN Put(video_frame_count,
         [run |-> f.run, call |-> f.call, frame |-> f.frame, n |-> f.n,
          text |-> text, closed |-> closed])
Text == mv[video_frame_count].text

(* Mutant: the number is taken before the counter is incremented.          *)
OpenJsonBeforeCount ==
  /\ video_frame_count' = video_frame_count + 1
  /\ \/ pc' = "exited" /\ UNCHANGED <<i, n, mv>>
     \/ /\ pc' = "write" /\ i' = 0
        /\ \E mvs \in 0 .. MaxMvs :
             n' = mvs /\ mv' = Put(video_frame_count, NewFile(mvs))

(* A received frame: the next number, a file of that number (exit(1) when  *)
(* it cannot be opened), and the vectors of its side data, if any.         *)
OpenJson ==
  /\ video_frame_count' = video_frame_count + 1
  /\ \/ pc' = "exited" /\ UNCHANGED <<i, n, mv>>
     \/ /\ pc' = "write" /\ i' = 0
        /\ \E mvs \in 0 .. MaxMvs :
             n' = mvs /\ mv' = Put(video_frame_count + 1, NewFile(mvs))

(* Mutant: the end of the stream does not leave the loop.                  *)
ReceiveIgnoresEof ==
  /\ pc = "receive"
  /\ \E o \in ReceiveFrame(dec) :
       /\ dec' = o.dec
       /\ CASE o.ret = "ok" -> OpenJson /\ UNCHANGED <<pkt, failed>>
            [] o.ret = "eof" -> UNCHANGED <<pc, pkt, failed, video_frame_count, i, n, mv>>
            [] o.ret \in {"eagain", "error"} ->
                 Return(o.ret = "error") /\ UNCHANGED <<video_frame_count, i, n, mv>>
  /\ UNCHANGED <<video_stream, run, call, reads, base>>

(* avcodec_receive_frame, once per turn of the loop of decode_packet.      *)
Receive ==
  /\ pc = "receive"
  /\ \E o \in ReceiveFrame(dec) :
       /\ dec' = o.dec
       /\ IF o.ret = "ok"
          THEN OpenJson /\ UNCHANGED <<pkt, failed>>
          ELSE Return(o.ret = "error") /\ UNCHANGED <<video_frame_count, i, n, mv>>
  /\ UNCHANGED <<video_stream, run, call, reads, base>>

(* Mutant: the comma after every vector.                                   *)
VectorTextComma == <<"obj", ",">>

(* A vector and, unless it is the last one, a comma.                       *)
VectorText == IF i = n - 1 THEN <<"obj">> ELSE <<"obj", ",">>

WriteVector ==
  /\ pc = "write" /\ i < n
  /\ mv' = Rewrite(Text \o VectorText, FALSE)
  /\ i' = i + 1
  /\ UNCHANGED <<pc, dec, video_stream, video_frame_count, pkt, n,
                 run, call, reads, base, failed>>

(* Mutant: the closing bracket is written with the vectors only.           *)
CloseJsonNoBracket ==
  /\ pc = "write" /\ i = n
  /\ mv' = Rewrite(IF n = 0 THEN Text ELSE Append(Text, "]"), TRUE)
  /\ pc' = "receive"
  /\ UNCHANGED <<dec, video_stream, video_frame_count, pkt, i, n,
                 run, call, reads, base, failed>>

(* "]", fclose and av_frame_unref.                                         *)
CloseJson ==
  /\ pc = "write" /\ i = n
  /\ mv' = Rewrite(Append(Text, "]"), TRUE)
  /\ pc' = "receive"
  /\ UNCHANGED <<dec, video_stream, video_frame_count, pkt, i, n,
                 run, call, reads, base, failed>>

(* The end label: the codec context is freed and its pointer cleared, the  *)
(* file is closed; video_stream keeps pointing into it.                    *)
End ==
  /\ pc = "end"
  /\ dec' = NoCodec
  /\ video_stream' = IF video_stream = "null" THEN "null" ELSE "dangling"
  /\ pc' = "idle"
  /\ UNCHANGED <<video_frame_count, pkt, i, n, mv, run, call, reads, base, failed>>

(* A signal ends the process.  Of an open file, the part that was flushed  *)
(* from the stdio buffer remains.                                          *)
Kill ==
  /\ pc \in Alive
  /\ pc' = "killed"
  /\ IF pc = "write"
     THEN \E len \in 0 .. Len(Text) : mv' = Rewrite(SubSeq(Text, 1, len), FALSE)
     ELSE UNCHANGED mv
  /\ UNCHANGED <<dec, video_stream, video_frame_count, pkt, i, n,
                 run, call, reads, base, failed>>

(* A new process: fresh statics, the same directory.                       *)
Restart ==
  /\ pc \in Dead \cup {"idle"} /\ run < MaxRuns
  /\ pc' = "idle" /\ dec' = NoCodec /\ video_stream' = "null"
  /\ video_frame_count' = 0 /\ pkt' = "data" /\ i' = 0 /\ n' = 0
  /\ run' = run + 1 /\ call' = 0 /\ reads' = 0 /\ base' = 0 /\ failed' = FALSE
  /\ UNCHANGED mv

(* The statements of extract_motion_vectors.                               *)
Step == \/ OpenInput \/ OpenCodec \/ CheckStream \/ Read \/ Send \/ Receive
        \/ WriteVector \/ CloseJson \/ End

Next == Call \/ Step \/ Kill \/ Restart

Spec == Init /\ [][Next]_vars

(* A process that is not killed keeps executing its program.               *)
FairSpec == Spec /\ WF_vars(Step)

--------------------------------------------------------------------------------
TypeOK ==
  /\ pc \in Alive \cup Dead
  /\ dec \in Codec
  /\ video_stream \in {"null", "live", "dangling"}
  /\ video_frame_count \in Nat /\ pkt \in Packets
  /\ i \in Nat /\ n \in 0 .. MaxMvs
  /\ mv = [k \in DOMAIN mv |-> mv[k]]
  /\ DOMAIN mv \subseteq Nat \ {0}
  /\ \A k \in DOMAIN mv : mv[k] \in File
  /\ run \in Nat /\ call \in Nat /\ reads \in Nat /\ base \in Nat
  /\ failed \in BOOLEAN

(* The static counter and the directory agree: the files of this process   *)
(* are exactly 1 to video_frame_count (the last one may be missing after   *)
(* fopen failed), and the files above are left over from earlier ones.     *)
OwnFiles ==
  /\ \A k \in DOMAIN mv : mv[k].run = run => k <= video_frame_count
  /\ \A k \in 1 .. video_frame_count :
       \/ k = video_frame_count /\ pc = "exited"
       \/ k \in DOMAIN mv /\ mv[k].run = run

(* Neighbours in the directory: the higher number is from an older         *)
(* process, or the very next frame, or the first frame of a later video.   *)
InOrder ==
  \A k \in DOMAIN mv : k + 1 \in DOMAIN mv =>
    LET f == mv[k]
        g == mv[k + 1]
    IN \/ g.run < f.run
       \/ g.run = f.run /\ g.call = f.call /\ g.frame = f.frame + 1
       \/ g.run = f.run /\ g.call > f.call /\ g.frame = 1

(* A file that is not a JSON array is being written right now, or is the   *)
(* last one of a process that was killed.                                  *)
TornOnlyWhereInterrupted ==
  \A k \in DOMAIN mv :
    \/ mv[k].text = JsonArray(mv[k].n)
    \/ mv[k].run = run /\ k = video_frame_count /\ pc \in {"write", "killed"}
    \/ mv[k].run < run /\ (k + 1 \in DOMAIN mv => mv[k + 1].run < mv[k].run)

(* A call that reaches its end without a decoding error has a file for     *)
(* every picture the codec decoded, the held back ones included.           *)
EveryPictureWritten ==
  pc = "end" /\ IsOpen(dec) /\ ~failed => video_frame_count - base = dec.taken

(* The extractor drains the codec before it sends: no packet is refused or *)
(* queued, so none is lost when the end of the stream overtakes it.        *)
SentOnlyWhenDrained ==
  pc = "send" /\ IsOpen(dec) => dec.input = "none" /\ ~dec.out

(* extract_mvs.c:244 "Could not find video stream in the input, aborting": *)
(* a call that found no video stream, and so opened no codec, aborts; it   *)
(* does not go on to decode through the NULL context.                      *)
AbortsWithoutVideoStream == pc \in {"read", "send"} => IsOpen(dec)

(* A call on a finite input returns, or its process ends.                  *)
CallReturns == pc = "open" ~> pc \in Dead \cup {"idle"}

(* How many files this process has closed: all up to its counter, or all   *)
(* but the last one.                                                       *)
Closed(k) == k \in DOMAIN mv /\ mv[k].run = run /\ mv[k].closed
PublishedCount ==
  IF video_frame_count = 0 \/ Closed(video_frame_count)
  THEN video_frame_count ELSE video_frame_count - 1

(* The closed files of this process, in order.                             *)
Entry(f) == [call |-> f.call, frame |-> f.frame, whole |-> f.text = JsonArray(f.n)]
Published == [k \in 1 .. PublishedCount |-> Entry(mv[k])]

Log == INSTANCE FrameLog WITH log <- Published

(* The extractor implements the log of frames a reader may rely on.        *)
ImplementsFrameLog == Log!Spec

================================================================================
