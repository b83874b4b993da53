---------------------------- MODULE Overlay_proofs -----------------------------
(***************************************************************************)
(* Theorems about the extractor of vectors and frames, and about the       *)
(* overlay that reads its two directories while it writes them, for every  *)
(* reorder delay and every bound on processes, calls and packets: the      *)
(* pairing of the files, what a return in the middle of a call leaves,     *)
(* and what an overlay shows.                                              *)
(***************************************************************************)
EXTENDS Overlay, DecoderLemmas, FiniteSetTheorems, Sequences

(* The codec context, open or not, keeps its books.                        *)
Books == IsOpen(dec) => Consistent(dec)

(* Whose vectors a number has.  The process has written all numbers below  *)
(* its counter, and not yet that of a picture it is working on.            *)
Vectors ==
  \A k \in DOMAIN mv :
    /\ mv[k].pic.run <= run
    /\ mv[k].pic.run = run => k <= video_frame_count
    /\ mv[k].pic.run = run /\ k = video_frame_count => pc \notin {"save", "frame", "json"}
    /\ mv[k].pic.run = run /\ ~mv[k].whole => k = video_frame_count /\ pc \in {"write", "killed"}

Counted ==
  \A k \in 1 .. video_frame_count :
    \/ k \in DOMAIN mv /\ mv[k].pic.run = run
    \/ k = video_frame_count /\ pc \in {"save", "frame", "json", "exited", "killed"}

(* Whose frame a number has.                                               *)
Frames ==
  \A k \in DOMAIN frames :
    /\ frames[k].pic.run <= run
    /\ frames[k].pic.run = run => k <= video_frame_count
    /\ frames[k].pic.run = run /\ k = video_frame_count => pc # "save"
    /\ frames[k].pic.run = run /\ ~frames[k].whole =>
         k = video_frame_count /\ pc \in {"frame", "killed"}

(* The files being written are about the picture being worked on.          *)
AtHand ==
  /\ pc \in {"save", "frame", "json", "write"} => video_frame_count > 0
  /\ pc = "frame" =>
       video_frame_count \in DOMAIN frames /\ frames[video_frame_count].pic = ThisPicture
  /\ pc = "json" /\ video_frame_count \in DOMAIN frames =>
       \/ frames[video_frame_count].pic = ThisPicture /\ frames[video_frame_count].whole
       \/ frames[video_frame_count].pic.run < run
  /\ pc = "write" =>
       video_frame_count \in DOMAIN mv /\ mv[video_frame_count].pic = ThisPicture

(* The input: opened in this call, or left by calls that skipped the end.  *)
Video ==
  /\ pc \in Alive \ {"idle", "open"} => input > 0
  /\ input > 0 => \A c \in input .. call - 1 : <<run, c>> \in skipped
  /\ pc = "idle" /\ input > 0 => <<run, call>> \in skipped
  /\ pc = "open" => call > 0

Skipped(r) == {s \in skipped : s[1] = r}

(* An open context that the call will overwrite.                           *)
Stale == IF IsOpen(dec) /\ pc \in {"idle", "open", "codec"} THEN 1 ELSE 0

(* The codec contexts: each one lost was left by a call that skipped, or   *)
(* could not be opened.                                                    *)
Contexts ==
  /\ IsFiniteSet(skipped)
  /\ \A s \in skipped : s[1] <= run /\ (s[1] = run => s[2] <= call)
  /\ pc \in Alive \ {"idle"} => <<run, call>> \notin skipped
  /\ pc = "idle" /\ IsOpen(dec) => <<run, call>> \in skipped
  /\ lost + Stale <= Cardinality(Skipped(run)) + unopened

Files == Vectors /\ Counted /\ Frames /\ Paired

IInv == TypeOK /\ Books /\ Files /\ AtHand /\ OwnVideo /\ Video /\ Contexts

--------------------------------------------------------------------------------
LEMMA ThisPictureType ==
  ASSUME TypeOK
  PROVE  /\ ThisPicture \in Picture
         /\ ThisPicture.run = run /\ ThisPicture.call = call /\ ThisPicture.video = input
<1>1. dec.frame_number \in Nat /\ input \in Nat
  BY DEF TypeOK, Codec
<1>. QED BY <1>1 DEF ThisPicture, Picture, TypeOK

(* The two calls of the decoding interface, on any context.                *)
LEMMA SendKeeps ==
  ASSUME TypeOK, Books, NEW o \in SendPacket(dec, pkt)
  PROVE  o.dec \in Codec /\ (IsOpen(o.dec) => Consistent(o.dec)) /\ (IsOpen(o.dec) <=> IsOpen(dec))
<1>1. CASE IsOpen(dec)
  BY <1>1, SendPacketOutcome DEF Books, Consistent, TypeOK
<1>2. CASE ~IsOpen(dec)
  <2>1. o.dec = dec
    BY <1>2 DEF SendPacket, Refusal, IsOpen, Outcome
  <2>. QED BY <1>2, <2>1 DEF TypeOK
<1>. QED BY <1>1, <1>2

LEMMA ReceiveKeeps ==
  ASSUME TypeOK, Books, NEW o \in ReceiveFrame(dec)
  PROVE  o.dec \in Codec /\ (IsOpen(o.dec) => Consistent(o.dec)) /\ (IsOpen(o.dec) <=> IsOpen(dec))
<1>1. CASE IsOpen(dec)
  BY <1>1, ReceiveFrameOutcome DEF Books, Consistent, TypeOK
<1>2. CASE ~IsOpen(dec)
  <2>1. o.dec = dec
    BY <1>2 DEF ReceiveFrame, Outcome
  <2>. QED BY <1>2, <2>1 DEF TypeOK
<1>. QED BY <1>1, <1>2

(* Away from the files, a step that leaves them alone keeps what is said   *)
(* of them.                                                                *)
LEMMA FilesKept ==
  ASSUME Files, UNCHANGED <<frames, mv, video_frame_count, run>>,
         pc \notin {"save", "frame", "json", "write", "exited", "killed"},
         pc' \notin {"save", "frame", "json"}
  PROVE  Files'
<1>1. Vectors'
  BY DEF Files, Vectors
<1>2. Counted'
  BY DEF Files, Counted
<1>3. Frames'
  BY DEF Files, Frames
<1>4. Paired'
  BY DEF Files, Paired
<1>. QED BY <1>1, <1>2, <1>3, <1>4 DEF Files

LEMMA OwnVideoKept ==
  ASSUME OwnVideo, UNCHANGED mv, skipped \subseteq skipped'
  PROVE  OwnVideo'
  BY DEF OwnVideo

LEMMA SkippedCount ==
  ASSUME IsFiniteSet(skipped), NEW r
  PROVE  IsFiniteSet(Skipped(r)) /\ Cardinality(Skipped(r)) \in Nat
<1>1. IsFiniteSet(Skipped(r))
  BY FS_Subset DEF Skipped
<1>. QED BY <1>1, FS_CardinalityType

LEMMA SumBound ==
  ASSUME NEW a \in Nat, NEW b \in {0, 1}, NEW d \in Nat, NEW e \in {0, 1}, NEW n \in Nat,
         NEW u \in Nat, NEW v \in Nat, a + b + u <= d + e + v, d + e <= n + u
  PROVE  a + b <= n + v
  OBVIOUS

LEMMA SumFalls ==
  ASSUME NEW a \in Nat, NEW b \in {0, 1}, NEW d \in {0, 1}, NEW u \in Nat, b <= d
  PROVE  a + b + u <= a + d + u
  OBVIOUS

(* A step that loses no context but those it cannot open.                  *)
LEMMA ContextsKept ==
  ASSUME Contexts, TypeOK, UNCHANGED <<skipped, run, call>>,
         lost' \in Nat, unopened' \in Nat,
         lost' + Stale' + unopened <= lost + Stale + unopened',
         pc' \in Alive \ {"idle"} => pc \in Alive \ {"idle"},
         pc' = "idle" => ~IsOpen(dec')
  PROVE  Contexts'
<1>1. Skipped(run)' = Skipped(run)
  BY DEF Skipped
<1> DEFINE c == Cardinality(Skipped(run))
<1>2. c \in Nat /\ c' = c
  BY <1>1, SkippedCount DEF Contexts
<1>3. lost + Stale <= c + unopened
  BY DEF Contexts
<1> HIDE DEF c
<1>4. Stale \in {0, 1} /\ Stale' \in {0, 1}
  BY DEF Stale
<1>5. lost \in Nat /\ unopened \in Nat
  BY DEF TypeOK
<1>6. lost' + Stale' <= c + unopened'
  BY <1>2, <1>3, <1>4, <1>5, SumBound
<1>7. lost' + Stale' <= c' + unopened'
  BY <1>2, <1>6
<1>. QED BY <1>7 DEF Contexts, c

LEMMA InitInv == Init => IInv
<1> SUFFICES ASSUME Init PROVE IInv
  OBVIOUS
<1> USE DEF Init
<1>1. frames = <<>> /\ mv = <<>> /\ DOMAIN frames = {} /\ DOMAIN mv = {}
  OBVIOUS
<1>2. ~IsOpen(dec) /\ dec \in Codec
  BY OpenedConsistent DEF NoCodec, Context, IsOpen
<1>3. TypeOK
  BY <1>1, <1>2 DEF TypeOK, Alive, Packets
<1>4. Files
  BY <1>1 DEF Files, Vectors, Counted, Frames, Paired
<1>5. Contexts
  <2>1. IsFiniteSet(skipped) /\ Skipped(run) = {} /\ Cardinality({}) = 0
    BY FS_EmptySet DEF Skipped
  <2>2. lost + Stale = 0
    BY <1>2 DEF Stale
  <2>3. Cardinality(Skipped(run)) = 0
    BY <2>1
  <2>4. lost + Stale <= Cardinality(Skipped(run)) + unopened
    BY <2>2, <2>3
  <2>. QED BY <1>2, <2>1, <2>4 DEF Contexts
<1>6. Books /\ AtHand /\ OwnVideo /\ Video
  BY <1>1, <1>2 DEF Books, AtHand, OwnVideo, Video
<1>. QED BY <1>3, <1>4, <1>5, <1>6 DEF IInv

LEMMA CallInv == IInv /\ Call => IInv'
<1> SUFFICES ASSUME IInv, Call PROVE IInv'
  OBVIOUS
<1> USE DEF IInv, Call
<1>1. TypeOK'
  BY DEF TypeOK, Alive
<1>2. Files'
  BY FilesKept
<1>3. Books' /\ AtHand'
  BY DEF Books, AtHand
<1>4. OwnVideo'
  BY OwnVideoKept
<1>5. call \in Nat /\ input \in 0 .. call
  BY DEF TypeOK
<1>6. Video'
  BY <1>5 DEF Video, TypeOK, Alive
<1>7. Contexts'
  <2>1. \A x \in skipped : x[1] = run => x[2] <= call
    BY DEF Contexts
  <2>2. <<run, call'>> \notin skipped
    <3>1. SUFFICES ASSUME <<run, call'>> \in skipped PROVE FALSE
      OBVIOUS
    <3>2. <<run, call'>>[1] = run /\ <<run, call'>>[2] = call + 1
      OBVIOUS
    <3>. QED BY <1>5, <2>1, <3>1, <3>2
  <2>3. Skipped(run') = Skipped(run) /\ Stale' = Stale
    BY DEF Skipped, Stale
  <2>4. \A x \in skipped : x[1] = run => x[2] <= call'
    <3>. SUFFICES ASSUME NEW x \in skipped, x[1] = run PROVE x[2] <= call'
      OBVIOUS
    <3>1. x[2] \in Nat
      BY DEF TypeOK
    <3>. QED BY <1>5, <2>1, <3>1
  <2>5. Skipped(run)' = Skipped(run)
    BY DEF Skipped
  <2>. QED BY <2>2, <2>3, <2>4, <2>5 DEF Contexts, Alive
<1>. QED BY <1>1, <1>2, <1>3, <1>4, <1>6, <1>7

LEMMA OpenInputInv == IInv /\ OpenInput => IInv'
<1> SUFFICES ASSUME IInv, OpenInput PROVE IInv'
  OBVIOUS
<1> USE DEF IInv, OpenInput
<1>1. TypeOK'
  BY DEF TypeOK, Alive, Dead
<1>2. Files'
  BY FilesKept
<1>3. Books' /\ AtHand'
  BY DEF Books, AtHand
<1>4. OwnVideo'
  BY OwnVideoKept
<1>5. Video'
  BY DEF Video, Alive, TypeOK
<1>6. Contexts'
  <2>1. Stale \in {0, 1} /\ Stale' \in {0, 1} /\ Stale' <= Stale
    BY DEF Stale
  <2>2. UNCHANGED <<lost, unopened>> /\ lost \in Nat /\ unopened \in Nat
    BY DEF TypeOK
  <2>3. lost' + Stale' + unopened <= lost + Stale + unopened'
    BY <2>1, <2>2, SumFalls
  <2>. QED BY <2>2, <2>3, ContextsKept DEF Alive
<1>. QED BY <1>1, <1>2, <1>3, <1>4, <1>5, <1>6

LEMMA OpenCodecInv == IInv /\ OpenCodec => IInv'
<1> SUFFICES ASSUME IInv, OpenCodec PROVE IInv'
  OBVIOUS
<1> USE DEF IInv, OpenCodec
<1>1. lost' \in Nat /\ unopened' \in Nat /\ dec' \in Codec
  BY OpenedConsistent DEF TypeOK, Consistent
<1>2. TypeOK'
  BY <1>1 DEF TypeOK, Alive
<1>3. Files'
  BY FilesKept
<1>4. Books' /\ AtHand'
  BY OpenedConsistent DEF Books, AtHand
<1>5. OwnVideo'
  BY OwnVideoKept
<1>6. Video'
  BY DEF Video, Alive
<1>7. Contexts'
  <2>1. Stale' = 0 /\ Stale \in {0, 1} /\ (IsOpen(dec) => Stale = 1)
    BY DEF Stale
  <2>2. lost' + Stale' + unopened <= lost + Stale + unopened'
    BY <2>1 DEF TypeOK
  <2>. QED BY <1>1, <2>2, ContextsKept DEF Alive
<1>. QED BY <1>2, <1>3, <1>4, <1>5, <1>6, <1>7

LEMMA CheckStreamInv == IInv /\ CheckStream => IInv'
<1> SUFFICES ASSUME IInv, CheckStream PROVE IInv'
  OBVIOUS
<1> USE DEF IInv, CheckStream
<1>1. TypeOK'
  BY DEF TypeOK, Alive
<1>2. Files'
  BY FilesKept
<1>3. Books' /\ AtHand'
  BY DEF Books, AtHand
<1>4. OwnVideo'
  BY OwnVideoKept
<1>5. Video'
  BY DEF Video, Alive
<1>6. Contexts'
  <2>1. Stale' = 0 /\ Stale = 0
    BY DEF Stale
  <2>2. /\ lost' + Stale' + unopened <= lost + Stale + unopened'
        /\ lost' \in Nat /\ unopened' \in Nat
    BY <2>1 DEF TypeOK
  <2>. QED BY <2>2, ContextsKept DEF Alive
<1>. QED BY <1>1, <1>2, <1>3, <1>4, <1>5, <1>6

LEMMA ReadInv == IInv /\ Read => IInv'
<1> SUFFICES ASSUME IInv, Read PROVE IInv'
  OBVIOUS
<1> USE DEF IInv, Read
<1>1. TypeOK'
  BY DEF TypeOK, Alive, Packets
<1>2. pc' \in {"read", "send"}
  OBVIOUS
<1>3. Files'
  BY <1>2, FilesKept
<1>4. Books' /\ AtHand'
  BY <1>2 DEF Books, AtHand
<1>5. OwnVideo'
  BY OwnVideoKept
<1>6. Video'
  BY <1>2 DEF Video, Alive
<1>7. Contexts'
  <2>1. Stale' = 0 /\ Stale = 0
    BY <1>2 DEF Stale
  <2>2. /\ lost' + Stale' + unopened <= lost + Stale + unopened'
        /\ lost' \in Nat /\ unopened' \in Nat
    BY <2>1 DEF TypeOK
  <2>. QED BY <1>2, <2>2, ContextsKept DEF Alive
<1>. QED BY <1>1, <1>3, <1>4, <1>5, <1>6, <1>7

LEMMA SendInv == IInv /\ Send => IInv'
<1> SUFFICES ASSUME IInv, Send PROVE IInv'
  OBVIOUS
<1> USE DEF IInv, Send
<1>1. PICK o \in SendPacket(dec, pkt) :
        /\ dec' = o.dec
        /\ IF o.ret = "ok" THEN pc' = "receive" /\ UNCHANGED pkt ELSE Return(TRUE)
  OBVIOUS
<1>2. dec' \in Codec /\ (IsOpen(dec') => Consistent(dec'))
  BY <1>1, SendKeeps
<1>3. pc' \in {"receive", "end", "send", "read"} /\ pkt' \in Packets
  BY <1>1 DEF Return, TypeOK, Packets
<1>4. TypeOK'
  BY <1>2, <1>3 DEF TypeOK, Alive
<1>5. Files'
  BY <1>3, FilesKept
<1>6. Books' /\ AtHand'
  BY <1>2, <1>3 DEF Books, AtHand
<1>7. OwnVideo'
  BY OwnVideoKept
<1>8. Video'
  BY <1>3 DEF Video, Alive
<1>9. Contexts'
  <2>1. Stale' = 0 /\ Stale = 0
    BY <1>3 DEF Stale
  <2>2. /\ lost' + Stale' + unopened <= lost + Stale + unopened'
        /\ lost' \in Nat /\ unopened' \in Nat
    BY <2>1 DEF TypeOK
  <2>. QED BY <1>3, <2>2, ContextsKept DEF Alive
<1>. QED BY <1>4, <1>5, <1>6, <1>7, <1>8, <1>9

(* The return in the middle: the call joins those that skipped the end,    *)
(* which makes room for the context it leaves.                             *)
LEMMA AllocRGBInv == IInv /\ AllocRGB => IInv'
<1> SUFFICES ASSUME IInv, AllocRGB PROVE IInv'
  OBVIOUS
<1> USE DEF IInv, AllocRGB
<1>1. /\ pc' \in {"idle", "read", "crashed"} /\ skipped \subseteq skipped'
      /\ skipped' \subseteq Nat \X Nat
  BY DEF TypeOK
<1>2. TypeOK'
  BY <1>1 DEF TypeOK, Alive, Dead
<1>3. Files'
  BY <1>1, FilesKept
<1>4. Books' /\ AtHand'
  BY <1>1 DEF Books, AtHand
<1>5. OwnVideo'
  BY <1>1, OwnVideoKept
<1>6. Video'
  BY <1>1 DEF Video, Alive
<1>7. Contexts'
  <2>1. CASE pc' # "idle"
    <3>1. Stale' = 0 /\ Stale = 0
      BY <1>1, <2>1 DEF Stale
    <3>2. /\ lost' + Stale' + unopened <= lost + Stale + unopened'
          /\ lost' \in Nat /\ unopened' \in Nat
      BY <3>1 DEF TypeOK
    <3>. QED BY <1>1, <2>1, <3>2, ContextsKept DEF Alive
  <2>2. CASE pc' = "idle"
    <3> DEFINE me == <<run, call>>
    <3>1. skipped' = skipped \cup {me} /\ me \notin skipped /\ me[1] = run /\ me[2] = call
      BY <2>2 DEF Contexts, Alive
    <3> HIDE DEF me
    <3>2. Skipped(run)' = Skipped(run) \cup {me} /\ me \notin Skipped(run)
      BY <3>1 DEF Skipped
    <3>3. IsFiniteSet(skipped) /\ IsFiniteSet(skipped')
      BY <3>1, FS_AddElement DEF Contexts
    <3>4. IsFiniteSet(Skipped(run)) /\ Cardinality(Skipped(run)) \in Nat
      BY <3>3, SkippedCount
    <3>5. Cardinality(Skipped(run) \cup {me}) = Cardinality(Skipped(run)) + 1
      BY <3>2, <3>4, FS_AddElement
    <3>6. Cardinality(Skipped(run)') = Cardinality(Skipped(run)) + 1
      BY <3>2, <3>5
    <3>7. /\ Stale = 0 /\ Stale' \in {0, 1}
          /\ UNCHANGED <<lost, unopened>> /\ lost \in Nat /\ unopened \in Nat
      BY DEF Stale, TypeOK
    <3>8. lost + Stale <= Cardinality(Skipped(run)) + unopened
      BY DEF Contexts
    <3>9. lost' + Stale' <= Cardinality(Skipped(run)) + 1 + unopened'
      BY <3>4, <3>7, <3>8
    <3>10. lost' + Stale' <= Cardinality(Skipped(run)') + unopened'
      BY <3>6, <3>9
    <3>11. \A s \in skipped' : s[1] <= run /\ (s[1] = run => s[2] <= call)
      BY <3>1 DEF Contexts, TypeOK
    <3>12. me \in skipped'
      BY <3>1
    <3>. QED BY <2>2, <3>3, <3>10, <3>11, <3>12 DEF Contexts, me
  <2>. QED BY <2>1, <2>2
<1>. QED BY <1>2, <1>3, <1>4, <1>5, <1>6, <1>7

(* The steps from a received frame on stay away from the input, and from   *)
(* what is said of contexts.                                               *)
LEMMA DecodingKeeps ==
  ASSUME IInv, pc \in {"receive", "save", "frame", "json", "write", "read", "send"},
         pc' \in (Alive \ {"idle", "open", "codec"}) \cup Dead,
         UNCHANGED <<input, run, call, skipped, lost, unopened>>
  PROVE  Video' /\ Contexts'
<1> USE DEF IInv
<1>1. Video'
  BY DEF Video, Alive, Dead
<1>2. Stale' = 0 /\ Stale = 0
  BY DEF Stale, Alive, Dead
<1>3. /\ lost' + Stale' + unopened <= lost + Stale + unopened'
      /\ lost' \in Nat /\ unopened' \in Nat
  BY <1>2 DEF TypeOK
<1>4. Contexts'
  BY <1>3, ContextsKept DEF Alive, Dead
<1>. QED BY <1>1, <1>4

LEMMA ReceiveInv == IInv /\ Receive => IInv'
<1> SUFFICES ASSUME IInv, Receive PROVE IInv'
  OBVIOUS
<1> USE DEF IInv
<1>1. PICK o \in ReceiveFrame(dec) :
        /\ dec' = o.dec
        /\ IF o.ret = "ok"
           THEN /\ pc' = "save" /\ video_frame_count' = video_frame_count + 1
                /\ UNCHANGED pkt
           ELSE Return(o.ret = "error") /\ UNCHANGED video_frame_count
  BY DEF Receive
<1>2. /\ pc = "receive"
      /\ UNCHANGED <<video_stream, input, frames, mv, run, call, reads, skipped, lost, unopened>>
  BY DEF Receive
<1>3. dec' \in Codec /\ (IsOpen(dec') => Consistent(dec'))
  BY <1>1, ReceiveKeeps
<1>4. Books' /\ OwnVideo'
  BY <1>2, <1>3, OwnVideoKept DEF Books
<1>5. CASE o.ret # "ok"
  <2>1. /\ pc' \in {"end", "send", "read"} /\ pkt' \in Packets
        /\ UNCHANGED video_frame_count
    BY <1>1, <1>5 DEF Return, TypeOK, Packets
  <2>2. TypeOK'
    BY <1>2, <1>3, <2>1 DEF TypeOK, Alive
  <2>3. Files'
    BY <1>2, <2>1, FilesKept
  <2>4. AtHand'
    BY <2>1 DEF AtHand
  <2>5. Video' /\ Contexts'
    BY <1>2, <2>1, DecodingKeeps DEF Alive
  <2>. QED BY <1>4, <2>2, <2>3, <2>4, <2>5
<1>6. CASE o.ret = "ok"
  <2>1. /\ pc' = "save" /\ UNCHANGED pkt
        /\ video_frame_count' = video_frame_count + 1
    BY <1>1, <1>6
  <2>2. TypeOK'
    BY <1>2, <1>3, <2>1 DEF TypeOK, Alive
  <2>3. video_frame_count \in Nat /\ DOMAIN mv \subseteq Nat /\ DOMAIN frames \subseteq Nat
    BY DEF TypeOK
  <2>4. Vectors'
    BY <1>2, <2>1, <2>3 DEF Files, Vectors
  <2>5. Counted'
    BY <1>2, <2>1, <2>3 DEF Files, Counted
  <2>6. Frames'
    BY <1>2, <2>1, <2>3 DEF Files, Frames
  <2>7. Paired'
    BY <1>2, <2>1, <2>3 DEF Files, Paired
  <2>8. AtHand'
    BY <2>1, <2>3 DEF AtHand
  <2>9. Video' /\ Contexts'
    BY <1>2, <2>1, DecodingKeeps DEF Alive
  <2>. QED BY <1>4, <2>2, <2>4, <2>5, <2>6, <2>7, <2>8, <2>9 DEF Files
<1>. QED BY <1>5, <1>6

LEMMA EndInv == IInv /\ End => IInv'
<1> SUFFICES ASSUME IInv, End PROVE IInv'
  OBVIOUS
<1> USE DEF IInv, End
<1>1. ~IsOpen(dec') /\ dec' \in Codec
  BY OpenedConsistent DEF NoCodec, IsOpen, Context
<1>2. TypeOK'
  BY <1>1 DEF TypeOK, Alive
<1>3. Files'
  BY FilesKept
<1>4. Books' /\ AtHand'
  BY <1>1 DEF Books, AtHand
<1>5. OwnVideo'
  BY OwnVideoKept
<1>6. Video'
  BY DEF Video, Alive
<1>7. Contexts'
  <2>1. Stale' = 0 /\ Stale = 0
    BY <1>1 DEF Stale
  <2>2. /\ lost' + Stale' + unopened <= lost + Stale + unopened'
        /\ lost' \in Nat /\ unopened' \in Nat
    BY <2>1 DEF TypeOK
  <2>. QED BY <1>1, <2>2, ContextsKept DEF Alive
<1>. QED BY <1>2, <1>3, <1>4, <1>5, <1>6, <1>7

(* A frame file is opened, or rewritten by its close.                      *)
LEMMA FramePut ==
  ASSUME IInv, NEW whole \in BOOLEAN, frames' = Put(frames, whole), pc \in {"save", "frame"},
         pc' = IF whole THEN "json" ELSE "frame",
         UNCHANGED <<dec, video_stream, input, video_frame_count, pkt, mv,
                     run, call, reads, skipped, lost, unopened>>
  PROVE  IInv'
<1> USE DEF IInv
<1> DEFINE k == video_frame_count
<1>1. /\ DOMAIN frames' = DOMAIN frames \cup {k}
      /\ frames'[k].pic = ThisPicture /\ frames'[k].whole = whole
      /\ frames'[k] = [pic |-> ThisPicture, whole |-> whole]
      /\ \A j \in DOMAIN frames : j # k => frames'[j] = frames[j]
  <2> DEFINE f == [pic |-> ThisPicture, whole |-> whole]
  <2>1. f.pic = ThisPicture /\ f.whole = whole
    OBVIOUS
  <2>2. frames' = [j \in DOMAIN frames \cup {k} |-> IF j = k THEN f ELSE frames[j]]
    BY DEF Put
  <2> HIDE DEF f
  <2>3. /\ DOMAIN frames' = DOMAIN frames \cup {k}
        /\ frames'[k] = f
        /\ \A j \in DOMAIN frames : j # k => frames'[j] = frames[j]
    BY <2>2
  <2>. QED BY <2>1, <2>3 DEF f
<1>2. ThisPicture \in Picture /\ ThisPicture.run = run /\ ThisPicture' = ThisPicture
  BY ThisPictureType DEF ThisPicture
<1>3. k \in Nat \ {0} /\ run \in Nat
  BY DEF AtHand, TypeOK
<1>4. frames'[k] \in File
  BY <1>1, <1>2 DEF File
<1>5. TypeOK'
  <2>1. DOMAIN frames' \subseteq Nat \ {0} /\ \A j \in DOMAIN frames' : frames'[j] \in File
    BY <1>1, <1>3, <1>4 DEF TypeOK
  <2>2. pc' \in Alive \cup Dead
    BY DEF Alive
  <2>. QED BY <2>1, <2>2 DEF TypeOK
<1>6. Vectors'
  BY DEF Files, Vectors
<1>7. Counted'
  BY DEF Files, Counted
<1>8. Frames'
  <2>. SUFFICES ASSUME NEW j \in DOMAIN frames'
       PROVE  /\ frames'[j].pic.run <= run
              /\ frames'[j].pic.run = run => j <= k
              /\ frames'[j].pic.run = run /\ j = k => pc' # "save"
              /\ frames'[j].pic.run = run /\ ~frames'[j].whole =>
                   j = k /\ pc' \in {"frame", "killed"}
    BY DEF Frames
  <2>1. CASE j = k
    BY <1>1, <1>2, <1>3, <2>1
  <2>2. CASE j # k
    <3>1. j \in DOMAIN frames /\ frames'[j] = frames[j]
      BY <1>1, <2>2
    <3>. QED BY <2>2, <3>1 DEF Files, Frames
  <2>. QED BY <2>1, <2>2
<1>9. Paired'
  <2>1. ~(k \in DOMAIN mv /\ mv[k].pic.run = run)
    BY DEF Files, Vectors
  <2>2. \A j \in DOMAIN frames : j # k =>
          LET f == frames[j]
              own == j \in DOMAIN mv /\ mv[j].pic.run = f.pic.run
          IN \/ own /\ mv[j].pic = f.pic /\ f.whole
             \/ ~own /\ f.pic.run < run
                     /\ \/ j \in DOMAIN mv /\ mv[j].pic.run > f.pic.run
                        \/ \A m \in DOMAIN mv : m > j => mv[m].pic.run # f.pic.run
    BY DEF Files, Paired
  <2>. QED BY <1>1, <1>2, <2>1, <2>2 DEF Paired
<1>10. AtHand'
  BY <1>1, <1>2, <1>3 DEF AtHand
<1>11. Books' /\ OwnVideo'
  BY OwnVideoKept DEF Books
<1>12. Video' /\ Contexts'
  BY DecodingKeeps DEF Alive
<1>. QED BY <1>5, <1>6, <1>7, <1>8, <1>9, <1>10, <1>11, <1>12 DEF Files

LEMMA SaveFrameInv == IInv /\ SaveFrame => IInv'
<1> SUFFICES ASSUME IInv, SaveFrame PROVE IInv'
  OBVIOUS
<1>1. CASE frames' = Put(frames, FALSE) /\ pc' = "frame"
  BY <1>1, FramePut DEF SaveFrame
<1>2. CASE pc' = "json" /\ UNCHANGED frames
  <2> USE DEF IInv
  <2>1. /\ UNCHANGED <<dec, video_stream, input, video_frame_count, pkt, frames, mv,
                       run, call, reads, skipped, lost, unopened>>
        /\ pc = "save"
    BY <1>2 DEF SaveFrame
  <2>2. TypeOK'
    BY <1>2, <2>1 DEF TypeOK, Alive
  <2>3. Vectors'
    BY <1>2, <2>1 DEF Files, Vectors
  <2>4. Counted'
    BY <1>2, <2>1 DEF Files, Counted
  <2>5. Frames'
    BY <1>2, <2>1 DEF Files, Frames
  <2>6. Paired'
    BY <1>2, <2>1 DEF Files, Paired
  <2>7. AtHand'
    <3>1. video_frame_count \in DOMAIN frames => frames[video_frame_count].pic.run < run
      <4>. SUFFICES ASSUME video_frame_count \in DOMAIN frames
           PROVE  frames[video_frame_count].pic.run < run
        OBVIOUS
      <4>1. /\ frames[video_frame_count].pic.run <= run
            /\ frames[video_frame_count].pic.run # run
        BY <2>1 DEF Files, Frames
      <4>2. frames[video_frame_count].pic.run \in Nat /\ run \in Nat
        BY DEF TypeOK, File, Picture
      <4>. QED BY <4>1, <4>2
    <3>. QED BY <1>2, <2>1, <3>1 DEF AtHand
  <2>8. Books' /\ OwnVideo'
    BY <2>1, OwnVideoKept DEF Books
  <2>9. Video' /\ Contexts'
    BY <1>2, <2>1, DecodingKeeps DEF Alive
  <2>. QED BY <2>2, <2>3, <2>4, <2>5, <2>6, <2>7, <2>8, <2>9 DEF Files
<1>. QED BY <1>1, <1>2 DEF SaveFrame

LEMMA CloseFrameInv == IInv /\ CloseFrame => IInv'
  BY FramePut DEF CloseFrame

(* A file of vectors is opened, or rewritten by its close.                 *)
LEMMA VectorsPut ==
  ASSUME IInv, NEW whole \in BOOLEAN, mv' = Put(mv, whole),
         pc = IF whole THEN "write" ELSE "json",
         pc' = IF whole THEN "receive" ELSE "write",
         UNCHANGED <<dec, video_stream, input, video_frame_count, pkt, frames,
                     run, call, reads, skipped, lost, unopened>>
  PROVE  IInv'
<1> USE DEF IInv
<1> DEFINE k == video_frame_count
<1>1. /\ DOMAIN mv' = DOMAIN mv \cup {k}
      /\ mv'[k].pic = ThisPicture /\ mv'[k].whole = whole
      /\ mv'[k] = [pic |-> ThisPicture, whole |-> whole]
      /\ \A j \in DOMAIN mv : j # k => mv'[j] = mv[j]
  <2> DEFINE f == [pic |-> ThisPicture, whole |-> whole]
  <2>1. f.pic = ThisPicture /\ f.whole = whole
    OBVIOUS
  <2>2. mv' = [j \in DOMAIN mv \cup {k} |-> IF j = k THEN f ELSE mv[j]]
    BY DEF Put
  <2> HIDE DEF f
  <2>3. /\ DOMAIN mv' = DOMAIN mv \cup {k}
        /\ mv'[k] = f
        /\ \A j \in DOMAIN mv : j # k => mv'[j] = mv[j]
    BY <2>2
  <2>. QED BY <2>1, <2>3 DEF f
<1>2. /\ ThisPicture \in Picture /\ ThisPicture.run = run /\ ThisPicture' = ThisPicture
      /\ ThisPicture.call = call /\ ThisPicture.video = input
  BY ThisPictureType DEF ThisPicture
<1>3. k \in Nat \ {0} /\ run \in Nat /\ pc \in {"json", "write"} /\ pc' \in {"write", "receive"}
  BY DEF AtHand, TypeOK
<1>4. mv'[k] \in File
  BY <1>1, <1>2 DEF File
<1>5. TypeOK'
  <2>1. DOMAIN mv' \subseteq Nat \ {0} /\ \A j \in DOMAIN mv' : mv'[j] \in File
    BY <1>1, <1>3, <1>4 DEF TypeOK
  <2>2. pc' \in Alive \cup Dead
    BY <1>3 DEF Alive
  <2>. QED BY <2>1, <2>2 DEF TypeOK
<1>6. Vectors'
  <2>. SUFFICES ASSUME NEW j \in DOMAIN mv'
       PROVE  /\ mv'[j].pic.run <= run
              /\ mv'[j].pic.run = run => j <= k
              /\ mv'[j].pic.run = run /\ j = k => pc' \notin {"save", "frame", "json"}
              /\ mv'[j].pic.run = run /\ ~mv'[j].whole => j = k /\ pc' \in {"write", "killed"}
    BY DEF Vectors
  <2>1. CASE j = k
    BY <1>1, <1>2, <1>3, <2>1
  <2>2. CASE j # k
    <3>1. j \in DOMAIN mv /\ mv'[j] = mv[j]
      BY <1>1, <2>2
    <3>. QED BY <1>3, <2>2, <3>1 DEF Files, Vectors
  <2>. QED BY <2>1, <2>2
<1>7. Counted'
  BY <1>1, <1>2, <1>3 DEF Files, Counted
<1>8. Frames'
  BY <1>3 DEF Files, Frames
<1>9. Paired'
  <2>. SUFFICES ASSUME NEW j \in DOMAIN frames
       PROVE  LET f == frames[j]
                  own == j \in DOMAIN mv' /\ mv'[j].pic.run = f.pic.run
              IN \/ own /\ mv'[j].pic = f.pic /\ f.whole
                 \/ ~own /\ f.pic.run < run
                         /\ \/ j \in DOMAIN mv' /\ mv'[j].pic.run > f.pic.run
                            \/ \A m \in DOMAIN mv' : m > j => mv'[m].pic.run # f.pic.run
    BY DEF Paired
  <2>1. frames[j].pic.run \in Nat /\ frames[j].pic.run <= run
    BY DEF TypeOK, File, Picture, Files, Frames
  <2>2. CASE j = k
    <3>1. CASE frames[k].pic.run = run
      <4>1. frames[k].pic = ThisPicture /\ frames[k].whole
        <5>1. CASE pc = "json"
          BY <1>3, <2>2, <3>1, <5>1 DEF AtHand
        <5>2. CASE pc = "write"
          BY <1>3, <2>2, <3>1, <5>2 DEF AtHand, Files, Paired
        <5>. QED BY <1>3, <5>1, <5>2
      <4>. QED BY <1>1, <1>2, <2>2, <4>1
    <3>2. CASE frames[k].pic.run # run
      <4>1. frames[k].pic.run < run
        BY <1>3, <2>1, <2>2, <3>2
      <4>. QED BY <1>1, <1>2, <1>3, <2>1, <2>2, <4>1
    <3>. QED BY <3>1, <3>2
  <2>3. CASE j # k
    <3> DEFINE r == frames[j].pic.run
    <3>1. j \in DOMAIN mv' <=> j \in DOMAIN mv
      BY <1>1, <2>3
    <3>2. j \in DOMAIN mv => mv'[j] = mv[j]
      BY <1>1, <2>3
    <3>3. CASE j \in DOMAIN mv /\ mv[j].pic.run = r
      BY <1>3, <2>3, <3>1, <3>2, <3>3 DEF Files, Paired
    <3>4. CASE ~(j \in DOMAIN mv /\ mv[j].pic.run = r)
      <4>1. /\ r < run
            /\ \/ j \in DOMAIN mv /\ mv[j].pic.run > r
               \/ \A m \in DOMAIN mv : m > j => mv[m].pic.run # r
        BY <1>3, <2>3, <3>4 DEF Files, Paired
      <4>2. (\A m \in DOMAIN mv : m > j => mv[m].pic.run # r) =>
              \A m \in DOMAIN mv' : m > j => mv'[m].pic.run # r
        BY <1>1, <1>2, <1>3, <2>1, <4>1
      <4>. QED BY <3>1, <3>2, <3>4, <4>1, <4>2
    <3>. QED BY <3>3, <3>4
  <2>. QED BY <2>2, <2>3
<1>10. AtHand'
  BY <1>1, <1>2, <1>3 DEF AtHand
<1>11. Books'
  BY DEF Books
<1>12. OwnVideo'
  <2>. SUFFICES ASSUME NEW j \in DOMAIN mv'
       PROVE  /\ mv'[j].pic.video \in 1 .. mv'[j].pic.call
              /\ \A c \in mv'[j].pic.video .. mv'[j].pic.call - 1 :
                   <<mv'[j].pic.run, c>> \in skipped'
    BY DEF OwnVideo
  <2>1. CASE j = k
    <3>1. input > 0 /\ input \in 0 .. call /\ call \in Nat
      BY <1>3 DEF Video, Alive, TypeOK
    <3>2. \A c \in input .. call - 1 : <<run, c>> \in skipped
      BY <3>1 DEF Video
    <3>. QED BY <1>1, <1>2, <2>1, <3>1, <3>2
  <2>2. CASE j # k
    <3>1. j \in DOMAIN mv /\ mv'[j] = mv[j]
      BY <1>1, <2>2
    <3>. QED BY <3>1 DEF OwnVideo
  <2>. QED BY <2>1, <2>2
<1>13. Video' /\ Contexts'
  BY <1>3, DecodingKeeps DEF Alive
<1>. QED BY <1>5, <1>6, <1>7, <1>8, <1>9, <1>10, <1>11, <1>12, <1>13 DEF Files

LEMMA WriteJsonInv == IInv /\ WriteJson => IInv'
  BY VectorsPut DEF WriteJson

(* A process that ends, by exit(1) or a signal, leaves the files as they   *)
(* are.                                                                    *)
LEMMA DeathInv ==
  ASSUME IInv, pc \in Alive, pc' = "killed" \/ (pc = "json" /\ pc' = "exited"),
         UNCHANGED <<dec, video_stream, input, video_frame_count, pkt, frames, mv,
                     run, call, reads, skipped, lost, unopened>>
  PROVE  IInv'
<1> USE DEF IInv
<1>1. TypeOK'
  BY DEF TypeOK, Dead
<1>2. Vectors'
  BY DEF Files, Vectors
<1>3. Counted'
  BY DEF Files, Counted, Alive
<1>4. Frames'
  BY DEF Files, Frames
<1>5. Paired'
  BY DEF Files, Paired
<1>6. Books' /\ AtHand' /\ OwnVideo'
  BY OwnVideoKept DEF Books, AtHand
<1>7. Video'
  BY DEF Video, Alive
<1>8. Contexts'
  <2>1. Stale \in {0, 1} /\ Stale' = 0
    BY DEF Stale
  <2>2. /\ lost' + Stale' + unopened <= lost + Stale + unopened'
        /\ lost' \in Nat /\ unopened' \in Nat
    BY <2>1 DEF TypeOK
  <2>. QED BY <2>2, ContextsKept DEF Alive
<1>. QED BY <1>1, <1>2, <1>3, <1>4, <1>5, <1>6, <1>7, <1>8 DEF Files

LEMMA OpenJsonInv == IInv /\ OpenJson => IInv'
<1> SUFFICES ASSUME IInv, OpenJson PROVE IInv'
  OBVIOUS
<1>1. CASE pc' = "exited" /\ UNCHANGED mv
  BY <1>1, DeathInv DEF OpenJson, Alive
<1>2. CASE pc' = "write" /\ mv' = Put(mv, FALSE)
  BY <1>2, VectorsPut DEF OpenJson
<1>. QED BY <1>1, <1>2 DEF OpenJson

LEMMA KillInv == IInv /\ Kill => IInv'
  BY DeathInv DEF Kill

(* A new process has written nothing: all files are those of older ones.   *)
LEMMA RestartInv == IInv /\ Restart => IInv'
<1> SUFFICES ASSUME IInv, Restart PROVE IInv'
  OBVIOUS
<1> USE DEF IInv, Restart
<1>1. ~IsOpen(dec') /\ dec' \in Codec
  BY OpenedConsistent DEF NoCodec, IsOpen, Context
<1>2. TypeOK'
  BY <1>1 DEF TypeOK, Alive, Packets
<1>3. /\ run \in Nat /\ run' = run + 1
      /\ \A k \in DOMAIN mv : mv[k].pic.run \in Nat /\ mv[k].pic.run <= run
      /\ \A k \in DOMAIN frames : frames[k].pic.run \in Nat /\ frames[k].pic.run <= run
  BY DEF TypeOK, File, Picture, Files, Vectors, Frames
<1>4. Vectors'
  BY <1>3 DEF Vectors
<1>5. Counted'
  BY DEF Counted
<1>6. Frames'
  BY <1>3 DEF Frames
<1>7. Paired'
  <2>. SUFFICES ASSUME NEW j \in DOMAIN frames
       PROVE  LET f == frames[j]
                  own == j \in DOMAIN mv /\ mv[j].pic.run = f.pic.run
              IN \/ own /\ mv[j].pic = f.pic /\ f.whole
                 \/ ~own /\ f.pic.run < run'
                         /\ \/ j \in DOMAIN mv /\ mv[j].pic.run > f.pic.run
                            \/ \A m \in DOMAIN mv : m > j => mv[m].pic.run # f.pic.run
    BY DEF Paired
  <2> DEFINE r == frames[j].pic.run
  <2>1. r < run'
    BY <1>3
  <2>2. CASE r < run
    BY <1>3, <2>1, <2>2 DEF Files, Paired
  <2>3. CASE r = run /\ j = video_frame_count
    <3>1. \A m \in DOMAIN mv : m > j => mv[m].pic.run # r
      BY <2>3 DEF Files, Vectors, TypeOK
    <3>. QED BY <1>3, <2>1, <2>3, <3>1 DEF Files, Paired
  <2>4. CASE r = run /\ j # video_frame_count
    BY <1>3, <2>1, <2>4 DEF Files, Paired
  <2>. QED BY <1>3, <2>2, <2>3, <2>4
<1>8. Books' /\ AtHand' /\ OwnVideo'
  BY <1>1, OwnVideoKept DEF Books, AtHand
<1>9. Video'
  BY DEF Video
<1>10. Contexts'
  <2>1. \A s \in skipped : s[1] \in Nat /\ s[1] <= run
    BY DEF Contexts, TypeOK
  <2>2. Skipped(run') = {} /\ Stale' = 0
    BY <1>1, <1>3, <2>1 DEF Skipped, Stale
  <2>3. Skipped(run)' = {}
    BY <2>2 DEF Skipped
  <2>4. Cardinality(Skipped(run)') = 0
    BY <2>3, FS_EmptySet
  <2>5. lost' + Stale' <= Cardinality(Skipped(run)') + unopened'
    BY <2>2, <2>4
  <2>6. \A s \in skipped' : s[1] <= run' /\ (s[1] = run' => s[2] <= call')
    BY <1>3, <2>1
  <2>. QED BY <1>1, <2>5, <2>6 DEF Contexts
<1>. QED BY <1>2, <1>4, <1>5, <1>6, <1>7, <1>8, <1>9, <1>10 DEF Files

LEMMA StutterInv == IInv /\ UNCHANGED vars => IInv'
<1> SUFFICES ASSUME IInv, UNCHANGED vars PROVE IInv'
  OBVIOUS
<1> USE DEF IInv, vars
<1>1. TypeOK' /\ Books' /\ AtHand' /\ OwnVideo' /\ Video'
  BY DEF TypeOK, Books, AtHand, ThisPicture, OwnVideo, Video
<1>2. Files'
  BY DEF Files, Vectors, Counted, Frames, Paired
<1>3. Contexts'
  BY DEF Contexts, Skipped, Stale
<1>. QED BY <1>1, <1>2, <1>3

LEMMA StepInv == IInv /\ [Next]_vars => IInv'
<1> SUFFICES ASSUME IInv, [Next]_vars PROVE IInv'
  OBVIOUS
<1>1. CASE UNCHANGED vars
  BY <1>1, StutterInv
<1>2. CASE Call
  BY <1>2, CallInv
<1>3. CASE Step
  BY <1>3, OpenInputInv, OpenCodecInv, CheckStreamInv, AllocRGBInv, ReadInv, SendInv,
     ReceiveInv, SaveFrameInv, CloseFrameInv, OpenJsonInv, WriteJsonInv, EndInv DEF Step
<1>4. CASE Kill
  BY <1>4, KillInv
<1>5. CASE Restart
  BY <1>5, RestartInv
<1>. QED BY <1>1, <1>2, <1>3, <1>4, <1>5 DEF Next

LEMMA Invariance == Spec => []IInv
  BY InitInv, StepInv, PTL DEF Spec

--------------------------------------------------------------------------------
(* The extractor of vectors and frames keeps its types.                    *)
THEOREM TypeCorrect == Spec => []TypeOK
<1>1. IInv => TypeOK
  BY DEF IInv
<1>. QED BY <1>1, Invariance, PTL

(* Frame k and vectors k of one process are about one picture, and a frame *)
(* without its vectors is at the place where its process ended, or has     *)
(* lost them to a later process.                                           *)
THEOREM FramesMatchVectors == Spec => []Paired
<1>1. IInv => Paired
  BY DEF IInv, Files
<1>. QED BY <1>1, Invariance, PTL

(* What is not complete is the last file of its kind, of a process that    *)
(* was killed over it.                                                     *)
THEOREM OnlyTheLastIsCut == Spec => []CutOnlyAtTheEnd
<1>1. IInv => CutOnlyAtTheEnd
  <2> SUFFICES ASSUME IInv PROVE CutOnlyAtTheEnd
    OBVIOUS
  <2> USE DEF IInv
  <2>1. ASSUME NEW k \in DOMAIN mv, ~mv[k].whole
        PROVE  /\ mv[k].pic.run = run => k = video_frame_count /\ pc \in {"frame", "write", "killed"}
               /\ \A j \in DOMAIN mv : j > k => mv[j].pic.run < mv[k].pic.run \/ mv[k].pic.run < run
    BY <2>1 DEF Files, Vectors, TypeOK, File, Picture
  <2>2. ASSUME NEW k \in DOMAIN frames, ~frames[k].whole
        PROVE  /\ frames[k].pic.run = run => k = video_frame_count /\ pc \in {"frame", "write", "killed"}
               /\ \A j \in DOMAIN frames : j > k =>
                    frames[j].pic.run < frames[k].pic.run \/ frames[k].pic.run < run
    BY <2>2 DEF Files, Frames, TypeOK, File, Picture
  <2>. QED BY <2>1, <2>2 DEF CutOnlyAtTheEnd
<1>. QED BY <1>1, Invariance, PTL

(* Files come from another video than the one the call was given only      *)
(* when every call since that video was opened skipped the end label.      *)
THEOREM VideosMixedOnlyAfterSkips == Spec => []OwnVideo
<1>1. IInv => OwnVideo
  BY DEF IInv
<1>. QED BY <1>1, Invariance, PTL

(* Nothing is left open between calls but by those that skipped the end    *)
(* label (329); a context lost is due to one of them, or to the returns of *)
(* open_codec_context that do not free it (248, 256).                      *)
THEOREM OnlySkipsAndFailuresLeak == Spec => []NothingLeftOpen
<1>1. IInv => NothingLeftOpen
  <2> SUFFICES ASSUME IInv PROVE NothingLeftOpen
    OBVIOUS
  <2>1. pc = "idle" /\ <<run, call>> \notin skipped => input = 0 /\ ~IsOpen(dec)
    BY DEF IInv, Video, Contexts, TypeOK
  <2>2. /\ Stale \in {0, 1} /\ lost \in Nat /\ unopened \in Nat
        /\ Cardinality(Skipped(run)) \in Nat
    BY SkippedCount DEF IInv, Contexts, TypeOK, Stale
  <2>3. lost + Stale <= Cardinality(Skipped(run)) + unopened
    BY DEF IInv, Contexts
  <2>4. lost <= Cardinality(Skipped(run)) + unopened
    BY <2>2, <2>3
  <2>. QED BY <2>1, <2>4 DEF NothingLeftOpen, Skipped
<1>. QED BY <1>1, Invariance, PTL

--------------------------------------------------------------------------------
(* The files of vectors as a log.  Where a call begins, before the first   *)
(* packet, and where it decodes.                                           *)
Beginning == {"idle", "open", "codec", "check", "alloc"}
Decoding == {"read", "send", "receive", "save", "frame", "json", "write"}

(* The frames before this call: its decoder has counted the others.        *)
Base == video_frame_count - dec.frame_number

(* A call begins with a context that has not decoded anything, even when a *)
(* call before it left that context open, and its files are those above    *)
(* Base, numbered from there.                                              *)
Numbers ==
  /\ pc \in Beginning /\ IsOpen(dec) => dec = Opened
  /\ pc \in Decoding => IsOpen(dec) /\ dec.frame_number <= video_frame_count
  /\ pc \in {"save", "frame", "json", "write"} => dec.frame_number > 0
  /\ \A k \in DOMAIN mv : mv[k].pic.run = run =>
       /\ mv[k].pic.call <= call
       /\ pc \in Beginning \ {"idle"} => mv[k].pic.call < call
       /\ pc \in Decoding =>
            IF k > Base THEN mv[k].pic.call = call /\ mv[k].pic.frame = k - Base
                        ELSE mv[k].pic.call < call

(* The file before another one is the frame before, or ends its call.      *)
InOrder ==
  \A k \in DOMAIN mv : mv[k].pic.run = run =>
    /\ k = 1 => mv[k].pic.frame = 1
    /\ k + 1 \in DOMAIN mv /\ mv[k + 1].pic.run = run =>
         \/ mv[k + 1].pic.call = mv[k].pic.call /\ mv[k + 1].pic.frame = mv[k].pic.frame + 1
         \/ mv[k + 1].pic.call > mv[k].pic.call /\ mv[k + 1].pic.frame = 1

Order == Numbers /\ InOrder

LEMMA PictureNumbers ==
  ASSUME TypeOK
  PROVE  /\ \A k \in DOMAIN mv : /\ k \in Nat \ {0} /\ mv[k].whole \in BOOLEAN
                                 /\ mv[k].pic.run \in Nat /\ mv[k].pic.call \in Nat
                                 /\ mv[k].pic.frame \in Nat
         /\ dec.frame_number \in Nat /\ video_frame_count \in Nat /\ call \in Nat /\ run \in Nat
  BY DEF TypeOK, File, Picture, Codec

(* A step that leaves the files, the counter and frame_number alone.       *)
LEMMA OrderKept ==
  ASSUME Order, UNCHANGED <<mv, run, call, video_frame_count>>,
         dec'.frame_number = dec.frame_number,
         pc' \in Decoding => pc \in Decoding /\ IsOpen(dec'),
         pc' \in {"save", "frame", "json", "write"} => pc \in {"save", "frame", "json", "write"},
         pc' \in Beginning \ {"idle"} => pc \in Beginning \ {"idle"},
         pc' \in Beginning /\ IsOpen(dec') => dec' = Opened
  PROVE  Order'
<1>1. Numbers'
  BY DEF Order, Numbers, Base
<1>2. InOrder'
  BY DEF Order, InOrder
<1>. QED BY <1>1, <1>2 DEF Order

(* The steps that lead up to the first packet.                             *)
LEMMA BeginningOrder ==
  IInv /\ Order /\ (Call \/ OpenInput \/ OpenCodec \/ CheckStream \/ AllocRGB) => Order'
<1> SUFFICES ASSUME IInv, Order, Call \/ OpenInput \/ OpenCodec \/ CheckStream \/ AllocRGB
             PROVE  Order'
  OBVIOUS
<1>1. TypeOK /\ pc \in Beginning /\ (IsOpen(dec) => dec = Opened)
  BY DEF Call, OpenInput, OpenCodec, CheckStream, AllocRGB, IInv, Beginning, Order, Numbers
<1>2. CASE Call
  <2>1. Numbers'
    BY <1>2, PictureNumbers DEF Call, IInv, Order, Numbers, Beginning, Decoding, Base
  <2>2. InOrder'
    BY <1>2 DEF Call, Order, InOrder
  <2>. QED BY <2>1, <2>2 DEF Order
<1>3. CASE OpenInput \/ CheckStream
  BY <1>1, <1>3, OrderKept DEF OpenInput, CheckStream, Beginning, Decoding
<1>4. CASE OpenCodec
  <2>1. pc = "codec" /\ pc' = "check" /\ UNCHANGED <<mv, run, call>> /\ dec' \in {dec, Opened}
    BY <1>4 DEF OpenCodec
  <2>2. Numbers'
    BY <1>1, <2>1 DEF Order, Numbers, Beginning, Decoding
  <2>3. InOrder'
    BY <2>1 DEF Order, InOrder
  <2>. QED BY <2>2, <2>3 DEF Order
<1>5. CASE AllocRGB
  <2>1. pc = "alloc" /\ UNCHANGED <<mv, run, call, dec, video_frame_count>>
    BY <1>5 DEF AllocRGB
  <2>2. CASE pc' # "read"
    BY <1>1, <1>5, <2>1, <2>2, OrderKept DEF AllocRGB, Beginning, Decoding
  <2>3. CASE pc' = "read"
    <3>1. dec = Opened /\ IsOpen(dec)
      BY <1>1, <1>5, <2>3 DEF AllocRGB
    <3>2. dec.frame_number = 0 /\ Base' = video_frame_count
      BY <2>1, <3>1, PictureNumbers, <1>1 DEF Opened, Context, Base
    <3>3. \A k \in DOMAIN mv : mv[k].pic.run = run => ~(k > Base') /\ mv[k].pic.call < call
      BY <2>1, <3>2, PictureNumbers, <1>1 DEF IInv, Files, Vectors, Order, Numbers, Beginning
    <3>4. Numbers'
      BY <1>1, <2>1, <2>3, <3>1, <3>2, <3>3, PictureNumbers
         DEF Order, Numbers, Beginning, Decoding
    <3>5. InOrder'
      BY <2>1 DEF Order, InOrder
    <3>. QED BY <3>4, <3>5 DEF Order
  <2>. QED BY <2>2, <2>3
<1>. QED BY <1>2, <1>3, <1>4, <1>5

(* frame_number counts what the counter counts, within a call.             *)
LEMMA DecodingOrder == IInv /\ Order /\ (Read \/ Send \/ Receive) => Order'
<1> SUFFICES ASSUME IInv, Order, Read \/ Send \/ Receive PROVE Order'
  OBVIOUS
<1>1. /\ TypeOK /\ pc \in {"read", "send", "receive"} /\ IsOpen(dec) /\ Consistent(dec)
      /\ UNCHANGED <<mv, run, call>>
  BY DEF Read, Send, Receive, IInv, Books, Order, Numbers, Decoding
<1>2. CASE Read
  BY <1>1, <1>2, OrderKept DEF Read, Beginning, Decoding
<1>3. CASE Send
  <2>1. PICK o \in SendPacket(dec, pkt) :
          /\ dec' = o.dec
          /\ IF o.ret = "ok" THEN pc' = "receive" /\ UNCHANGED pkt ELSE Return(TRUE)
    BY <1>3 DEF Send
  <2>2. IsOpen(dec') /\ dec'.frame_number = dec.frame_number
    BY <1>1, <2>1, SendPacketOutcome DEF TypeOK, Consistent
  <2>3. pc' \in {"receive", "end", "send", "read"}
    BY <2>1 DEF Return
  <2>. QED BY <1>1, <1>3, <2>2, <2>3, OrderKept DEF Send, Beginning, Decoding
<1>4. CASE Receive
  <2>1. PICK o \in ReceiveFrame(dec) :
          /\ dec' = o.dec
          /\ IF o.ret = "ok"
             THEN /\ pc' = "save" /\ video_frame_count' = video_frame_count + 1
                  /\ UNCHANGED pkt
             ELSE Return(o.ret = "error") /\ UNCHANGED video_frame_count
    BY <1>4 DEF Receive
  <2>2. /\ IsOpen(dec')
        /\ dec'.frame_number = dec.frame_number + (IF o.ret = "ok" THEN 1 ELSE 0)
    BY <1>1, <2>1, ReceiveFrameOutcome DEF Consistent
  <2>3. CASE o.ret # "ok"
    <3>1. pc' \in {"end", "send", "read"} /\ UNCHANGED video_frame_count
      BY <2>1, <2>3 DEF Return
    <3>2. dec'.frame_number = dec.frame_number
      BY <1>1, <2>2, <2>3, PictureNumbers
    <3>. QED BY <1>1, <2>2, <3>1, <3>2, OrderKept DEF Beginning, Decoding
  <2>4. CASE o.ret = "ok"
    <3>1. /\ pc' = "save" /\ video_frame_count' = video_frame_count + 1
          /\ dec'.frame_number = dec.frame_number + 1
      BY <2>1, <2>2, <2>4
    <3>2. Base' = Base /\ dec'.frame_number > 0 /\ dec'.frame_number <= video_frame_count'
      BY <1>1, <3>1, PictureNumbers DEF Base, Order, Numbers, Decoding
    <3>3. Numbers'
      BY <1>1, <2>2, <3>1, <3>2 DEF Order, Numbers, Beginning, Decoding
    <3>4. InOrder'
      BY <1>1 DEF Order, InOrder
    <3>. QED BY <3>3, <3>4 DEF Order
  <2>. QED BY <2>3, <2>4
<1>. QED BY <1>2, <1>3, <1>4

(* What Put leaves of the other files, and what the new one is about.      *)
LEMMA PutFile ==
  ASSUME TypeOK, NEW whole \in BOOLEAN, mv' = Put(mv, whole)
  PROVE  LET k == video_frame_count
         IN /\ DOMAIN mv' = DOMAIN mv \cup {k}
            /\ \A j \in DOMAIN mv : j # k => mv'[j] = mv[j]
            /\ mv'[k].pic = ThisPicture /\ mv'[k].whole = whole
            /\ mv'[k].pic.run = run /\ mv'[k].pic.call = call
            /\ mv'[k].pic.frame = dec.frame_number
<1> DEFINE k == video_frame_count
           p == ThisPicture
           f == [pic |-> p, whole |-> whole]
<1>1. f.pic = p /\ f.whole = whole
  OBVIOUS
<1>2. p.run = run /\ p.call = call /\ p.frame = dec.frame_number
  BY DEF ThisPicture
<1>3. mv' = [j \in DOMAIN mv \cup {k} |-> IF j = k THEN f ELSE mv[j]]
  BY DEF Put
<1> HIDE DEF f, p
<1>4. DOMAIN mv' = DOMAIN mv \cup {k} /\ mv'[k] = f /\ \A j \in DOMAIN mv : j # k => mv'[j] = mv[j]
  BY <1>3
<1>. QED BY <1>1, <1>2, <1>4 DEF p

(* A file of vectors is opened behind all others of its process.           *)
LEMMA OpenJsonOrder == IInv /\ Order /\ OpenJson => Order'
<1> SUFFICES ASSUME IInv, Order, OpenJson PROVE Order'
  OBVIOUS
<1> DEFINE k == video_frame_count
           n == dec.frame_number
<1>1. /\ TypeOK /\ pc = "json" /\ UNCHANGED <<run, call, dec, k>>
      /\ k \in Nat \ {0} /\ n \in Nat /\ n > 0 /\ n <= k /\ IsOpen(dec)
      /\ Base = k - n /\ Base \in Nat /\ Base' = Base /\ call \in Nat /\ run \in Nat
  BY PictureNumbers DEF OpenJson, IInv, AtHand, Order, Numbers, Decoding, Base
<1>2. CASE pc' = "exited" /\ UNCHANGED mv
  BY <1>1, <1>2, OrderKept DEF Beginning, Decoding
<1>3. CASE pc' = "write" /\ mv' = Put(mv, FALSE)
  <2>1. /\ DOMAIN mv' = DOMAIN mv \cup {k}
        /\ \A j \in DOMAIN mv : j # k => mv'[j] = mv[j]
        /\ mv'[k].pic.run = run /\ mv'[k].pic.call = call /\ mv'[k].pic.frame = n
    BY <1>1, <1>3, PutFile
  <2>2. \A j \in DOMAIN mv : mv[j].pic.run = run => j < k
    BY <1>1, PictureNumbers DEF IInv, Files, Vectors
  <2>3. \A j \in DOMAIN mv : mv[j].pic.run = run =>
          /\ mv[j].pic.call <= call
          /\ IF j > Base THEN mv[j].pic.call = call /\ mv[j].pic.frame = j - Base
                         ELSE mv[j].pic.call < call
    BY <1>1 DEF Order, Numbers, Decoding
  <2>4. Numbers'
    <3>1. ASSUME NEW j \in DOMAIN mv', mv'[j].pic.run = run
          PROVE  /\ mv'[j].pic.call <= call
                 /\ IF j > Base THEN mv'[j].pic.call = call /\ mv'[j].pic.frame = j - Base
                                ELSE mv'[j].pic.call < call
      <4>1. CASE j = k
        BY <1>1, <2>1, <4>1
      <4>2. CASE j # k
        BY <2>1, <2>3, <3>1, <4>2
      <4>. QED BY <4>1, <4>2
    <3>. QED BY <1>1, <1>3, <3>1 DEF Numbers, Beginning, Decoding
  <2>5. k = 1 => mv'[k].pic.frame = 1
    BY <1>1, <2>1
  <2>6. k - 1 \in DOMAIN mv /\ mv[k - 1].pic.run = run =>
          \/ call = mv[k - 1].pic.call /\ n = mv[k - 1].pic.frame + 1
          \/ call > mv[k - 1].pic.call /\ n = 1
    BY <1>1, <2>3, PictureNumbers
  <2>7. ASSUME NEW j \in DOMAIN mv', mv'[j].pic.run = run,
               j + 1 \in DOMAIN mv', mv'[j + 1].pic.run = run
        PROVE  \/ /\ mv'[j + 1].pic.call = mv'[j].pic.call
                  /\ mv'[j + 1].pic.frame = mv'[j].pic.frame + 1
               \/ mv'[j + 1].pic.call > mv'[j].pic.call /\ mv'[j + 1].pic.frame = 1
    <3>1. j \in Nat /\ \A i \in DOMAIN mv' : i = k \/ (i \in DOMAIN mv /\ mv'[i] = mv[i])
      BY <1>1, <2>1, PictureNumbers
    <3>2. CASE j = k
      <4>1. j + 1 \in DOMAIN mv /\ mv[j + 1].pic.run = run /\ ~(j + 1 < k)
        BY <1>1, <2>7, <3>1, <3>2
      <4>. QED BY <2>2, <4>1
    <3>3. CASE j # k /\ j + 1 = k
      <4>1. j = k - 1 /\ j \in DOMAIN mv /\ mv'[j] = mv[j] /\ mv[j].pic.run = run
        BY <1>1, <2>7, <3>1, <3>3
      <4>. QED BY <2>1, <2>6, <3>3, <4>1
    <3>4. CASE j # k /\ j + 1 # k
      BY <2>7, <3>1, <3>4 DEF Order, InOrder
    <3>. QED BY <3>2, <3>3, <3>4
  <2>8. ASSUME NEW j \in DOMAIN mv', mv'[j].pic.run = run, j = 1 PROVE mv'[j].pic.frame = 1
    BY <2>1, <2>5, <2>8 DEF Order, InOrder
  <2>9. InOrder'
    BY <1>1, <2>7, <2>8 DEF InOrder
  <2>. QED BY <2>4, <2>9 DEF Order
<1>4. (pc' = "exited" /\ UNCHANGED mv) \/ (pc' = "write" /\ mv' = Put(mv, FALSE))
  BY DEF OpenJson
<1>. QED BY <1>2, <1>3, <1>4, Zenon

(* Closing a file of vectors changes nothing of what it is about.          *)
LEMMA WriteJsonOrder == IInv /\ Order /\ WriteJson => Order'
<1> SUFFICES ASSUME IInv, Order, WriteJson PROVE Order'
  OBVIOUS
<1> DEFINE k == video_frame_count
<1>1. /\ TypeOK /\ pc = "write" /\ pc' = "receive" /\ UNCHANGED <<run, call, dec, k>>
      /\ k \in DOMAIN mv /\ mv[k].pic = ThisPicture
  BY DEF WriteJson, IInv, AtHand
<1>2. DOMAIN mv' = DOMAIN mv /\ \A j \in DOMAIN mv : mv'[j].pic = mv[j].pic
  <2>1. /\ DOMAIN mv' = DOMAIN mv \cup {k}
        /\ \A j \in DOMAIN mv : j # k => mv'[j] = mv[j]
        /\ mv'[k].pic = ThisPicture
    BY <1>1, PutFile DEF WriteJson
  <2>. QED BY <1>1, <2>1
<1>3. Numbers'
  BY <1>1, <1>2 DEF Order, Numbers, Beginning, Decoding, Base
<1>4. InOrder'
  BY <1>1, <1>2 DEF Order, InOrder
<1>. QED BY <1>3, <1>4 DEF Order

LEMMA OrderInv == IInv /\ Order /\ [Next]_vars => Order'
<1> SUFFICES ASSUME IInv, Order, [Next]_vars PROVE Order'
  OBVIOUS
<1>1. CASE UNCHANGED vars
  BY <1>1 DEF vars, Order, Numbers, InOrder, Base
<1>2. CASE SaveFrame \/ CloseFrame \/ Kill
  BY <1>2, OrderKept DEF SaveFrame, CloseFrame, Kill, Order, Numbers, Beginning, Decoding
<1>3. CASE End
  <2>1. pc = "end" /\ pc' = "idle" /\ dec' = NoCodec /\ UNCHANGED <<mv, run, call>>
    BY <1>3 DEF End
  <2>2. ~IsOpen(dec')
    BY <2>1 DEF NoCodec, Context, IsOpen
  <2>3. Numbers'
    BY <2>1, <2>2 DEF Order, Numbers, Beginning, Decoding
  <2>4. InOrder'
    BY <2>1 DEF Order, InOrder
  <2>. QED BY <2>3, <2>4 DEF Order
<1>4. CASE Restart
  <2>1. \A k \in DOMAIN mv : mv[k].pic.run # run'
    BY <1>4, PictureNumbers DEF Restart, IInv, Files, Vectors
  <2>2. ~IsOpen(dec') /\ mv' = mv /\ pc' = "idle"
    BY <1>4 DEF Restart, NoCodec, Context, IsOpen
  <2>. QED BY <2>1, <2>2 DEF Order, Numbers, InOrder, Beginning, Decoding
<1>. QED
  BY <1>1, <1>2, <1>3, <1>4, BeginningOrder, DecodingOrder, OpenJsonOrder, WriteJsonOrder
  DEF Next, Step

(* A file being written is not complete.                                   *)
Unfinished == pc = "write" => ~mv[video_frame_count].whole

LEMMA UnfinishedInv == IInv /\ Unfinished /\ [Next]_vars => Unfinished'
<1> SUFFICES ASSUME IInv, Unfinished, [Next]_vars PROVE Unfinished'
  OBVIOUS
<1>1. CASE OpenJson
  <2>1. CASE pc' = "write" /\ mv' = Put(mv, FALSE)
    <3>1. mv'[video_frame_count].whole = FALSE
      BY <2>1, PutFile DEF IInv
    <3>. QED BY <1>1, <3>1 DEF OpenJson, Unfinished
  <2>. QED BY <1>1, <2>1 DEF OpenJson, Unfinished
<1>2. CASE UNCHANGED vars
  BY <1>2 DEF vars, Unfinished
<1>3. CASE Next /\ ~OpenJson
  <2>1. pc' # "write"
    BY <1>3 DEF Next, Step, Call, OpenInput, OpenCodec, CheckStream, AllocRGB, Read, Send,
       Receive, Return, SaveFrame, CloseFrame, WriteJson, End, Kill, Restart
  <2>. QED BY <2>1 DEF Unfinished
<1>. QED BY <1>1, <1>2, <1>3

LogInv == IInv /\ Order /\ Unfinished

LEMMA LogInvariance == Spec => []LogInv
<1>1. Init => LogInv
  <2>. SUFFICES ASSUME Init PROVE LogInv
    OBVIOUS
  <2>1. DOMAIN mv = {} /\ ~IsOpen(dec) /\ pc = "idle"
    BY DEF Init, NoCodec, Context, IsOpen
  <2>. QED BY <2>1, InitInv
           DEF LogInv, Order, Numbers, InOrder, Unfinished, Beginning, Decoding
<1>2. LogInv /\ [Next]_vars => LogInv'
  BY StepInv, OrderInv, UnfinishedInv DEF LogInv
<1>. QED BY <1>1, <1>2, PTL DEF Spec

(* All files of the process are closed but the one at hand.                *)
LEMMA PublishedAt ==
  LogInv => /\ PublishedCount \in Nat /\ PublishedCount <= video_frame_count
            /\ pc \in {"save", "frame", "json", "write"} => PublishedCount = video_frame_count - 1
            /\ pc \notin {"save", "frame", "json", "write", "exited", "killed"} =>
                 PublishedCount = video_frame_count
            /\ \A k \in 1 .. PublishedCount :
                 k \in DOMAIN mv /\ mv[k].pic.run = run /\ mv[k].whole = TRUE
<1> SUFFICES ASSUME LogInv
             PROVE  /\ PublishedCount \in Nat /\ PublishedCount <= video_frame_count
                    /\ pc \in {"save", "frame", "json", "write"} =>
                         PublishedCount = video_frame_count - 1
                    /\ pc \notin {"save", "frame", "json", "write", "exited", "killed"} =>
                         PublishedCount = video_frame_count
                    /\ \A k \in 1 .. PublishedCount :
                         k \in DOMAIN mv /\ mv[k].pic.run = run /\ mv[k].whole = TRUE
  OBVIOUS
<1> DEFINE c == video_frame_count
<1>0. IInv
  BY DEF LogInv
<1>1. TypeOK /\ c \in Nat /\ \A k \in DOMAIN mv : mv[k].whole \in BOOLEAN
  BY <1>0, PictureNumbers DEF IInv
<1>2. PublishedCount \in Nat /\ PublishedCount <= c
  BY <1>1 DEF PublishedCount
<1>3. CASE pc \in {"save", "frame", "json"}
  <2>1. c > 0 /\ ~Closed(c)
    BY <1>0, <1>1, <1>3 DEF IInv, AtHand, Files, Vectors, Closed
  <2>2. \A k \in 1 .. c - 1 : k \in DOMAIN mv /\ mv[k].pic.run = run /\ mv[k].whole
    BY <1>0, <1>1, <1>3 DEF IInv, Files, Counted, Vectors
  <2>. QED BY <1>1, <1>2, <1>3, <2>1, <2>2 DEF PublishedCount
<1>4. CASE pc \notin {"save", "frame", "json"}
  <2>1. \A k \in 1 .. c - 1 : k \in DOMAIN mv /\ mv[k].pic.run = run /\ mv[k].whole
    BY <1>0, <1>1, <1>4 DEF IInv, Files, Counted, Vectors
  <2>2. pc \notin {"write", "exited", "killed"} /\ c > 0 => Closed(c)
    BY <1>0, <1>1, <1>4 DEF IInv, Files, Counted, Vectors, Closed
  <2>3. \A k \in 1 .. PublishedCount :
          k \in DOMAIN mv /\ mv[k].pic.run = run /\ mv[k].whole = TRUE
    BY <1>1, <1>2, <2>1 DEF PublishedCount, Closed
  <2>4. pc = "write" => PublishedCount = c - 1
    <3>1. pc = "write" => c > 0 /\ ~mv[c].whole
      BY <1>0 DEF LogInv, IInv, AtHand, Unfinished
    <3>. QED BY <3>1 DEF PublishedCount, Closed
  <2>. QED BY <1>1, <1>2, <1>4, <2>2, <2>3, <2>4 DEF PublishedCount
<1>. QED BY <1>3, <1>4

Entries == [call : Nat, frame : Nat, whole : BOOLEAN]

LEMMA PublishedType ==
  LogInv => /\ Published \in Seq(Entries) /\ Len(Published) = PublishedCount
            /\ \A k \in 1 .. PublishedCount :
                 /\ Published[k].call = mv[k].pic.call /\ Published[k].frame = mv[k].pic.frame
                 /\ Published[k].whole
<1> SUFFICES ASSUME LogInv
             PROVE  /\ Published \in Seq(Entries) /\ Len(Published) = PublishedCount
                    /\ \A k \in 1 .. PublishedCount :
                         /\ Published[k].call = mv[k].pic.call
                         /\ Published[k].frame = mv[k].pic.frame
                         /\ Published[k].whole
  OBVIOUS
<1> DEFINE c == PublishedCount
           E(k) == Entry(mv[k])
<1>1. c \in Nat /\ \A k \in 1 .. c : k \in DOMAIN mv /\ mv[k].whole = TRUE
  BY PublishedAt
<1>2. \A k \in 1 .. c : /\ E(k) \in Entries /\ E(k).whole
                        /\ E(k).call = mv[k].pic.call /\ E(k).frame = mv[k].pic.frame
  <2>. SUFFICES ASSUME NEW k \in 1 .. c
       PROVE  /\ E(k) \in Entries /\ E(k).whole
              /\ E(k).call = mv[k].pic.call /\ E(k).frame = mv[k].pic.frame
    OBVIOUS
  <2>1. mv[k].pic.call \in Nat /\ mv[k].pic.frame \in Nat /\ mv[k].whole = TRUE
    BY <1>1, PictureNumbers DEF LogInv, IInv
  <2>. QED BY <2>1 DEF Entry, Entries
<1>3. Published = [k \in 1 .. c |-> E(k)]
  BY DEF Published
<1> HIDE DEF c, E
<1>4. Published \in Seq(Entries) /\ Len(Published) = c /\ \A k \in 1 .. c : Published[k] = E(k)
  BY <1>1, <1>2, <1>3
<1>. QED BY <1>2, <1>4 DEF c

LEMMA PublishedTypeNext ==
  (LogInv => /\ Published \in Seq(Entries) /\ Len(Published) = PublishedCount
             /\ \A k \in 1 .. PublishedCount :
                  /\ Published[k].call = mv[k].pic.call /\ Published[k].frame = mv[k].pic.frame
                  /\ Published[k].whole)'
  BY PublishedType, PTL

LEMMA PublishedAtNext ==
  (LogInv => /\ PublishedCount \in Nat /\ PublishedCount <= video_frame_count
             /\ pc \in {"save", "frame", "json", "write"} => PublishedCount = video_frame_count - 1
             /\ pc \notin {"save", "frame", "json", "write", "exited", "killed"} =>
                  PublishedCount = video_frame_count
             /\ \A k \in 1 .. PublishedCount :
                  k \in DOMAIN mv /\ mv[k].pic.run = run /\ mv[k].whole = TRUE)'
  BY PublishedAt, PTL

(* Closing a file publishes its picture, in its place.                     *)
LEMMA WriteJsonPublishes == LogInv /\ LogInv' /\ WriteJson => Log!Publish
<1> SUFFICES ASSUME LogInv, LogInv', WriteJson PROVE Log!Publish
  OBVIOUS
<1> DEFINE c == video_frame_count
<1>1. /\ TypeOK /\ pc = "write" /\ pc' = "receive" /\ UNCHANGED <<c, run, call>>
      /\ mv' = Put(mv, TRUE)
  BY DEF WriteJson, LogInv, IInv
<1>2. c \in Nat /\ c > 0 /\ PublishedCount = c - 1 /\ PublishedCount' = c
  BY <1>1, PublishedAt, PublishedAtNext DEF LogInv, IInv, AtHand, TypeOK
<1>3. \A k \in DOMAIN mv : k # c => mv'[k] = mv[k]
  BY <1>1, PutFile
<1>4. /\ Published \in Seq(Entries) /\ Len(Published) = c - 1
      /\ \A k \in 1 .. c - 1 :
           /\ k \in DOMAIN mv /\ mv[k].pic.run = run
           /\ Published[k].call = mv[k].pic.call /\ Published[k].frame = mv[k].pic.frame
           /\ Published[k].whole
  BY <1>2, PublishedAt, PublishedType
<1>5. /\ Published' \in Seq(Entries) /\ Len(Published') = c
      /\ \A k \in 1 .. c :
           /\ k \in DOMAIN mv' /\ mv'[k].pic.run = run
           /\ Published'[k].call = mv'[k].pic.call /\ Published'[k].frame = mv'[k].pic.frame
           /\ Published'[k].whole
  BY <1>1, <1>2, PublishedAtNext, PublishedTypeNext DEF Entries
<1>6. \A k \in 1 .. c - 1 : Published'[k] = Published[k]
  <2>. SUFFICES ASSUME NEW k \in 1 .. c - 1 PROVE Published'[k] = Published[k]
    OBVIOUS
  <2>1. mv'[k] = mv[k] /\ k \in 1 .. PublishedCount /\ k \in 1 .. PublishedCount'
    BY <1>2, <1>3, <1>4
  <2>. QED BY <2>1 DEF Published, Entry
<1>7. \A k \in DOMAIN mv' : mv'[k].pic.run = run =>
        /\ k = 1 => mv'[k].pic.frame = 1
        /\ k + 1 \in DOMAIN mv' /\ mv'[k + 1].pic.run = run =>
             \/ /\ mv'[k + 1].pic.call = mv'[k].pic.call
                /\ mv'[k + 1].pic.frame = mv'[k].pic.frame + 1
             \/ mv'[k + 1].pic.call > mv'[k].pic.call /\ mv'[k + 1].pic.frame = 1
  BY <1>1 DEF LogInv, Order, InOrder
<1>8. Log!Follows(Published, Published'[c])
  <2>1. CASE c = 1
    <3>1. mv'[c].pic.frame = 1
      BY <1>2, <1>5, <1>7, <2>1
    <3>2. Published = <<>>
      BY <1>4, <2>1
    <3>. QED BY <1>5, <2>1, <3>1, <3>2 DEF Log!Follows
  <2>2. CASE c # 1
    <3>1. c - 1 \in 1 .. c - 1 /\ (c - 1) + 1 = c /\ c - 1 \in Nat
      BY <1>2, <2>2
    <3>2. mv'[c - 1] = mv[c - 1] /\ c - 1 \in DOMAIN mv' /\ mv'[c - 1].pic.run = run
      BY <1>2, <1>3, <1>4, <1>5, <3>1
    <3>3. \/ mv'[c].pic.call = mv[c - 1].pic.call /\ mv'[c].pic.frame = mv[c - 1].pic.frame + 1
          \/ mv'[c].pic.call > mv[c - 1].pic.call /\ mv'[c].pic.frame = 1
      <4>1. \/ /\ mv'[(c - 1) + 1].pic.call = mv'[c - 1].pic.call
               /\ mv'[(c - 1) + 1].pic.frame = mv'[c - 1].pic.frame + 1
            \/ mv'[(c - 1) + 1].pic.call > mv'[c - 1].pic.call /\ mv'[(c - 1) + 1].pic.frame = 1
        BY <1>2, <1>5, <1>7, <3>1, <3>2
      <4>. QED BY <3>1, <3>2, <4>1
    <3>4. Published # <<>> /\ Published[Len(Published)].call = mv[c - 1].pic.call
          /\ Published[Len(Published)].frame = mv[c - 1].pic.frame
      BY <1>4, <3>1
    <3>. QED BY <1>2, <1>5, <3>3, <3>4 DEF Log!Follows
  <2>. QED BY <2>1, <2>2
<1>. QED BY <1>2, <1>4, <1>5, <1>6, <1>8 DEF Log!Publish

(* No other step of a process changes what it has published.               *)
LEMMA PublishedKept ==
  ASSUME LogInv, PublishedCount' = PublishedCount,
         \A k \in DOMAIN mv : k <= PublishedCount => mv'[k] = mv[k]
  PROVE  Published' = Published
<1>1. \A k \in 1 .. PublishedCount : mv'[k] = mv[k]
  BY PublishedAt
<1>. QED BY <1>1 DEF Published, Entry

LEMMA LogStep == LogInv /\ LogInv' /\ [Next]_vars => [Log!Next]_Published
<1> SUFFICES ASSUME LogInv, LogInv', [Next]_vars PROVE Log!Next \/ Published' = Published
  OBVIOUS
<1> DEFINE c == video_frame_count
<1>1. TypeOK /\ c \in Nat /\ DOMAIN mv \subseteq Nat
  BY DEF LogInv, IInv, TypeOK
<1>2. CASE UNCHANGED <<mv, run, c>>
  BY <1>2 DEF Published, PublishedCount, Closed, Entry
<1>3. CASE Receive /\ ~UNCHANGED c
  <2>1. /\ pc = "receive" /\ pc' = "save" /\ c' = c + 1 /\ mv' = mv
    BY <1>3 DEF Receive
  <2>2. PublishedCount' = PublishedCount
    BY <1>1, <2>1, PublishedAt, PublishedAtNext
  <2>. QED BY <2>1, <2>2, PublishedKept
<1>4. CASE OpenJson /\ ~UNCHANGED mv
  <2>1. pc = "json" /\ pc' = "write" /\ c' = c /\ mv' = Put(mv, FALSE)
    BY <1>4 DEF OpenJson
  <2>2. PublishedCount' = PublishedCount /\ PublishedCount = c - 1
    BY <2>1, PublishedAt, PublishedAtNext
  <2>3. \A k \in DOMAIN mv : k <= PublishedCount => mv'[k] = mv[k]
    <3>1. \A k \in DOMAIN mv : k # c => mv'[k] = mv[k]
      BY <1>1, <2>1, PutFile
    <3>. QED BY <1>1, <2>2, <3>1
  <2>. QED BY <2>2, <2>3, PublishedKept
<1>5. CASE WriteJson
  BY <1>5, WriteJsonPublishes DEF Log!Next
<1>6. CASE Restart
  <2>1. PublishedCount' = 0
    BY <1>6 DEF Restart, PublishedCount
  <2>2. Published' \in Seq(Entries) /\ Len(Published') = 0
    BY <2>1, PublishedTypeNext DEF Entries
  <2>. QED BY <2>2 DEF Log!Next, Log!NewProcess
<1>7. CASE Call \/ OpenInput \/ OpenCodec \/ CheckStream \/ AllocRGB \/ Read \/ Send
           \/ SaveFrame \/ CloseFrame \/ End \/ Kill
  BY <1>2, <1>7 DEF Call, OpenInput, OpenCodec, CheckStream, AllocRGB, Read, Send,
     SaveFrame, CloseFrame, End, Kill
<1>8. CASE (Receive /\ UNCHANGED c) \/ (OpenJson /\ UNCHANGED mv)
  BY <1>2, <1>8 DEF Receive, OpenJson
<1>9. CASE UNCHANGED vars
  BY <1>2, <1>9 DEF vars
<1>. QED BY <1>3, <1>4, <1>5, <1>6, <1>7, <1>8, <1>9 DEF Next, Step

(* The vectors the extractor with frames closes form the log extract_mvs.c *)
(* promises its readers, for every delay and every number of processes,    *)
(* calls and packets, whatever the frames come to in between and however   *)
(* many calls have skipped the end label.                                  *)
THEOREM VectorsAreALog == Spec => ImplementsFrameLog
<1>1. Init => Log!Init
  <2>. SUFFICES ASSUME Init PROVE Published = <<>>
    BY DEF Log!Init
  <2>1. PublishedCount = 0
    BY DEF Init, PublishedCount
  <2>. QED BY <2>1 DEF Published
<1>. QED BY <1>1, LogStep, LogInvariance, PTL DEF Spec, ImplementsFrameLog, Log!Spec

--------------------------------------------------------------------------------
(* The overlay.  A frame it has opened is still that of its number, unless *)
(* a later process has come; vectors of the same process are about it.     *)
Loaded ==
  stage = "load" =>
    /\ picture.run \in Nat /\ picture.run <= run
    /\ \A idx \in todo : Current(idx) =>
         /\ picture.run = run =>
              idx \in DOMAIN frames /\ frames[idx].pic = picture /\ frames[idx].whole
         /\ mv[idx].pic.run = picture.run => mv[idx].pic = picture

(* Without a kill only a file at hand is not complete.                     *)
Uncut ==
  /\ cut \in BOOLEAN /\ quiet \in BOOLEAN
  /\ ~cut => /\ pc # "killed"
             /\ \A k \in DOMAIN mv : ~mv[k].whole => mv[k].pic.run = run
             /\ \A k \in DOMAIN frames : ~frames[k].whole => frames[k].pic.run = run

OInv ==
  /\ IInv
  /\ todo \subseteq DOMAIN mv
  /\ Loaded /\ OverlaysShowOnePicture
  /\ Uncut /\ (quiet => pc \in AtRest) /\ RaisesOnlyOverTheKilled

(* What a step of the extractor may do to files that exist.                *)
LEMMA FileSteps ==
  ASSUME IInv, Next
  PROVE  /\ DOMAIN mv \subseteq DOMAIN mv' /\ DOMAIN frames \subseteq DOMAIN frames'
         /\ run' \in Nat /\ run <= run'
         /\ \A k \in DOMAIN mv : mv'[k].pic # mv[k].pic =>
              k = video_frame_count /\ pc = "json" /\ mv'[k].pic = ThisPicture /\ run' = run
         /\ \A k \in DOMAIN mv' : \/ k \in DOMAIN mv /\ mv'[k] = mv[k]
                                 \/ mv'[k].pic.run = run
         /\ \A k \in DOMAIN frames : frames[k].whole /\ frames[k].pic.run = run =>
              frames'[k].pic = frames[k].pic /\ frames'[k].whole
         /\ \A k \in DOMAIN frames' : \/ k \in DOMAIN frames /\ frames'[k] = frames[k]
                                     \/ frames'[k].pic.run = run
<1> USE DEF IInv
<1>1. CASE UNCHANGED <<mv, frames, run>>
  BY <1>1 DEF TypeOK
<1>2. CASE Restart
  BY <1>2 DEF Restart, TypeOK
<1>3. ASSUME NEW whole \in BOOLEAN, frames' = Put(frames, whole),
             pc \in {"save", "frame"}, pc = "frame" => whole
      PROVE  /\ DOMAIN frames \subseteq DOMAIN frames'
             /\ \A k \in DOMAIN frames : frames[k].whole /\ frames[k].pic.run = run =>
                  frames'[k].pic = frames[k].pic /\ frames'[k].whole
             /\ \A k \in DOMAIN frames' : \/ k \in DOMAIN frames /\ frames'[k] = frames[k]
                                         \/ frames'[k].pic.run = run
  <2> DEFINE f == [pic |-> ThisPicture, whole |-> whole]
  <2>1. f.pic = ThisPicture /\ f.whole = whole
    OBVIOUS
  <2>2. frames' = [j \in DOMAIN frames \cup {video_frame_count} |->
                     IF j = video_frame_count THEN f ELSE frames[j]]
    BY <1>3 DEF Put
  <2> HIDE DEF f
  <2>3. /\ DOMAIN frames \subseteq DOMAIN frames'
        /\ DOMAIN frames' = DOMAIN frames \cup {video_frame_count}
        /\ frames'[video_frame_count] = f
        /\ \A j \in DOMAIN frames : j # video_frame_count => frames'[j] = frames[j]
    BY <2>2
  <2>4. \A k \in DOMAIN frames' : \/ k \in DOMAIN frames /\ frames'[k] = frames[k]
                                 \/ frames'[k].pic.run = run
    BY <2>1, <2>3, ThisPictureType
  <2>5. CASE pc = "frame"
    BY <1>3, <2>1, <2>3, <2>4, <2>5 DEF AtHand
  <2>6. CASE pc = "save"
    BY <1>3, <2>3, <2>4, <2>6 DEF Files, Frames
  <2>. QED BY <1>3, <2>3, <2>5, <2>6
<1>4. CASE SaveFrame /\ ~UNCHANGED frames
  <2>1. pc = "save" /\ frames' = Put(frames, FALSE) /\ UNCHANGED <<mv, run>>
    BY <1>4 DEF SaveFrame
  <2>2. /\ DOMAIN frames \subseteq DOMAIN frames'
        /\ \A k \in DOMAIN frames : frames[k].whole /\ frames[k].pic.run = run =>
             frames'[k].pic = frames[k].pic /\ frames'[k].whole
        /\ \A k \in DOMAIN frames' : \/ k \in DOMAIN frames /\ frames'[k] = frames[k]
                                    \/ frames'[k].pic.run = run
    BY <1>3, <2>1, Zenon
  <2>3. run' \in Nat /\ run <= run' /\ run' = run
    BY <2>1 DEF TypeOK
  <2>4. mv' = mv
    BY <2>1
  <2>. QED BY <2>2, <2>3, <2>4, Zenon
<1>5. CASE CloseFrame
  <2>1. pc = "frame" /\ frames' = Put(frames, TRUE) /\ UNCHANGED <<mv, run>>
    BY <1>5 DEF CloseFrame
  <2>2. /\ DOMAIN frames \subseteq DOMAIN frames'
        /\ \A k \in DOMAIN frames : frames[k].whole /\ frames[k].pic.run = run =>
             frames'[k].pic = frames[k].pic /\ frames'[k].whole
        /\ \A k \in DOMAIN frames' : \/ k \in DOMAIN frames /\ frames'[k] = frames[k]
                                    \/ frames'[k].pic.run = run
    BY <1>3, <2>1, Zenon
  <2>3. run' \in Nat /\ run <= run' /\ run' = run
    BY <2>1 DEF TypeOK
  <2>4. mv' = mv
    BY <2>1
  <2>. QED BY <2>2, <2>3, <2>4, Zenon
<1>6. ASSUME NEW whole \in BOOLEAN, mv' = Put(mv, whole),
             pc \in {"json", "write"}
      PROVE  /\ DOMAIN mv \subseteq DOMAIN mv'
             /\ \A k \in DOMAIN mv : mv'[k].pic # mv[k].pic =>
                  k = video_frame_count /\ pc = "json" /\ mv'[k].pic = ThisPicture
             /\ \A k \in DOMAIN mv' : \/ k \in DOMAIN mv /\ mv'[k] = mv[k]
                                     \/ mv'[k].pic.run = run
  <2> DEFINE f == [pic |-> ThisPicture, whole |-> whole]
  <2>1. f.pic = ThisPicture /\ f.whole = whole
    OBVIOUS
  <2>2. mv' = [j \in DOMAIN mv \cup {video_frame_count} |->
                 IF j = video_frame_count THEN f ELSE mv[j]]
    BY <1>6 DEF Put
  <2> HIDE DEF f
  <2>3. /\ DOMAIN mv \subseteq DOMAIN mv'
        /\ DOMAIN mv' = DOMAIN mv \cup {video_frame_count}
        /\ mv'[video_frame_count] = f
        /\ \A j \in DOMAIN mv : j # video_frame_count => mv'[j] = mv[j]
    BY <2>2
  <2>4. pc = "write" => mv[video_frame_count].pic = ThisPicture
    BY DEF AtHand
  <2>5. \A k \in DOMAIN mv' : \/ k \in DOMAIN mv /\ mv'[k] = mv[k]
                             \/ mv'[k].pic.run = run
    BY <2>1, <2>3, ThisPictureType
  <2>. QED BY <1>6, <2>1, <2>3, <2>4, <2>5
<1>7. CASE OpenJson /\ ~UNCHANGED mv
  <2>1. pc = "json" /\ mv' = Put(mv, FALSE) /\ UNCHANGED <<frames, run>>
    BY <1>7 DEF OpenJson
  <2>2. /\ DOMAIN mv \subseteq DOMAIN mv'
        /\ \A k \in DOMAIN mv : mv'[k].pic # mv[k].pic =>
             k = video_frame_count /\ pc = "json" /\ mv'[k].pic = ThisPicture
        /\ \A k \in DOMAIN mv' : \/ k \in DOMAIN mv /\ mv'[k] = mv[k]
                                \/ mv'[k].pic.run = run
    BY <1>6, <2>1, Zenon
  <2>3. run' \in Nat /\ run <= run' /\ run' = run
    BY <2>1 DEF TypeOK
  <2>4. frames' = frames
    BY <2>1
  <2>. QED BY <2>2, <2>3, <2>4, Zenon
<1>8. CASE WriteJson
  <2>1. pc = "write" /\ mv' = Put(mv, TRUE) /\ UNCHANGED <<frames, run>>
    BY <1>8 DEF WriteJson
  <2>2. /\ DOMAIN mv \subseteq DOMAIN mv'
        /\ \A k \in DOMAIN mv : mv'[k].pic # mv[k].pic =>
             k = video_frame_count /\ pc = "json" /\ mv'[k].pic = ThisPicture
        /\ \A k \in DOMAIN mv' : \/ k \in DOMAIN mv /\ mv'[k] = mv[k]
                                \/ mv'[k].pic.run = run
    BY <1>6, <2>1, Zenon
  <2>3. run' \in Nat /\ run <= run' /\ run' = run
    BY <2>1 DEF TypeOK
  <2>4. frames' = frames
    BY <2>1
  <2>. QED BY <2>2, <2>3, <2>4, Zenon
<1>9. Next => UNCHANGED <<mv, frames, run>> \/ Restart \/ (SaveFrame /\ ~UNCHANGED frames)
              \/ CloseFrame \/ (OpenJson /\ ~UNCHANGED mv) \/ WriteJson
  BY DEF Next, Step, Call, OpenInput, OpenCodec, CheckStream, AllocRGB, Read, Send,
         Receive, SaveFrame, OpenJson, End, Kill
<1>. QED BY <1>1, <1>2, <1>4, <1>5, <1>7, <1>8, <1>9

LEMMA OverlayInitInv == OverlayInit => OInv
<1> SUFFICES ASSUME OverlayInit PROVE OInv
  OBVIOUS
<1> USE DEF OverlayInit
<1>1. IInv
  BY InitInv
<1>2. /\ DOMAIN overlays = {} /\ DOMAIN mv = {} /\ DOMAIN frames = {} /\ pc = "idle"
  BY DEF Init
<1>3. Loaded /\ OverlaysShowOnePicture /\ RaisesOnlyOverTheKilled
  BY <1>2 DEF Loaded, OverlaysShowOnePicture, RaisesOnlyOverTheKilled
<1>4. Uncut
  BY <1>2 DEF Uncut
<1>. QED BY <1>1, <1>2, <1>3, <1>4 DEF OInv, AtRest

(* What a step of the overlay leaves alone.                                *)
LEMMA OverlayKeeps ==
  ASSUME OInv, UNCHANGED <<vars, cut>>, quiet' \in BOOLEAN
  PROVE  IInv' /\ Uncut'
<1>1. IInv'
  BY StutterInv DEF OInv
<1>2. Uncut'
  BY DEF OInv, Uncut, vars
<1>. QED BY <1>1, <1>2

LEMMA ListInv == OInv /\ List => OInv'
<1> SUFFICES ASSUME OInv, List PROVE OInv'
  OBVIOUS
<1> USE DEF OInv, List
<1>1. quiet' \in BOOLEAN /\ (quiet' => pc \in AtRest)
  <2>1. CASE pc \in AtRest
    <3>1. quiet' = TRUE
      BY <2>1
    <3>. QED BY <2>1, <3>1
  <2>2. CASE pc \notin AtRest
    <3> DEFINE rest == pc \in AtRest
    <3>1. quiet' = rest
      OBVIOUS
    <3>2. rest = FALSE
      BY <2>2
    <3> HIDE DEF rest
    <3>3. quiet' = FALSE
      BY <3>1, <3>2, Zenon
    <3>. QED BY <3>3
  <2>. QED BY <2>1, <2>2
<1>2. IInv' /\ Uncut'
  BY <1>1, OverlayKeeps
<1>3. /\ UNCHANGED <<mv, overlays, pc, cut>> /\ stage' # "load" /\ todo' = DOMAIN mv
      /\ stage' = "raised" => mv = <<>>
  BY DEF vars
<1>4. Loaded' /\ OverlaysShowOnePicture' /\ RaisesOnlyOverTheKilled'
  BY <1>3 DEF Loaded, OverlaysShowOnePicture, RaisesOnlyOverTheKilled
<1>. QED BY <1>1, <1>2, <1>3, <1>4 DEF AtRest

LEMMA FindFrameInv ==
  ASSUME OInv, NEW idx \in todo, FindFrame(idx)
  PROVE  OInv'
<1> USE DEF OInv
<1>1. /\ UNCHANGED <<pc, dec, frames, mv, run, video_frame_count, overlays, quiet, cut>>
      /\ UNCHANGED vars /\ Current(idx)
  BY DEF FindFrame, vars
<1>2. IInv' /\ Uncut'
  BY <1>1, OverlayKeeps DEF Uncut
<1>3. OverlaysShowOnePicture'
  BY <1>1 DEF OverlaysShowOnePicture
<1>4. quiet' => pc' \in AtRest
  BY <1>1 DEF AtRest
<1>5. todo' \subseteq DOMAIN mv'
  BY <1>1 DEF FindFrame
<1>6. Loaded'
  <2>1. CASE stage' # "load"
    BY <2>1 DEF Loaded
  <2>2. CASE stage' = "load"
    <3>1. /\ idx \in DOMAIN frames /\ frames[idx].whole /\ todo' = todo
          /\ picture' = frames[idx].pic
      BY <2>2 DEF FindFrame
    <3>2. frames[idx].pic.run \in Nat /\ frames[idx].pic.run <= run
      BY <3>1 DEF IInv, TypeOK, File, Picture, Files, Frames
    <3>3. ASSUME NEW j \in todo, \A m \in todo : j <= m PROVE j = idx
      BY <1>1, <3>3 DEF Current, IInv, TypeOK
    <3>4. mv[idx].pic.run = frames[idx].pic.run => mv[idx].pic = frames[idx].pic
      BY <3>1 DEF IInv, Files, Paired
    <3>. QED BY <1>1, <3>1, <3>2, <3>3, <3>4 DEF Loaded, Current
  <2>. QED BY <2>1, <2>2
<1>7. RaisesOnlyOverTheKilled'
  <2>1. CASE stage' # "raised"
    BY <2>1 DEF RaisesOnlyOverTheKilled
  <2>2. CASE stage' = "raised" /\ quiet /\ ~cut
    <3>1. idx \in DOMAIN frames /\ ~frames[idx].whole
      BY <2>2 DEF FindFrame
    <3>2. pc \in {"frame", "killed"} /\ pc # "killed"
      BY <2>2, <3>1 DEF Uncut, IInv, Files, Frames
    <3>. QED BY <2>2, <3>2 DEF AtRest, Dead
  <2>3. CASE ~quiet \/ cut
    BY <1>1, <2>3 DEF RaisesOnlyOverTheKilled
  <2>. QED BY <2>1, <2>2, <2>3
<1>. QED BY <1>2, <1>3, <1>4, <1>5, <1>6, <1>7

LEMMA DrawAndSaveInv ==
  ASSUME OInv, NEW idx \in todo, DrawAndSave(idx)
  PROVE  OInv'
<1> USE DEF OInv
<1>1. /\ UNCHANGED <<pc, dec, frames, mv, run, video_frame_count, quiet, cut>>
      /\ UNCHANGED vars /\ Current(idx) /\ stage = "load" /\ stage' # "load"
  BY DEF DrawAndSave, vars
<1>2. IInv' /\ Uncut'
  BY <1>1, OverlayKeeps DEF Uncut
<1>3. quiet' => pc' \in AtRest
  BY <1>1 DEF AtRest
<1>4. todo' \subseteq DOMAIN mv'
  BY <1>1 DEF DrawAndSave
<1>5. Loaded'
  BY <1>1 DEF Loaded
<1>6. OverlaysShowOnePicture'
  <2>1. CASE UNCHANGED overlays
    BY <2>1 DEF OverlaysShowOnePicture
  <2>2. CASE ~UNCHANGED overlays
    <3> DEFINE o == [frame |-> picture, mv |-> mv[idx].pic]
    <3>1. o.frame = picture /\ o.mv = mv[idx].pic
      OBVIOUS
    <3>2. overlays' = [k \in DOMAIN overlays \cup {idx} |-> IF k = idx THEN o ELSE overlays[k]]
      BY <2>2 DEF DrawAndSave
    <3> HIDE DEF o
    <3>3. o.frame.run = o.mv.run => o.frame = o.mv
      BY <1>1, <3>1 DEF Loaded
    <3>. QED BY <3>2, <3>3 DEF OverlaysShowOnePicture
  <2>. QED BY <2>1, <2>2
<1>7. RaisesOnlyOverTheKilled'
  <2>1. CASE stage' # "raised"
    BY <2>1 DEF RaisesOnlyOverTheKilled
  <2>2. CASE stage' = "raised" /\ quiet /\ ~cut
    <3>1. idx \in DOMAIN mv /\ ~mv[idx].whole
      BY <2>2 DEF DrawAndSave
    <3>2. pc \in {"write", "killed"} /\ pc # "killed"
      BY <2>2, <3>1 DEF Uncut, IInv, Files, Vectors
    <3>. QED BY <2>2, <3>2 DEF AtRest, Dead
  <2>3. CASE ~quiet \/ cut
    BY <1>1, <2>3 DEF RaisesOnlyOverTheKilled
  <2>. QED BY <2>1, <2>2, <2>3
<1>. QED BY <1>2, <1>3, <1>4, <1>5, <1>6, <1>7

LEMMA FinishInv == OInv /\ Finish => OInv'
<1> SUFFICES ASSUME OInv, Finish PROVE OInv'
  OBVIOUS
<1> USE DEF OInv, Finish
<1>1. IInv' /\ Uncut'
  BY OverlayKeeps DEF Uncut
<1>2. Loaded' /\ OverlaysShowOnePicture' /\ RaisesOnlyOverTheKilled'
  BY DEF Loaded, OverlaysShowOnePicture, RaisesOnlyOverTheKilled
<1>. QED BY <1>1, <1>2 DEF vars, AtRest

(* The extractor goes on while an overlay is made.  It can replace the     *)
(* vectors of the loaded frame only by those of that frame, or by those of *)
(* a later process.                                                        *)
LEMMA ExtractorInv == OInv /\ ExtractorStep => OInv'
<1> SUFFICES ASSUME OInv, ExtractorStep PROVE OInv'
  OBVIOUS
<1> USE DEF OInv
<1>1. IInv /\ Next /\ UNCHANGED <<stage, todo, picture, overlays, missing>>
  BY DEF ExtractorStep
<1>2. IInv'
  BY <1>1, StepInv
<1>3. /\ quiet' = (quiet /\ pc' \in AtRest)
      /\ cut' = (cut \/ pc' = "killed")
  BY DEF ExtractorStep
<1>4. /\ quiet' \in BOOLEAN /\ cut' \in BOOLEAN
      /\ quiet' => quiet /\ pc' \in AtRest
      /\ ~cut' => ~cut /\ pc' # "killed"
  BY <1>3, Zenon
<1>5. /\ DOMAIN mv \subseteq DOMAIN mv' /\ DOMAIN frames \subseteq DOMAIN frames'
      /\ run' \in Nat /\ run <= run' /\ run \in Nat
      /\ \A k \in DOMAIN mv : mv'[k].pic # mv[k].pic =>
           k = video_frame_count /\ pc = "json" /\ mv'[k].pic = ThisPicture /\ run' = run
      /\ \A k \in DOMAIN frames : frames[k].whole /\ frames[k].pic.run = run =>
           frames'[k].pic = frames[k].pic /\ frames'[k].whole
  BY <1>1, FileSteps DEF IInv, TypeOK
<1>6. /\ \A k \in DOMAIN mv' : \/ k \in DOMAIN mv /\ mv'[k] = mv[k]
                             \/ mv'[k].pic.run = run
      /\ \A k \in DOMAIN frames' : \/ k \in DOMAIN frames /\ frames'[k] = frames[k]
                                 \/ frames'[k].pic.run = run
  BY <1>1, FileSteps
<1>7. todo' \subseteq DOMAIN mv' /\ OverlaysShowOnePicture'
  BY <1>1, <1>5 DEF OverlaysShowOnePicture
<1>8. run' = run \/ Restart
  BY <1>1 DEF Next, Step, Call, OpenInput, OpenCodec, CheckStream, AllocRGB, Read, Send,
     Receive, SaveFrame, CloseFrame, OpenJson, WriteJson, End, Kill
<1>9. Uncut'
  <2>1. CASE cut'
    BY <1>4, <2>1 DEF Uncut
  <2>2. CASE ~cut' /\ run' = run
    BY <1>4, <1>6, <2>2 DEF Uncut
  <2>3. CASE ~cut' /\ Restart
    <3>1. UNCHANGED <<mv, frames>> /\ pc \in Dead \cup {"idle"} /\ pc # "killed"
      BY <1>4, <2>3 DEF Restart, Uncut
    <3>2. \A k \in DOMAIN mv : mv[k].whole
      BY <1>4, <2>3, <3>1 DEF Uncut, IInv, Files, Vectors, Dead
    <3>3. \A k \in DOMAIN frames : frames[k].whole
      BY <1>4, <2>3, <3>1 DEF Uncut, IInv, Files, Frames, Dead
    <3>. QED BY <1>4, <3>1, <3>2, <3>3 DEF Uncut
  <2>. QED BY <1>8, <2>1, <2>2, <2>3
<1>10. RaisesOnlyOverTheKilled'
  <2>1. CASE ~quiet'
    BY <2>1 DEF RaisesOnlyOverTheKilled
  <2>2. CASE quiet'
    <3>1. pc \in AtRest /\ pc' \in AtRest
      BY <1>4, <2>2
    <3>2. UNCHANGED mv
      BY <1>1, <3>1 DEF AtRest, Dead, Next, Step, Call, OpenInput, OpenCodec, CheckStream,
         AllocRGB, Read, Send, Receive, SaveFrame, CloseFrame, OpenJson, WriteJson, End,
         Kill, Restart
    <3>. QED BY <1>1, <1>4, <2>2, <3>2 DEF RaisesOnlyOverTheKilled
  <2>. QED BY <2>1, <2>2
<1>11. Loaded'
  <2>. SUFFICES ASSUME stage = "load",
                       NEW idx \in todo, \A j \in todo : idx <= j
       PROVE  /\ picture.run = run' =>
                   idx \in DOMAIN frames' /\ frames'[idx].pic = picture /\ frames'[idx].whole
              /\ mv'[idx].pic.run = picture.run => mv'[idx].pic = picture
    <3>1. stage = "load" => picture.run \in Nat /\ picture.run <= run'
      BY <1>5 DEF Loaded
    <3>. QED BY <1>1, <3>1 DEF Loaded, Current
  <2>1. /\ picture.run \in Nat /\ picture.run <= run /\ idx \in DOMAIN mv
        /\ picture.run = run =>
             idx \in DOMAIN frames /\ frames[idx].pic = picture /\ frames[idx].whole
        /\ mv[idx].pic.run = picture.run => mv[idx].pic = picture
    BY DEF Loaded, Current
  <2>2. picture.run = run' =>
          idx \in DOMAIN frames' /\ frames'[idx].pic = picture /\ frames'[idx].whole
    BY <1>5, <2>1
  <2>3. CASE mv'[idx].pic = mv[idx].pic
    BY <2>1, <2>2, <2>3
  <2>4. CASE mv'[idx].pic # mv[idx].pic
    <3>1. idx = video_frame_count /\ pc = "json" /\ mv'[idx].pic = ThisPicture
      BY <1>5, <2>1, <2>4
    <3>2. ThisPicture.run = run
      BY ThisPictureType DEF IInv
    <3>3. picture.run = run => picture = ThisPicture
      BY <1>5, <2>1, <3>1 DEF IInv, AtHand
    <3>. QED BY <2>2, <3>1, <3>2, <3>3
  <2>. QED BY <2>3, <2>4
<1>. QED BY <1>2, <1>4, <1>7, <1>9, <1>10, <1>11

LEMMA OverlayStutter == OInv /\ UNCHANGED <<vars, overlayVars>> => OInv'
<1> SUFFICES ASSUME OInv, UNCHANGED <<vars, overlayVars>> PROVE OInv'
  OBVIOUS
<1> USE DEF OInv, overlayVars
<1>1. IInv' /\ Uncut'
  BY OverlayKeeps DEF Uncut
<1>2. Loaded' /\ OverlaysShowOnePicture' /\ RaisesOnlyOverTheKilled'
  BY DEF Loaded, Current, OverlaysShowOnePicture, RaisesOnlyOverTheKilled, vars
<1>. QED BY <1>1, <1>2 DEF vars, AtRest

LEMMA OverlayInvariance == OverlaySpec => []OInv
<1>1. OInv /\ [OverlayNext]_<<vars, overlayVars>> => OInv'
  BY ListInv, FindFrameInv, DrawAndSaveInv, FinishInv, ExtractorInv, OverlayStutter
  DEF OverlayNext, OverlayStep
<1>. QED BY <1>1, OverlayInitInv, PTL DEF OverlaySpec

(* Frame and vectors of an overlay, if one process wrote them, are of one  *)
(* picture, although they are read at different times from directories     *)
(* that process may be writing.                                            *)
THEOREM OneProcessOnePicture == OverlaySpec => []OverlaysShowOnePicture
<1>1. OInv => OverlaysShowOnePicture
  BY DEF OInv
<1>. QED BY <1>1, OverlayInvariance, PTL

(* Over directories at rest the overlay raises only when they have no      *)
(* vectors, or when some process was killed.                               *)
THEOREM OnlyKillsRaise == OverlaySpec => []RaisesOnlyOverTheKilled
<1>1. OInv => RaisesOnlyOverTheKilled
  BY DEF OInv
<1>. QED BY <1>1, OverlayInvariance, PTL

--------------------------------------------------------------------------------
(* While the directories rest, the overlay goes through the listed numbers *)
(* in order and leaves none out.                                           *)
Progress ==
  /\ stage = "idle" => DOMAIN overlays = {} /\ missing = {}
  /\ quiet /\ stage \in {"next", "load", "returned"} =>
       /\ \A k \in DOMAIN overlays : overlays[k].mv = mv[k].pic
       /\ DOMAIN overlays \cup missing \cup todo = DOMAIN mv
       /\ \A k \in DOMAIN overlays \cup missing, j \in todo : k < j

LEMMA ProgressStep ==
  OInv /\ Progress /\ [OverlayNext]_<<vars, overlayVars>> => Progress'
<1> SUFFICES ASSUME OInv, Progress, [OverlayNext]_<<vars, overlayVars>> PROVE Progress'
  OBVIOUS
<1>1. CASE UNCHANGED <<vars, overlayVars>>
  BY <1>1 DEF Progress, vars, overlayVars
<1>2. CASE List
  BY <1>2 DEF Progress, List, vars
<1>3. CASE Finish
  BY <1>3 DEF Progress, Finish, vars
<1>4. ASSUME NEW idx \in todo, FindFrame(idx) PROVE Progress'
  <2>1. /\ stage = "next" /\ UNCHANGED <<mv, overlays, quiet>> /\ todo \subseteq Nat
        /\ stage' # "idle" /\ \A j \in todo : idx <= j
    BY <1>4 DEF FindFrame, vars, Current, OInv, IInv, TypeOK
  <2>2. CASE todo' = todo /\ missing' = missing
    BY <2>1, <2>2 DEF Progress
  <2>3. CASE todo' = todo \ {idx} /\ missing' = missing \cup {idx}
    <3>. SUFFICES ASSUME quiet
         PROVE  /\ \A k \in DOMAIN overlays : overlays[k].mv = mv[k].pic
                /\ DOMAIN overlays \cup missing' \cup todo' = DOMAIN mv
                /\ \A k \in DOMAIN overlays \cup missing', j \in todo' : k < j
      BY <2>1 DEF Progress
    <3>1. /\ \A k \in DOMAIN overlays : overlays[k].mv = mv[k].pic
          /\ DOMAIN overlays \cup missing \cup todo = DOMAIN mv
          /\ \A k \in DOMAIN overlays \cup missing, j \in todo : k < j
      BY <2>1 DEF Progress
    <3>2. \A j \in todo' : idx < j
      BY <2>1, <2>3
    <3>3. \A k \in DOMAIN overlays \cup missing', j \in todo' : k < j
      BY <2>3, <3>1, <3>2
    <3>4. DOMAIN overlays \cup missing' \cup todo' = DOMAIN mv
      BY <2>3, <3>1
    <3>. QED BY <3>1, <3>3, <3>4
  <2>. QED BY <1>4, <2>2, <2>3 DEF FindFrame
<1>5. ASSUME NEW idx \in todo, DrawAndSave(idx) PROVE Progress'
  <2>1. /\ stage = "load" /\ UNCHANGED <<mv, missing, quiet>> /\ todo \subseteq Nat
        /\ stage' # "idle" /\ \A j \in todo : idx <= j
    BY <1>5 DEF DrawAndSave, vars, Current, OInv, IInv, TypeOK
  <2>2. CASE stage' = "raised"
    BY <2>1, <2>2 DEF Progress
  <2>3. CASE stage' # "raised"
    <3> DEFINE o == [frame |-> picture, mv |-> mv[idx].pic]
    <3>1. o.mv = mv[idx].pic
      OBVIOUS
    <3>2. /\ overlays' = [k \in DOMAIN overlays \cup {idx} |-> IF k = idx THEN o ELSE overlays[k]]
          /\ todo' = todo \ {idx}
      BY <1>5, <2>3 DEF DrawAndSave
    <3> HIDE DEF o
    <3>3. /\ DOMAIN overlays' = DOMAIN overlays \cup {idx} /\ overlays'[idx].mv = mv[idx].pic
          /\ \A k \in DOMAIN overlays : k # idx => overlays'[k] = overlays[k]
      BY <3>1, <3>2
    <3>. SUFFICES ASSUME quiet
         PROVE  /\ \A k \in DOMAIN overlays' : overlays'[k].mv = mv[k].pic
                /\ DOMAIN overlays' \cup missing \cup todo' = DOMAIN mv
                /\ \A k \in DOMAIN overlays' \cup missing, j \in todo' : k < j
      BY <2>1 DEF Progress
    <3>4. /\ \A k \in DOMAIN overlays : overlays[k].mv = mv[k].pic
          /\ DOMAIN overlays \cup missing \cup todo = DOMAIN mv
          /\ \A k \in DOMAIN overlays \cup missing, j \in todo : k < j
      BY <2>1 DEF Progress
    <3>5. \A k \in DOMAIN overlays' : overlays'[k].mv = mv[k].pic
      BY <3>3, <3>4
    <3>6. \A j \in todo' : idx < j
      BY <2>1, <3>2
    <3>7. \A k \in DOMAIN overlays' \cup missing, j \in todo' : k < j
      BY <3>2, <3>3, <3>4, <3>6
    <3>8. DOMAIN overlays' \cup missing \cup todo' = DOMAIN mv
      BY <3>2, <3>3, <3>4
    <3>. QED BY <3>5, <3>7, <3>8
  <2>. QED BY <2>2, <2>3
<1>6. CASE ExtractorStep
  <2>1. UNCHANGED <<stage, todo, overlays, missing>>
    BY <1>6 DEF ExtractorStep
  <2>2. CASE ~quiet'
    BY <2>1, <2>2 DEF Progress
  <2>3. CASE quiet'
    <3>1. quiet' = (quiet /\ pc' \in AtRest)
      BY <1>6 DEF ExtractorStep
    <3>2. quiet /\ pc' \in AtRest
      BY <2>3, <3>1, Zenon
    <3>3. pc \in AtRest /\ Next
      BY <1>6, <3>2 DEF OInv, ExtractorStep
    <3>4. UNCHANGED mv
      BY <3>2, <3>3 DEF AtRest, Dead, Next, Step, Call, OpenInput, OpenCodec, CheckStream,
         AllocRGB, Read, Send, Receive, SaveFrame, CloseFrame, OpenJson, WriteJson, End,
         Kill, Restart
    <3>. QED BY <2>1, <3>2, <3>4 DEF Progress
  <2>. QED BY <2>2, <2>3
<1>. QED BY <1>1, <1>2, <1>3, <1>4, <1>5, <1>6 DEF OverlayNext, OverlayStep

(* Over directories at rest nothing but numbers without a frame is left    *)
(* out, and the overlays up to the counter of the last process, and only   *)
(* those, have its vectors.                                                *)
THEOREM OverlaysAreComplete == OverlaySpec => []QuietOverlays
<1>1. OverlayInit => Progress
  BY DEF OverlayInit, Progress
<1>2. OInv /\ Progress => QuietOverlays
  <2> SUFFICES ASSUME OInv, Progress, quiet, stage \in {"next", "load", "returned"},
                      run = mv[1].pic.run
               PROVE  /\ \A k \in DOMAIN overlays :
                           /\ k < video_frame_count \/ (k = video_frame_count /\ pc = "idle")
                                => overlays[k].mv.run = run
                           /\ k > video_frame_count => overlays[k].mv.run < run
                      /\ DOMAIN overlays \cup missing \cup todo = DOMAIN mv
                      /\ \A k \in DOMAIN overlays \cup missing, j \in todo : k < j
    BY DEF QuietOverlays
  <2>1. ASSUME NEW k \in DOMAIN overlays
        PROVE  /\ k < video_frame_count \/ (k = video_frame_count /\ pc = "idle")
                    => overlays[k].mv.run = run
               /\ k > video_frame_count => overlays[k].mv.run < run
    <3>1. /\ overlays[k].mv = mv[k].pic /\ k \in DOMAIN mv /\ k \in Nat \ {0}
          /\ video_frame_count \in Nat /\ run \in Nat /\ mv[k].pic.run \in Nat
      BY DEF Progress, OInv, IInv, TypeOK, File, Picture
    <3>2. k < video_frame_count \/ (k = video_frame_count /\ pc = "idle")
            => mv[k].pic.run = run
      BY <3>1 DEF OInv, IInv, Files, Counted
    <3>3. k > video_frame_count => mv[k].pic.run < run
      BY <3>1 DEF OInv, IInv, Files, Vectors
    <3>. QED BY <3>1, <3>2, <3>3
  <2>. QED BY <2>1 DEF Progress
<1>. QED BY <1>1, <1>2, OverlayInvariance, ProgressStep, PTL DEF OverlaySpec

--------------------------------------------------------------------------------
(* What is left to do in a call: packets and the flush, the pictures that  *)
(* may come out before the next packet, and the way to that packet.        *)
Flushing == pkt = "null" /\ pc \in {"send", "receive", "save", "frame", "json", "write"}

Rounds ==
  IF Flushing \/ pc \in Dead \cup {"idle", "end"} THEN 0 ELSE MaxPackets - reads + 1

Pictures == Deliverable(dec) + (IF pc = "send" /\ pkt # "null" THEN 1 ELSE 0)

Way ==
  CASE pc = "open"    -> 12
    [] pc = "codec"   -> 11
    [] pc = "check"   -> 10
    [] pc = "alloc"   -> 9
    [] pc = "send"    -> 8
    [] pc = "save"    -> 7
    [] pc = "frame"   -> 6
    [] pc = "json"    -> 5
    [] pc = "write"   -> 4
    [] pc = "receive" -> 3
    [] pc = "read"    -> 2
    [] pc = "end"     -> 1
    [] OTHER          -> 0

Left == <<Rounds, Pictures, Way>>

Bounded == reads <= MaxPackets

LEMMA BoundedInductive == Spec => [](LogInv /\ Bounded)
<1>1. Init => Bounded
  BY FramesBoundsAssumption DEF Init, Bounded
<1>2. LogInv /\ Bounded /\ [Next]_vars => Bounded'
  <2>1. LogInv => reads \in Nat
    BY DEF LogInv, IInv, TypeOK
  <2>2. Restart => Bounded'
    BY FramesBoundsAssumption DEF Restart, Bounded
  <2>3. reads \in Nat /\ Bounded /\ Read => Bounded'
    BY FramesBoundsAssumption DEF Read, Bounded
  <2>4. [Next]_vars => Restart \/ Read \/ reads' = reads
    BY DEF Next, Step, vars, Call, OpenInput, OpenCodec, CheckStream, AllocRGB, Send,
           Receive, SaveFrame, CloseFrame, OpenJson, WriteJson, End, Kill
  <2>. QED BY <2>1, <2>2, <2>3, <2>4 DEF Bounded
<1>. QED BY <1>1, <1>2, LogInvariance, PTL DEF Spec

LEMMA LeftType == LogInv /\ Bounded => Left \in Counts
<1> SUFFICES ASSUME LogInv, Bounded PROVE Left \in Counts
  OBVIOUS
<1>1. reads \in Nat /\ Deliverable(dec) \in Nat /\ MaxPackets \in Nat
  BY DeliverableType, FramesBoundsAssumption DEF Bounded, LogInv, IInv, TypeOK
<1>2. Rounds \in Nat
  BY <1>1 DEF Rounds, Bounded
<1>3. Pictures \in Nat
  BY <1>1 DEF Pictures
<1>4. Way \in Nat
  BY DEF Way
<1>. QED BY <1>2, <1>3, <1>4 DEF Left, Counts

LEMMA LeftTypeNext == (LogInv /\ Bounded => Left \in Counts)'
  BY LeftType, PTL

LEMMA StepFalls ==
  LogInv /\ Bounded /\ LogInv' /\ Bounded' /\ Step => Less(Left', Left)
<1> SUFFICES ASSUME LogInv, Bounded, LogInv', Bounded', Step
             PROVE  Less(Left', Left)
  OBVIOUS
<1>1. /\ Left \in Counts /\ Left[1] = Rounds /\ Left[2] = Pictures /\ Left[3] = Way
      /\ Left' \in Counts /\ Left'[1] = Rounds' /\ Left'[2] = Pictures' /\ Left'[3] = Way'
  BY LeftType, LeftTypeNext DEF Left
<1>2. /\ MaxPackets \in Nat /\ reads \in 0 .. MaxPackets
      /\ dec \in Codec /\ Deliverable(dec) \in Nat /\ Deliverable(dec') \in Nat
      /\ pkt \in Packets
  BY DeliverableType, FramesBoundsAssumption DEF Bounded, LogInv, IInv, TypeOK
<1>3. CASE OpenInput \/ CheckStream \/ AllocRGB
  <2>1. /\ UNCHANGED <<dec, pkt, reads>>
        /\ \/ pc = "open" /\ pc' \in {"exited", "codec"}
           \/ pc = "check" /\ pc' \in {"end", "alloc"}
           \/ pc = "alloc" /\ pc' \in {"idle", "read", "crashed"}
    BY <1>3 DEF OpenInput, CheckStream, AllocRGB
  <2>2. Rounds' <= Rounds
    BY <1>2, <2>1 DEF Rounds, Flushing, Dead
  <2>3. Pictures' <= Pictures
    BY <1>2, <2>1 DEF Pictures
  <2>4. Way' < Way
    BY <2>1 DEF Way
  <2>. QED BY <1>1, <2>2, <2>3, <2>4, LessByThird
<1>4. CASE OpenCodec
  <2>1. Deliverable(Opened) = 0
    BY DEF Opened, Context, Deliverable, Undelivered
  <2>2. Rounds' <= Rounds /\ Pictures' <= Pictures /\ Way' < Way
    BY <1>2, <1>4, <2>1 DEF OpenCodec, Rounds, Flushing, Pictures, Way, Dead
  <2>. QED BY <1>1, <2>2, LessByThird
<1>5. CASE Read
  <2>1. Rounds' < Rounds
    BY <1>2, <1>5 DEF Read, Rounds, Flushing, Dead
  <2>. QED BY <1>1, <2>1, LessByFirst
<1>6. CASE Send
  <2>1. PICK o \in SendPacket(dec, pkt) :
          /\ dec' = o.dec
          /\ IF o.ret = "ok" THEN pc' = "receive" /\ UNCHANGED pkt ELSE Return(TRUE)
    BY <1>6 DEF Send
  <2>2. Deliverable(dec') <= Deliverable(dec) + (IF pkt = "null" THEN 0 ELSE 1)
    BY <1>2, <2>1, DeliverableSent
  <2>3. pc = "send" /\ reads' = reads
    BY <1>6 DEF Send
  <2>4. CASE pc' = "send" /\ pkt # "null" /\ pkt' = "null"
    <3>1. Rounds' < Rounds
      BY <1>2, <2>3, <2>4 DEF Rounds, Flushing, Dead
    <3>. QED BY <1>1, <3>1, LessByFirst
  <2>5. CASE (pc' = "receive" \/ (pc' = "end" /\ pkt = "null")) /\ UNCHANGED pkt
    <3>1. Rounds' <= Rounds /\ Pictures' <= Pictures /\ Way' < Way
      BY <1>2, <2>2, <2>3, <2>5 DEF Rounds, Flushing, Pictures, Way, Dead
    <3>. QED BY <1>1, <3>1, LessByThird
  <2>. QED BY <2>1, <2>4, <2>5 DEF Return
<1>7. CASE Receive
  <2>1. PICK o \in ReceiveFrame(dec) :
          /\ dec' = o.dec
          /\ IF o.ret = "ok" THEN pc' = "save" /\ UNCHANGED pkt ELSE Return(o.ret = "error")
    BY <1>7 DEF Receive
  <2>2. /\ Deliverable(dec') <= Deliverable(dec)
        /\ o.ret = "ok" => Deliverable(dec') < Deliverable(dec)
    BY <1>2, <2>1, DeliverableReceived
  <2>3. pc = "receive" /\ reads' = reads
    BY <1>7 DEF Receive
  <2>4. CASE o.ret = "ok"
    <3>1. Rounds' <= Rounds /\ Pictures' < Pictures
      BY <1>2, <2>1, <2>2, <2>3, <2>4 DEF Rounds, Flushing, Pictures, Dead
    <3>. QED BY <1>1, <3>1, LessBySecond
  <2>5. CASE pc' = "send" /\ pkt # "null" /\ pkt' = "null"
    <3>1. Rounds' < Rounds
      BY <1>2, <2>3, <2>5 DEF Rounds, Flushing, Dead
    <3>. QED BY <1>1, <3>1, LessByFirst
  <2>6. CASE ((pc' = "read" /\ pkt # "null") \/ (pc' = "end" /\ pkt = "null")) /\ UNCHANGED pkt
    <3>1. Rounds' <= Rounds /\ Pictures' <= Pictures /\ Way' < Way
      BY <1>2, <2>2, <2>3, <2>6 DEF Rounds, Flushing, Pictures, Way, Dead
    <3>. QED BY <1>1, <3>1, LessByThird
  <2>. QED BY <2>1, <2>4, <2>5, <2>6 DEF Return
<1>8. CASE SaveFrame \/ CloseFrame \/ OpenJson \/ WriteJson
  <2>1. /\ UNCHANGED <<dec, pkt, reads>>
        /\ \/ pc = "save" /\ pc' \in {"frame", "json"}
           \/ pc = "frame" /\ pc' = "json"
           \/ pc = "json" /\ pc' \in {"exited", "write"}
           \/ pc = "write" /\ pc' = "receive"
    BY <1>8 DEF SaveFrame, CloseFrame, OpenJson, WriteJson
  <2>2. Rounds' <= Rounds
    BY <1>2, <2>1 DEF Rounds, Flushing, Dead
  <2>3. Pictures' <= Pictures
    BY <1>2, <2>1 DEF Pictures
  <2>4. Way' < Way
    BY <2>1 DEF Way
  <2>. QED BY <1>1, <2>2, <2>3, <2>4, LessByThird
<1>9. CASE End
  <2>1. Deliverable(NoCodec) = 0
    BY DEF NoCodec, Context, Deliverable, Undelivered
  <2>2. Rounds' <= Rounds /\ Pictures' <= Pictures /\ Way' < Way
    BY <1>2, <1>9, <2>1 DEF End, Rounds, Flushing, Pictures, Way, Dead
  <2>. QED BY <1>1, <2>2, LessByThird
<1>. QED BY <1>3, <1>4, <1>5, <1>6, <1>7, <1>8, <1>9 DEF Step

(* Every statement of a call leaves less to do, in an order in which       *)
(* nothing goes down for ever; a call that starts from a context or an     *)
(* input another call left open runs out like the others.                  *)
THEOREM CallsRunOut == Spec => [](Left \in Counts) /\ [][Step => Less(Left', Left)]_vars
<1>1. /\ LogInv /\ Bounded
      /\ (LogInv /\ Bounded)'
      /\ [Next]_vars
      => [Step => Less(Left', Left)]_vars
  BY StepFalls
<1>. QED BY <1>1, LeftType, BoundedInductive, PTL DEF Spec

--------------------------------------------------------------------------------
(* The files of vectors of a process, and the pictures that may still      *)
(* come, are those of the packets it has read.                             *)
FromPackets == video_frame_count + Pictures <= reads

LEMMA FromPacketsStep == IInv /\ IInv' /\ FromPackets /\ [Next]_vars => FromPackets'
<1> SUFFICES ASSUME IInv, IInv', FromPackets, [Next]_vars PROVE FromPackets'
  OBVIOUS
<1>1. /\ video_frame_count \in Nat /\ reads \in Nat /\ dec \in Codec /\ pkt \in Packets
      /\ Deliverable(dec) \in Nat /\ Deliverable(dec') \in Nat
  BY DeliverableType DEF IInv, TypeOK
<1>2. Deliverable(NoCodec) = 0 /\ Deliverable(Opened) = 0
  BY DEF NoCodec, Opened, Context, Deliverable, Undelivered
<1>3. CASE Restart
  <2>1. dec' = NoCodec /\ pc' = "idle" /\ video_frame_count' = 0 /\ reads' = 0
    BY <1>3 DEF Restart
  <2>. QED BY <1>2, <2>1 DEF FromPackets, Pictures
<1>4. CASE \/ Call \/ OpenInput \/ OpenCodec \/ CheckStream \/ AllocRGB \/ SaveFrame
           \/ CloseFrame \/ OpenJson \/ WriteJson \/ End \/ Kill
  <2>1. /\ dec' \in {dec, NoCodec, Opened} /\ pc' # "send"
        /\ UNCHANGED <<video_frame_count, reads>>
    BY <1>4 DEF Call, OpenInput, OpenCodec, CheckStream, AllocRGB, SaveFrame, CloseFrame,
                OpenJson, WriteJson, End, Kill
  <2>. QED BY <1>1, <1>2, <2>1 DEF FromPackets, Pictures
<1>5. CASE Read
  <2>1. /\ pc = "read" /\ UNCHANGED <<dec, video_frame_count>>
        /\ \/ pkt' = "null" /\ reads' = reads
           \/ reads' = reads + 1
    BY <1>5 DEF Read
  <2>. QED BY <1>1, <2>1 DEF FromPackets, Pictures
<1>6. CASE Send
  <2>1. /\ pc = "send" /\ UNCHANGED <<video_frame_count, reads>>
        /\ \E o \in SendPacket(dec, pkt) : dec' = o.dec
        /\ pc' # "send" \/ pkt' = "null"
    BY <1>6 DEF Send, Return
  <2>2. Deliverable(dec') <= Deliverable(dec) + (IF pkt = "null" THEN 0 ELSE 1)
    BY <1>1, <2>1, DeliverableSent
  <2>. QED BY <1>1, <2>1, <2>2 DEF FromPackets, Pictures
<1>7. CASE Receive
  <2>1. PICK o \in ReceiveFrame(dec) :
          /\ dec' = o.dec
          /\ IF o.ret = "ok" THEN pc' = "save" /\ video_frame_count' = video_frame_count + 1
             ELSE Return(o.ret = "error") /\ UNCHANGED video_frame_count
    BY <1>7 DEF Receive
  <2>2. Return(o.ret = "error") => pc' # "send" \/ pkt' = "null"
    BY DEF Return
  <2>3. /\ Deliverable(dec') <= Deliverable(dec)
        /\ o.ret = "ok" => Deliverable(dec') < Deliverable(dec)
    BY <1>1, <2>1, DeliverableReceived
  <2>4. pc = "receive" /\ UNCHANGED reads
    BY <1>7 DEF Receive
  <2>. QED BY <1>1, <2>1, <2>2, <2>3, <2>4 DEF FromPackets, Pictures
<1>8. CASE UNCHANGED vars
  BY <1>8 DEF vars, FromPackets, Pictures
<1>. QED BY <1>3, <1>4, <1>5, <1>6, <1>7, <1>8 DEF Next, Step

LEMMA FromPacketsInductive == Spec => []FromPackets
<1>1. Init => FromPackets
  BY DEF Init, FromPackets, Pictures, NoCodec, Context, Deliverable, Undelivered
<1>. QED BY <1>1, FromPacketsStep, Invariance, PTL DEF Spec

(* A process never numbers more pictures than it has read packets, over    *)
(* all its calls, those that start from a context left open included.      *)
THEOREM NoFileWithoutPacket == Spec => [](video_frame_count <= reads)
<1>1. IInv /\ FromPackets => video_frame_count <= reads
  <2>. SUFFICES ASSUME IInv, FromPackets PROVE video_frame_count <= reads
    OBVIOUS
  <2>1. Deliverable(dec) \in Nat /\ video_frame_count \in Nat /\ reads \in Nat
    BY DeliverableType DEF IInv, TypeOK
  <2>. QED BY <2>1 DEF FromPackets, Pictures
<1>. QED BY <1>1, FromPacketsInductive, Invariance, PTL

--------------------------------------------------------------------------------
(* One process of the extractor, seen as the library "emv_frames" of an    *)
(* interpreter that has made one object of its class: its place in a call, *)
(* its counter, and the files of the process itself.                       *)
Libraries == {"emv", "emv_frames"}

Own(d) == {k \in DOMAIN d : d[k].pic.run = run}

Place ==
  CASE pc \in {"open", "codec", "check", "alloc", "read", "send", "receive", "end"} -> "decode"
    [] pc \in {"save", "frame"} -> "save"
    [] pc = "json"              -> "json"
    [] pc = "write"             -> "write"
    [] OTHER                    -> "idle"

Objects == [l \in Libraries |-> IF l = "emv" THEN "none" ELSE "mv"]
Places == [l \in Libraries |-> IF l = "emv" THEN "idle" ELSE Place]
Counters == [l \in Libraries |-> IF l = "emv" THEN 0 ELSE video_frame_count]
OwnFrames == {k \in Own(frames) : frames[k].whole}
OwnVectors ==
  [k \in Own(mv) |-> [lib |-> "emv_frames", whole |-> mv[k].whole, shared |-> FALSE]]

W == INSTANCE Wrapper
       WITH OutputDirs <- {"mv"}, MaxPictures <- MaxPackets, object <- Objects,
            dirs <- {"mv", "frames"}, pc <- Places, video_frame_count <- Counters,
            frames <- OwnFrames, mv <- OwnVectors

(* As the constructor leaves an interpreter that has just started.         *)
Constructed ==
  /\ Places = [l \in Libraries |-> "idle"] /\ Counters = [l \in Libraries |-> 0]
  /\ OwnFrames = {} /\ OwnVectors = [k \in {} |-> 0]

LEMMA PlacesMove ==
  Places' = [Places EXCEPT !["emv_frames"] = Place'] /\ Places["emv_frames"] = Place
  BY DEF Places, Libraries

LEMMA LibraryRuns == W!Running /\ "emv_frames" \in W!Libs /\ Objects["emv_frames"] = "mv"
  BY DEF W!Running, W!Libs, Places, Libraries, Place, Objects

(* A step that ends a call, or goes on decoding.                           *)
LEMMA DecodingSteps ==
  ASSUME UNCHANGED <<video_frame_count, frames, mv, run>>,
         Place = "decode", Place' \in {"decode", "idle"}
  PROVE  [W!Next]_(W!vars)
<1>1. UNCHANGED <<Objects, Counters, OwnFrames, OwnVectors>>
  BY DEF Objects, Counters, OwnFrames, OwnVectors, Own
<1>2. CASE Place' = "decode"
  BY <1>1, <1>2 DEF W!vars, Places
<1>3. CASE Place' = "idle"
  <2>1. W!Receive("emv_frames")
    BY <1>1, <1>3, PlacesMove, LibraryRuns DEF W!Receive
  <2>. QED BY <2>1, LibraryRuns DEF W!Next
<1>. QED BY <1>2, <1>3

LEMMA CallStep == Call => W!Next
<1> SUFFICES ASSUME Call PROVE W!Next
  OBVIOUS
<1>1. Place = "idle" /\ Place' = "decode"
  BY DEF Call, Place
<1>2. UNCHANGED <<Objects, Counters, OwnFrames, OwnVectors>>
  BY DEF Call, Objects, Counters, OwnFrames, OwnVectors, Own
<1>3. W!Call("emv_frames")
  BY <1>1, <1>2, PlacesMove, LibraryRuns DEF W!Call
<1>. QED BY <1>3, LibraryRuns DEF W!Next

LEMMA ReceiveStep ==
  ASSUME IInv, IInv', FromPackets, Bounded, Receive
  PROVE  [W!Next]_(W!vars)
<1>1. PICK o \in ReceiveFrame(dec) :
        /\ dec' = o.dec
        /\ IF o.ret = "ok" THEN pc' = "save" /\ video_frame_count' = video_frame_count + 1
           ELSE Return(o.ret = "error") /\ UNCHANGED video_frame_count
  BY DEF Receive
<1>2. pc = "receive" /\ UNCHANGED <<frames, mv, run>>
  BY DEF Receive
<1>3. CASE o.ret # "ok"
  <2>1. Return(o.ret = "error") => pc' \in {"end", "send", "read"}
    BY DEF Return
  <2>2. Place = "decode" /\ Place' = "decode"
    BY <1>1, <1>2, <1>3, <2>1 DEF Place
  <2>. QED BY <1>1, <1>2, <1>3, <2>2, DecodingSteps
<1>4. CASE o.ret = "ok"
  <2>1. Place = "decode" /\ Place' = "save"
    BY <1>1, <1>2, <1>4 DEF Place
  <2>2. /\ video_frame_count \in Nat /\ reads \in Nat /\ dec \in Codec
        /\ Deliverable(dec) \in Nat /\ Deliverable(dec') \in Nat
    BY DeliverableType DEF IInv, TypeOK
  <2>3. Deliverable(dec') < Deliverable(dec)
    BY <1>1, <1>4, <2>2, DeliverableReceived
  <2>4. video_frame_count < MaxPackets
    BY <1>2, <2>2, <2>3, FramesBoundsAssumption DEF FromPackets, Pictures, Bounded
  <2>5. /\ Counters["emv_frames"] = video_frame_count
        /\ Counters' = [Counters EXCEPT !["emv_frames"] = @ + 1]
    BY <1>1, <1>4 DEF Counters, Libraries
  <2>6. UNCHANGED <<Objects, OwnFrames, OwnVectors>>
    BY <1>2 DEF Objects, OwnFrames, OwnVectors, Own
  <2>7. W!Receive("emv_frames")
    BY <2>1, <2>4, <2>5, <2>6, PlacesMove, LibraryRuns DEF W!Receive
  <2>. QED BY <2>7, LibraryRuns DEF W!Next
<1>. QED BY <1>3, <1>4

LEMMA SaveFrameStep == ASSUME IInv, SaveFrame PROVE [W!Next]_(W!vars)
<1>1. pc = "save" /\ UNCHANGED <<video_frame_count, mv, run>>
  BY DEF SaveFrame
<1>2. UNCHANGED <<Objects, Counters, OwnVectors>>
  BY <1>1 DEF Objects, Counters, OwnVectors, Own
<1>3. CASE pc' = "json" /\ UNCHANGED frames
  <2>1. Place = "save" /\ Place' = "json" /\ OwnFrames' = OwnFrames
    BY <1>1, <1>3 DEF Place, OwnFrames, Own
  <2>2. W!SaveFrame("emv_frames")
    BY <1>2, <2>1, PlacesMove, LibraryRuns DEF W!SaveFrame
  <2>. QED BY <2>2, LibraryRuns DEF W!Next
<1>4. CASE pc' = "frame" /\ frames' = Put(frames, FALSE)
  <2>1. Place' = Place
    BY <1>1, <1>4 DEF Place
  <2>2. ~(video_frame_count \in DOMAIN frames /\ frames[video_frame_count].pic.run = run)
    BY <1>1 DEF IInv, Files, Frames
  <2>3. /\ DOMAIN frames' = DOMAIN frames \cup {video_frame_count}
        /\ ~frames'[video_frame_count].whole
        /\ \A k \in DOMAIN frames : k # video_frame_count => frames'[k] = frames[k]
    BY <1>4 DEF Put
  <2>4. OwnFrames' = OwnFrames
    BY <1>1, <2>2, <2>3 DEF OwnFrames, Own
  <2>. QED BY <1>2, <2>1, <2>4 DEF W!vars, Places
<1>. QED BY <1>3, <1>4 DEF SaveFrame

LEMMA CloseFrameStep == ASSUME IInv, CloseFrame PROVE W!Next
<1>1. pc = "frame" /\ pc' = "json" /\ UNCHANGED <<video_frame_count, mv, run>>
  BY DEF CloseFrame
<1>2. UNCHANGED <<Objects, OwnVectors>> /\ UNCHANGED Counters
  BY <1>1 DEF Objects, Counters, OwnVectors, Own
<1>3. Place = "save" /\ Place' = "json"
  BY <1>1 DEF Place
<1>4. /\ DOMAIN frames' = DOMAIN frames \cup {video_frame_count}
      /\ frames'[video_frame_count].whole
      /\ frames'[video_frame_count].pic.run = run
      /\ \A k \in DOMAIN frames : k # video_frame_count => frames'[k] = frames[k]
  BY DEF CloseFrame, Put, ThisPicture
<1>5. OwnFrames' = OwnFrames \cup {video_frame_count}
  BY <1>1, <1>4 DEF OwnFrames, Own
<1>6. Counters["emv_frames"] = video_frame_count
  BY DEF Counters, Libraries
<1>7. W!SaveFrame("emv_frames")
  BY <1>2, <1>3, <1>5, <1>6, PlacesMove, LibraryRuns DEF W!SaveFrame
<1>. QED BY <1>7, LibraryRuns DEF W!Next

LEMMA OpenJsonStep == ASSUME IInv, OpenJson, pc' \in Alive PROVE W!Next
<1>1. /\ pc = "json" /\ pc' = "write" /\ mv' = Put(mv, FALSE)
      /\ UNCHANGED <<video_frame_count, frames, run>>
  BY DEF OpenJson, Alive
<1>2. UNCHANGED <<Objects, OwnFrames>> /\ UNCHANGED Counters
  BY <1>1 DEF Objects, Counters, OwnFrames, Own
<1>3. Place = "json" /\ Place' = "write"
  BY <1>1 DEF Place
<1>4. /\ DOMAIN mv' = DOMAIN mv \cup {video_frame_count}
      /\ mv'[video_frame_count].whole = FALSE
      /\ mv'[video_frame_count].pic.run = run
      /\ \A k \in DOMAIN mv : k # video_frame_count => mv'[k] = mv[k]
  BY <1>1 DEF Put, ThisPicture
<1>5. Own(mv)' = Own(mv) \cup {video_frame_count}
  BY <1>1, <1>4 DEF Own
<1>6. /\ Counters["emv_frames"] = video_frame_count
      /\ W!OpenElsewhere("emv_frames", video_frame_count) = FALSE
  BY DEF Counters, Libraries, W!OpenElsewhere, W!Libs, Places
<1>7. OwnVectors' = W!Put(video_frame_count,
                        [lib |-> "emv_frames", whole |-> FALSE, shared |-> FALSE])
  BY <1>1, <1>4, <1>5 DEF OwnVectors, W!Put, Own
<1>8. OwnVectors' = W!Put(video_frame_count,
                        [lib |-> "emv_frames", whole |-> FALSE,
                         shared |-> W!OpenElsewhere("emv_frames", video_frame_count)])
  BY <1>6, <1>7, Zenon
<1>9. W!OpenJson("emv_frames")
  BY <1>2, <1>3, <1>6, <1>8, PlacesMove, LibraryRuns DEF W!OpenJson
<1>. QED BY <1>9, LibraryRuns DEF W!Next

LEMMA WriteJsonStep == ASSUME IInv, WriteJson PROVE W!Next
<1>1. /\ pc = "write" /\ pc' = "receive" /\ mv' = Put(mv, TRUE)
      /\ UNCHANGED <<video_frame_count, frames, run>>
  BY DEF WriteJson
<1>2. UNCHANGED <<Objects, OwnFrames>> /\ UNCHANGED Counters
  BY <1>1 DEF Objects, Counters, OwnFrames, Own
<1>3. Place = "write" /\ Place' = "decode"
  BY <1>1 DEF Place
<1>4. video_frame_count \in Own(mv)
  BY <1>1 DEF IInv, AtHand, Own, ThisPicture
<1>5. /\ DOMAIN mv' = DOMAIN mv
      /\ mv'[video_frame_count].whole = TRUE
      /\ mv'[video_frame_count].pic.run = run
      /\ \A k \in DOMAIN mv : k # video_frame_count => mv'[k] = mv[k]
  BY <1>1, <1>4 DEF Put, ThisPicture, Own
<1>6. Own(mv)' = Own(mv)
  BY <1>1, <1>4, <1>5 DEF Own
<1>7. Counters["emv_frames"] = video_frame_count /\ ~OwnVectors[video_frame_count].shared
  BY <1>4 DEF Counters, Libraries, OwnVectors
<1>8. OwnVectors' = [OwnVectors EXCEPT ![video_frame_count].whole = TRUE]
  BY <1>1, <1>4, <1>5, <1>6 DEF OwnVectors, Own
<1>9. W!CloseJson("emv_frames")
  BY <1>2, <1>3, <1>7, <1>8, PlacesMove, LibraryRuns DEF W!CloseJson
<1>. QED BY <1>9, LibraryRuns DEF W!Next

LEMMA LibraryStep ==
  ASSUME IInv, IInv', FromPackets, Bounded, Next, pc' \in Alive, run' = run
  PROVE  [W!Next]_(W!vars)
<1>1. CASE OpenInput \/ OpenCodec \/ CheckStream \/ AllocRGB \/ Read \/ Send \/ End
  <2>1. UNCHANGED <<video_frame_count, frames, mv, run>>
    BY <1>1 DEF OpenInput, OpenCodec, CheckStream, AllocRGB, Read, Send, End
  <2>2. /\ pc \in {"open", "codec", "check", "alloc", "read", "send", "end"}
        /\ pc' \in {"idle", "codec", "check", "alloc", "read", "send", "receive", "end"}
    <3>1. CASE OpenInput \/ OpenCodec \/ CheckStream \/ AllocRGB \/ Read \/ End
      BY <3>1 DEF OpenInput, OpenCodec, CheckStream, AllocRGB, Read, End, Alive
    <3>2. CASE Send
      BY <3>2 DEF Send, Return
    <3>. QED BY <1>1, <3>1, <3>2
  <2>3. Place = "decode" /\ Place' \in {"decode", "idle"}
    BY <2>2 DEF Place
  <2>. QED BY <2>1, <2>3, DecodingSteps
<1>2. ~Kill /\ ~Restart
  BY DEF Kill, Restart, Alive, IInv, TypeOK
<1>. QED
  BY <1>1, <1>2, CallStep, ReceiveStep, SaveFrameStep, CloseFrameStep, OpenJsonStep,
     WriteJsonStep DEF Next, Step

LEMMA RestartConstructs == ASSUME IInv, Next, run' # run PROVE Constructed'
<1>1. Restart
  BY DEF Next, Step, Call, OpenInput, OpenCodec, CheckStream, AllocRGB, Read, Send, Receive,
         SaveFrame, CloseFrame, OpenJson, WriteJson, End, Kill
<1>2. pc' = "idle" /\ video_frame_count' = 0 /\ UNCHANGED <<frames, mv>> /\ run' = run + 1
  BY <1>1 DEF Restart
<1>3. Own(mv)' = {} /\ Own(frames)' = {}
  BY <1>2 DEF Own, IInv, Files, Vectors, Frames, TypeOK
<1>4. Places' = [l \in Libraries |-> "idle"] /\ Counters' = [l \in Libraries |-> 0]
  BY <1>2 DEF Places, Place, Counters
<1>5. OwnFrames' = {} /\ OwnVectors' = [k \in {} |-> 0]
  BY <1>3 DEF OwnFrames, OwnVectors
<1>. QED BY <1>4, <1>5 DEF Constructed

(* wrapper.py loads this extractor as it is.  What the model of the two    *)
(* Python classes lets a library do covers it: every process begins as an  *)
(* interpreter with its object made, and while it lives each of its steps  *)
(* is a step of the library there or is not seen in the directories.  The  *)
(* bound on the pictures is then the number of packets.                    *)
THEOREM IsTheWrappersLibrary ==
  Spec => /\ Constructed
          /\ [][run' # run => Constructed']_vars
          /\ [][pc' \in Alive /\ run' = run => [W!Next]_(W!vars)]_vars
<1>1. Init => Constructed
  BY DEF Init, Constructed, Places, Place, Counters, OwnFrames, OwnVectors, Own
<1>2. IInv /\ [Next]_vars => [run' # run => Constructed']_vars
  BY RestartConstructs
<1>3. /\ IInv /\ IInv' /\ FromPackets /\ Bounded /\ [Next]_vars
      => [pc' \in Alive /\ run' = run => [W!Next]_(W!vars)]_vars
  BY LibraryStep
<1>4. LogInv /\ Bounded => IInv /\ Bounded
  BY DEF LogInv
<1>. QED
  BY <1>1, <1>2, <1>3, <1>4, Invariance, FromPacketsInductive, BoundedInductive, PTL DEF Spec

================================================================================
