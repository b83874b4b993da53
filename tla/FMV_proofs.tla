------------------------------- MODULE FMV_proofs -------------------------------
(***************************************************************************)
(* The class FMV under any client, and its loops: types, the vectors of    *)
(* the frame, no fault in an extraction, and an end that is the end, for   *)
(* every delay, wrap, and number of packets and failures.                  *)
(***************************************************************************)
EXTENDS MainLoop, DecoderLemmas

Drained(d) == ~d.out /\ d.input \in {"none", "draining", "done"}

(* The context between two calls, and what each method relies on.          *)
Contexts ==
  /\ IsOpen(dec) => Consistent(dec) /\ frames = dec.frame_number
  /\ video_stream /\ pc # "freed" => IsOpen(dec)

Fresh == pc = "new" => ~IsOpen(dec) /\ ~video_stream /\ frames = 0 /\ ~pFrame

Idle == pc = "idle" /\ IsOpen(dec) => Drained(dec)

Extracting ==
  pc \in Inside /\ method = "extract" => IsOpen(dec) /\ pFrame /\ buffer = "live"

Reading ==
  pc = "read" => method = "extract" /\ got = 0 /\ Drained(dec)

Sending ==
  pc = "send" =>
    /\ method \in {"extract", "flush"}
    /\ pkt = "null" <=> method = "flush"
    /\ IsOpen(dec) => Drained(dec)
    /\ method = "extract" => got = 0

Receiving ==
  pc = "receive" =>
    /\ IsOpen(dec) /\ method \in {"extract", "flush"}
    /\ method = "flush" => dec.input \in {"draining", "done"}
    /\ method = "extract" =>
         dec.input = "none" /\ IF dec.out THEN got = 0 /\ jarray ELSE got <= 1

(* Pixels are live only inside an extraction, or left over by one that has *)
(* freed its frame; a Mat wraps live ones only until its extraction ends.  *)
Pixels ==
  /\ pFrame /\ (pc = "idle" \/ (pc \in Inside /\ method = "flush")) => buffer # "live"
  /\ cv_mat = "live" => pc = "receive" /\ method = "extract"

IInv == /\ TypeOK /\ Contexts /\ Fresh /\ Idle /\ Extracting /\ Reading /\ Sending /\ Receiving
        /\ Pixels /\ OneFramePerCall /\ VectorsOfTheFrame /\ FaultsOutsideExtractions

LEMMA NextNumber ==
  ASSUME NEW count \in 0 .. Wrap
  PROVE  increase_current_frame_number(count) \in 1 .. Wrap
BY FMVAssumption DEF increase_current_frame_number

LEMMA InitIInv == Init => IInv
<1> SUFFICES ASSUME Init PROVE IInv
  OBVIOUS
<1>1. TypeOK
  <2>1. dec \in Codec
    BY OpenedConsistent DEF Init
  <2>2. video_frame_count \in 0 .. Wrap /\ ret \in -1 .. Wrap \cup {1}
    BY FMVAssumption DEF Init
  <2>3. /\ gotFrame \in BOOLEAN /\ video_stream \in BOOLEAN /\ pFrame \in BOOLEAN
        /\ jarray \in BOOLEAN /\ ended \in BOOLEAN /\ described \in BOOLEAN
    BY Zenon DEF Init
  <2> QED
    BY <2>1, <2>2, <2>3 DEF Init, TypeOK, Packets, Inside, Final, Garbage
<1>2. ~IsOpen(dec)
  BY DEF Init, NoCodec, Context, IsOpen
<1> QED
  BY <1>1, <1>2 DEF Init, IInv, Contexts, Fresh, Idle, Extracting, Reading,
     Sending, Receiving, OneFramePerCall, FaultsOutsideExtractions,
     Pixels, VectorsOfTheFrame, Inside

(* decode_packet sets the flag or fails: its caller returns either way.    *)
LEMMA ReturnEnds ==
  ASSUME TypeOK, NEW error \in BOOLEAN, Return(error)
  PROVE  /\ pc' = "idle" /\ gotFrame' \in BOOLEAN
         /\ buffer' \in {"null", "live", "freed"} /\ cv_mat' \in {"null", "live", "freed"}
         /\ IF method = "flush" THEN UNCHANGED <<buffer, cv_mat>>
            ELSE buffer' = "freed" /\ cv_mat' # "live"
         /\ ret' \in -1 .. Wrap \cup {1}
         /\ method # "flush" => ret' = video_frame_count
<1>1. CASE method = "flush"
  <2>1. pc' = "idle" /\ buffer' = buffer /\ cv_mat' = cv_mat /\ ret' = ret
    BY <1>1 DEF Return
  <2>2. gotFrame' \in BOOLEAN
    BY <1>1, Zenon DEF Return
  <2> QED
    BY <1>1, <2>1, <2>2 DEF TypeOK
<1>2. CASE method # "flush"
  <2>1. error \/ (gotFrame \/ ~error)
    OBVIOUS
  <2>2. pc' = "idle" /\ gotFrame' = FALSE /\ FreePixels /\ ret' = video_frame_count
    BY <1>2, <2>1, Zenon DEF Return, AfterPacket
  <2>3. ret' \in -1 .. Wrap \cup {1}
    BY <2>2, FMVAssumption DEF TypeOK
  <2>4. gotFrame' \in BOOLEAN
    BY <2>2, Zenon
  <2> QED
    BY <1>2, <2>2, <2>3, <2>4 DEF FreePixels, TypeOK
<1> QED
  BY <1>1, <1>2

LEMMA ConnectIInv == IInv /\ Connect => IInv'
<1> SUFFICES ASSUME IInv, Connect PROVE IInv'
  OBVIOUS
<1>1. /\ pc = "new" /\ pc' \in {"exited", "idle"}
      /\ \/ dec' = Opened /\ video_stream' = TRUE
         \/ dec' = dec /\ video_stream' = video_stream
      /\ UNCHANGED <<gotFrame, video_frame_count, pkt, pFrame, buffer, cv_mat, jarray,
                     mv_json_array, ret, method, ghosts>>
  BY Zenon DEF Connect
<1>2. TypeOK'
  <2>1. dec' \in Codec /\ video_stream' \in BOOLEAN
    BY <1>1, OpenedConsistent DEF IInv, TypeOK, Consistent
  <2>2. /\ gotFrame' = gotFrame /\ pFrame' = pFrame /\ jarray' = jarray
        /\ ended' = ended /\ described' = described
    BY <1>1 DEF ghosts
  <2> QED
    BY <1>1, <2>1, <2>2 DEF IInv, TypeOK, ghosts, Final
<1>3. Contexts' /\ Idle'
  <2>1. ~IsOpen(dec) /\ ~video_stream /\ frames' = 0
    BY <1>1 DEF IInv, Fresh, ghosts
  <2>2. CASE dec' = Opened
    BY <1>1, <2>1, <2>2, OpenedConsistent
    DEF Contexts, Idle, Drained, Opened, Context, Consistent
  <2>3. CASE dec' = dec /\ video_stream' = video_stream
    BY <2>1, <2>3 DEF Contexts, Idle
  <2> QED
    BY <1>1, <2>2, <2>3
<1> QED
  BY <1>1, <1>2, <1>3
  DEF IInv, Fresh, Extracting, Reading, Sending, Receiving, OneFramePerCall,
      FaultsOutsideExtractions, Pixels, VectorsOfTheFrame, Inside, ghosts

LEMMA ExtractIInv == IInv /\ Extract => IInv'
<1> SUFFICES ASSUME IInv, Extract PROVE IInv'
  OBVIOUS
<1>1. /\ pc = "idle" /\ pc' \in {"idle", "read"} /\ method' = "extract" /\ got' = 0
      /\ pFrame' \in BOOLEAN /\ ended' \in BOOLEAN /\ ret' \in {-1, 0, 1, ret}
      /\ buffer' \in {"null", "live", buffer} /\ failures' \in {failures, failures + 1}
      /\ UNCHANGED <<dec, video_stream, gotFrame, video_frame_count, pkt, cv_mat, jarray,
                     mv_json_array, reads, frames, described>>
  BY DEF Extract
<1>2. pc' = "read" => video_stream /\ pFrame' = TRUE /\ buffer' = "live"
  BY Zenon DEF Extract
<1>3. TypeOK'
  BY <1>1, FMVAssumption DEF IInv, TypeOK, Inside
<1>4. Contexts' /\ Idle'
  BY <1>1 DEF IInv, Contexts, Idle
<1>5. Reading' /\ Extracting'
  <2>1. pc' = "read" => IsOpen(dec) /\ Drained(dec)
    BY <1>1, <1>2 DEF IInv, Contexts, Idle
  <2>2. pc' = "read" => pFrame' /\ buffer' = "live"
    BY <1>2, Zenon
  <2> QED
    BY <1>1, <2>1, <2>2 DEF Reading, Extracting, Inside, Drained
<1>6. Pixels'
  <2>1. pc' = "idle" => pFrame' = FALSE \/ buffer' = "null"
    BY <1>1 DEF Extract
  <2>2. pc' = "idle" => ~pFrame' \/ buffer' # "live"
    BY <2>1, Zenon
  <2> QED
    BY <1>1, <2>2 DEF IInv, Pixels, Inside
<1>7. VectorsOfTheFrame'
  BY <1>1 DEF IInv, VectorsOfTheFrame
<1> QED
  BY <1>1, <1>3, <1>4, <1>5, <1>6, <1>7
  DEF IInv, Fresh, Sending, Receiving, OneFramePerCall, FaultsOutsideExtractions

LEMMA ReadIInv == IInv /\ Read => IInv'
<1> SUFFICES ASSUME IInv, Read PROVE IInv'
  OBVIOUS
<1>1. /\ pc = "read" /\ method = "extract" /\ got = 0 /\ Drained(dec)
      /\ IsOpen(dec) /\ pFrame /\ buffer = "live"
  BY DEF IInv, Read, Reading, Extracting, Inside
<1>2. /\ pc' \in {"idle", "read", "send"}
      /\ pFrame' \in BOOLEAN /\ ended' \in BOOLEAN /\ gotFrame' \in BOOLEAN
      /\ ret' \in -1 .. Wrap \cup {1} /\ buffer' \in {"null", "live", "freed"}
      /\ cv_mat' \in {"null", "live", "freed"} /\ cv_mat' # "live"
      /\ pkt' \in Packets /\ reads' \in Nat
  <2>1. /\ pFrame \in BOOLEAN /\ ended \in BOOLEAN /\ gotFrame \in BOOLEAN
        /\ ret \in -1 .. Wrap \cup {1} /\ buffer \in {"null", "live", "freed"}
        /\ cv_mat \in {"null", "freed"}
        /\ video_frame_count \in -1 .. Wrap /\ pkt \in Packets /\ reads \in Nat
    BY <1>1, FMVAssumption DEF IInv, TypeOK, Pixels
  <2>2. CASE /\ pc' = "idle" /\ pFrame' = FALSE /\ ret' = 0 /\ ended' = TRUE
             /\ UNCHANGED <<gotFrame, pkt, buffer, cv_mat, reads>>
    <3>1. pFrame' \in BOOLEAN /\ ended' \in BOOLEAN /\ gotFrame' \in BOOLEAN
      BY <2>1, <2>2, Zenon
    <3>2. 0 \in -1 .. Wrap
      BY FMVAssumption
    <3> QED
      BY <2>1, <2>2, <3>1, <3>2
  <2>3. CASE /\ reads' = reads + 1 /\ AfterPacket(FALSE, gotFrame)
             /\ UNCHANGED <<pkt, pFrame, ended>>
    <3>1. \/ pc' = "idle" /\ gotFrame' = FALSE /\ FreePixels
             /\ ret' = video_frame_count
          \/ pc' = "read" /\ gotFrame' = gotFrame /\ UNCHANGED <<buffer, cv_mat, ret>>
      BY <2>3, Zenon DEF AfterPacket
    <3>2. pFrame' \in BOOLEAN /\ ended' \in BOOLEAN /\ gotFrame' \in BOOLEAN
      BY <2>1, <2>3, <3>1, Zenon
    <3>3. ret' \in -1 .. Wrap \cup {1}
      BY <2>1, <3>1
    <3>4. /\ buffer' \in {"null", "live", "freed"}
          /\ cv_mat' \in {"null", "live", "freed"} /\ cv_mat' # "live"
      BY <2>1, <3>1 DEF FreePixels
    <3> QED
      BY <2>1, <2>3, <3>1, <3>2, <3>3, <3>4
  <2>4. CASE /\ reads' = reads + 1 /\ pc' = "send" /\ pkt' \in {"data", "empty"}
             /\ UNCHANGED <<gotFrame, buffer, cv_mat, ret, pFrame, ended>>
    BY <2>1, <2>4 DEF Packets
  <2> QED
    BY <2>2, <2>3, <2>4 DEF Read
<1>3. /\ pc' \in {"read", "send"} => pFrame' = pFrame /\ buffer' = buffer
      /\ pc' = "send" => pkt' # "null"
      /\ pc' = "idle" => pFrame' = FALSE \/ buffer' = "freed"
  BY DEF Read, AfterPacket, FreePixels
<1>4. UNCHANGED <<dec, video_stream, video_frame_count, jarray, mv_json_array, method,
                  failures, frames, got, described>>
  BY DEF Read
<1>5. TypeOK'
  BY <1>2, <1>4 DEF IInv, TypeOK, Inside
<1>6. Contexts' /\ Idle'
  BY <1>1, <1>2, <1>4 DEF IInv, Contexts, Idle
<1>7. Extracting' /\ Reading' /\ Sending'
  <2>1. pc' \in {"read", "send"} => pFrame' /\ buffer' = "live"
    BY <1>1, <1>3, Zenon
  <2>2. method' = "extract" /\ got' = 0 /\ IsOpen(dec') /\ Drained(dec')
    BY <1>1, <1>4
  <2> QED
    BY <1>2, <1>3, <2>1, <2>2 DEF Extracting, Reading, Sending, Inside
<1>8. Pixels'
  <2>1. pc' = "idle" => ~pFrame' \/ buffer' # "live"
    <3>1. "freed" # "live"
      OBVIOUS
    <3> QED
      BY <1>3, <3>1, Zenon
  <2> QED
    BY <1>1, <1>2, <1>4, <2>1 DEF Pixels, Inside
<1>9. VectorsOfTheFrame'
  BY <1>1, <1>4 DEF IInv, VectorsOfTheFrame
<1> QED
  BY <1>1, <1>2, <1>4, <1>5, <1>6, <1>7, <1>8, <1>9
  DEF IInv, Fresh, Receiving, OneFramePerCall, FaultsOutsideExtractions

LEMMA SendIInv == IInv /\ Send => IInv'
<1> SUFFICES ASSUME IInv, Send PROVE IInv'
  OBVIOUS
<1>1. /\ pc = "send" /\ method \in {"extract", "flush"}
      /\ pkt = "null" <=> method = "flush"
      /\ UNCHANGED <<video_stream, video_frame_count, pkt, pFrame, mv_json_array, method,
                     ghosts>>
  BY DEF IInv, Sending, Send
<1>2. CASE ~IsOpen(dec)
  <2>1. pc' = "crashed" /\ UNCHANGED <<dec, gotFrame, buffer, cv_mat, ret, jarray>>
    BY <1>2 DEF Send
  <2>2. method = "flush"
    BY <1>1, <1>2, Zenon DEF IInv, Extracting, Inside
  <2>3. TypeOK'
    BY <1>1, <2>1 DEF IInv, TypeOK, Final, ghosts
  <2> QED
    BY <1>1, <1>2, <2>1, <2>2, <2>3
    DEF IInv, Contexts, Fresh, Idle, Extracting, Reading, Sending, Receiving,
        OneFramePerCall, FaultsOutsideExtractions,
        Pixels, VectorsOfTheFrame, Inside, ghosts
<1>3. CASE IsOpen(dec)
  <2>1. PICK o \in SendPacket(dec, pkt) :
          /\ dec' = o.dec
          /\ IF o.ret = "ok"
             THEN pc' = "receive" /\ jarray' = TRUE /\ UNCHANGED <<gotFrame, buffer, cv_mat, ret>>
             ELSE UNCHANGED jarray /\ Return(TRUE)
    BY <1>3 DEF Send
  <2>2. Consistent(dec) /\ frames = dec.frame_number /\ Drained(dec) /\ pkt \in Packets
    BY <1>1, <1>3 DEF IInv, Contexts, Sending, TypeOK
  <2>3. /\ Consistent(o.dec) /\ o.dec.frame_number = dec.frame_number
        /\ dec.input = "none" =>
             /\ o.dec.input \in IF pkt = "null" THEN {"draining", "done"} ELSE {"none"}
             /\ o.ret # "ok" => ~o.dec.out
        /\ dec.input # "none" => o.ret = "eof" /\ o.dec = dec
    BY <2>2, SendPacketOutcome, EndedContextRefuses DEF Drained
  <2>4. Contexts'
    BY <1>1, <2>1, <2>2, <2>3 DEF IInv, Contexts, Consistent, ghosts
  <2>5. CASE o.ret = "ok"
    <3>1. pc' = "receive" /\ jarray' = TRUE /\ UNCHANGED <<gotFrame, buffer, cv_mat, ret>>
      BY <2>1, <2>5
    <3>2. jarray' \in BOOLEAN
      BY <3>1, Zenon
    <3>3. TypeOK'
      BY <1>1, <2>1, <2>3, <3>1, <3>2 DEF IInv, TypeOK, Consistent, Inside, ghosts
    <3>4. Extracting'
      BY <1>1, <1>3, <2>1, <2>3, <3>1 DEF IInv, Extracting, Inside, Consistent
    <3>5. dec'.input \in IF pkt = "null" THEN {"draining", "done"} ELSE {"none"}
      BY <2>1, <2>3, <2>5
    <3>6. method = "extract" => got = 0 /\ got' = 0
      BY <1>1 DEF IInv, Sending, ghosts
    <3>7. Receiving'
      <4>1. jarray'
        BY <3>1, Zenon
      <4> QED
        BY <1>1, <2>1, <2>3, <3>1, <3>5, <3>6, <4>1 DEF Receiving, Consistent
    <3>8. Pixels'
      BY <1>1, <3>1 DEF IInv, Pixels, Inside
    <3>9. VectorsOfTheFrame'
      BY <1>1, <3>1 DEF IInv, VectorsOfTheFrame, ghosts
    <3> QED
      BY <1>1, <2>4, <3>1, <3>3, <3>4, <3>6, <3>7, <3>8, <3>9
      DEF IInv, Fresh, Idle, Reading, Sending, OneFramePerCall, FaultsOutsideExtractions
  <2>6. CASE o.ret # "ok"
    <3>1. jarray' = jarray /\ Return(TRUE)
      BY <2>1, <2>6
    <3>2. /\ pc' = "idle" /\ gotFrame' \in BOOLEAN
          /\ buffer' \in {"null", "live", "freed"} /\ cv_mat' \in {"null", "live", "freed"}
          /\ ret' \in -1 .. Wrap \cup {1}
          /\ IF method = "flush" THEN UNCHANGED <<buffer, cv_mat>>
             ELSE buffer' = "freed" /\ cv_mat' # "live"
      BY <3>1, ReturnEnds DEF IInv
    <3>3. TypeOK'
      BY <1>1, <2>1, <2>3, <3>1, <3>2 DEF IInv, TypeOK, Consistent, ghosts
    <3>4. Drained(o.dec)
      BY <2>2, <2>3, <2>6 DEF Drained
    <3> QED
      BY <1>1, <2>1, <2>4, <3>2, <3>3, <3>4
      DEF IInv, Fresh, Idle, Extracting, Reading, Sending, Receiving,
          OneFramePerCall, FaultsOutsideExtractions,
          Pixels, VectorsOfTheFrame, Inside, Drained, ghosts
  <2> QED
    BY <2>5, <2>6
<1> QED
  BY <1>2, <1>3

LEMMA ReceiveIInv == IInv /\ Receive => IInv'
<1> SUFFICES ASSUME IInv, Receive PROVE IInv'
  OBVIOUS
<1>1. /\ pc = "receive" /\ method \in {"extract", "flush"}
      /\ IsOpen(dec) /\ Consistent(dec) /\ frames = dec.frame_number
      /\ UNCHANGED <<video_stream, pkt, pFrame, method, reads, failures, ended>>
  BY DEF IInv, Receiving, Contexts, Receive
<1>2. CASE ~pFrame
  <2>1. /\ pc' = "crashed"
        /\ UNCHANGED <<dec, gotFrame, buffer, cv_mat, ret, video_frame_count, jarray,
                       mv_json_array, frames, got, described>>
    BY <1>2 DEF Receive
  <2>2. method = "flush"
    BY <1>1, <1>2, Zenon DEF IInv, Extracting, Inside
  <2>3. TypeOK'
    BY <1>1, <2>1 DEF IInv, TypeOK, Final
  <2> QED
    BY <1>1, <2>1, <2>2, <2>3
    DEF IInv, Contexts, Fresh, Idle, Extracting, Reading, Sending, Receiving,
        OneFramePerCall, FaultsOutsideExtractions,
        Pixels, VectorsOfTheFrame, Inside
<1>3. CASE pFrame
  <2>1. PICK o \in ReceiveFrame(dec) :
          /\ dec' = o.dec
          /\ IF o.ret = "ok"
             THEN (\E sd \in SideData : Deliver(sd)) /\ UNCHANGED <<gotFrame, buffer, ret>>
             ELSE /\ Return(o.ret = "error")
                  /\ UNCHANGED <<video_frame_count, jarray, mv_json_array, frames, got,
                                  described>>
    BY <1>3, Zenon DEF Receive
  <2>2. /\ Consistent(o.dec) /\ ~o.dec.out
        /\ o.dec.frame_number = dec.frame_number + (IF o.ret = "ok" THEN 1 ELSE 0)
        /\ dec.input = "none" => o.dec.input = "none"
        /\ dec.input \in {"draining", "done"} => o.dec.input \in {"draining", "done"}
    BY <1>1, ReceiveFrameOutcome
  <2>3. CASE o.ret = "ok"
    <3>1. PICK sd \in SideData : Deliver(sd)
      BY <2>1, <2>3
    <3>2. /\ video_frame_count' \in 1 .. Wrap
          /\ frames' = frames + 1 /\ got' = got + 1 /\ pc' \in {"crashed", "receive"}
          /\ cv_mat' = buffer /\ mv_json_array' \in {mv_json_array, frames + 1, Null}
          /\ UNCHANGED <<gotFrame, buffer, ret>>
      BY <2>1, <2>3, <3>1, NextNumber DEF Deliver, IInv, TypeOK
    <3>3. jarray' \in BOOLEAN /\ described' \in BOOLEAN
      BY <3>1, Zenon DEF Deliver
    <3>4. TypeOK'
      BY <1>1, <2>1, <2>2, <3>2, <3>3, FMVAssumption
      DEF IInv, TypeOK, Consistent, Inside, Final, Null
    <3>5. Contexts' /\ Extracting'
      BY <1>1, <2>1, <2>2, <2>3, <3>2 DEF IInv, Contexts, Extracting, Inside, Consistent
    <3>6. method = "extract" =>
            dec.input = "none" /\ got = 0 /\ pc' = "receive"
      <4> SUFFICES ASSUME method = "extract"
                   PROVE  dec.input = "none" /\ got = 0 /\ pc' = "receive"
        OBVIOUS
      <4>1. dec.input = "none" /\ dec.out
        BY <1>1, <2>3, EmptyContextAsks DEF IInv, Receiving
      <4>2. got = 0 /\ jarray
        BY <1>1, <4>1 DEF IInv, Receiving
      <4>3. buffer = "live"
        BY <1>1 DEF IInv, Extracting, Inside
      <4> QED
        BY <3>1, <4>1, <4>2, <4>3 DEF Deliver
    <3>7. Receiving'
      BY <1>1, <2>1, <2>2, <3>2, <3>6 DEF IInv, Receiving, Consistent
    <3>8. Pixels' /\ VectorsOfTheFrame'
      <4>1. CASE method = "extract"
        <5>1. jarray /\ pc' = "receive"
          BY <1>1, <2>3, <3>6, <4>1, EmptyContextAsks DEF IInv, Receiving
        <5>2. described' => mv_json_array' = frames'
          BY <3>1, <5>1 DEF Deliver
        <5>. QED BY <1>1, <4>1, <5>1, <5>2 DEF Pixels, VectorsOfTheFrame
      <4>2. CASE method = "flush"
        <5>1. buffer # "live"
          BY <1>1, <1>3, <4>2 DEF IInv, Pixels, Inside
        <5>2. pc' = "crashed"
          BY <3>1, <5>1 DEF Deliver
        <5>. QED BY <3>2, <5>1, <5>2 DEF Pixels, VectorsOfTheFrame, Inside
      <4>. QED BY <1>1, <4>1, <4>2
    <3> QED
      BY <1>1, <3>2, <3>4, <3>5, <3>6, <3>7, <3>8
      DEF IInv, Fresh, Idle, Reading, Sending, OneFramePerCall, FaultsOutsideExtractions,
          Pixels, VectorsOfTheFrame
  <2>4. CASE o.ret # "ok"
    <3>1. /\ Return(o.ret = "error")
          /\ UNCHANGED <<video_frame_count, jarray, mv_json_array, frames, got,
                                  described>>
      BY <2>1, <2>4
    <3>2. /\ pc' = "idle" /\ gotFrame' \in BOOLEAN
          /\ buffer' \in {"null", "live", "freed"} /\ cv_mat' \in {"null", "live", "freed"}
          /\ ret' \in -1 .. Wrap \cup {1}
          /\ IF method = "flush" THEN UNCHANGED <<buffer, cv_mat>>
             ELSE buffer' = "freed" /\ cv_mat' # "live"
      BY <3>1, ReturnEnds DEF IInv
    <3>3. TypeOK' /\ Contexts'
      BY <1>1, <2>1, <2>2, <2>4, <3>1, <3>2 DEF IInv, TypeOK, Contexts, Consistent
    <3>4. Drained(o.dec)
      BY <1>1, <2>2 DEF IInv, Receiving, Drained
    <3> QED
      BY <1>1, <2>1, <3>1, <3>2, <3>3, <3>4
      DEF IInv, Fresh, Idle, Extracting, Reading, Sending, Receiving,
          OneFramePerCall, FaultsOutsideExtractions,
          Pixels, VectorsOfTheFrame, Inside, Drained
  <2> QED
    BY <2>3, <2>4
<1> QED
  BY <1>2, <1>3

LEMMA OtherMethodsIInv ==
  IInv /\ (flush_cached_frames \/ getMAT \/ Set \/ freeStuff) => IInv'
<1>1. ASSUME IInv, flush_cached_frames PROVE IInv'
  <2>1. TypeOK' /\ Contexts'
    BY <1>1 DEF IInv, flush_cached_frames, TypeOK, Contexts, Inside, Packets
  <2>2. Sending'
    BY <1>1 DEF IInv, flush_cached_frames, Sending, Idle
  <2> QED
    BY <1>1, <2>1, <2>2
    DEF IInv, flush_cached_frames, Fresh, Idle, Extracting, Reading, Receiving,
        OneFramePerCall, FaultsOutsideExtractions,
        Pixels, VectorsOfTheFrame
<1>2. ASSUME IInv, freeStuff PROVE IInv'
  <2>1. dec' \in Codec /\ ~IsOpen(dec')
    BY <1>2, OpenedConsistent DEF freeStuff, NoCodec, Context, IsOpen
  <2>2. pFrame' \in BOOLEAN
    BY <1>2, Zenon DEF freeStuff
  <2>3. TypeOK'
    BY <1>2, <2>1, <2>2 DEF IInv, freeStuff, TypeOK, Final, ghosts
  <2> QED
    BY <1>2, <2>1, <2>3
    DEF IInv, freeStuff, Contexts, Fresh, Idle, Extracting, Reading, Sending, Receiving,
        OneFramePerCall, FaultsOutsideExtractions,
        Pixels, VectorsOfTheFrame, Inside, ghosts
<1>3. ASSUME IInv, getMAT PROVE IInv'
  <2>1. /\ pc = "idle" /\ pc' \in {"idle", "crashed"} /\ method' = "getMAT"
        /\ UNCHANGED <<dec, video_stream, gotFrame, video_frame_count, pkt, pFrame, buffer,
                       cv_mat, jarray, mv_json_array, ret, ghosts>>
    BY <1>3 DEF getMAT
  <2>2. TypeOK'
    BY <1>3, <2>1 DEF IInv, TypeOK, Final, ghosts
  <2> QED
    BY <1>3, <2>1, <2>2
    DEF IInv, Contexts, Fresh, Idle, Extracting, Reading, Sending, Receiving,
        OneFramePerCall, FaultsOutsideExtractions, Pixels, VectorsOfTheFrame, Inside, ghosts
<1>4. ASSUME IInv, Set PROVE IInv'
  <2>1. /\ pc = "idle"
        /\ UNCHANGED <<pc, dec, video_stream, pkt, pFrame, buffer, cv_mat, jarray,
                       mv_json_array, ret, method, ghosts>>
    BY <1>4 DEF Set
  <2>2. video_frame_count' \in 0 .. Wrap
    <3>1. video_frame_count \in 0 .. Wrap
      BY <1>4 DEF IInv, TypeOK
    <3>2. increase_current_frame_number(video_frame_count) \in 0 .. Wrap
      BY <3>1, NextNumber
    <3>. QED BY <1>4, <3>1, <3>2 DEF Set
  <2>3. gotFrame' \in BOOLEAN
    BY <1>4, Zenon DEF Set, IInv, TypeOK
  <2>4. TypeOK'
    BY <1>4, <2>1, <2>2, <2>3 DEF IInv, TypeOK, ghosts
  <2> QED
    BY <1>4, <2>1, <2>4
    DEF IInv, Contexts, Fresh, Idle, Extracting, Reading, Sending, Receiving,
        OneFramePerCall, FaultsOutsideExtractions, Pixels, VectorsOfTheFrame, Inside, ghosts
<1> QED
  BY <1>1, <1>2, <1>3, <1>4

LEMMA NextIInv == IInv /\ [Next]_vars => IInv'
<1>1. IInv /\ UNCHANGED vars => IInv'
  BY DEF vars, ghosts, IInv, TypeOK, Contexts, Fresh, Idle, Extracting, Reading,
     Sending, Receiving, OneFramePerCall, FaultsOutsideExtractions,
     Pixels, VectorsOfTheFrame
<1> QED
  BY <1>1, ConnectIInv, ExtractIInv, ReadIInv, SendIInv, ReceiveIInv, OtherMethodsIInv
  DEF Next, Step

THEOREM Invariant == Spec => []IInv
BY InitIInv, NextIInv, PTL DEF Spec

(* The class keeps its types under any client.                             *)
THEOREM FMVTypeOK == Spec => []TypeOK
<1>1. IInv => TypeOK
  BY DEF IInv
<1> QED
  BY <1>1, Invariant, PTL

(* efmvs.cpp:216-254: the vectors of the newest frame, if it has any, are  *)
(* those getMVJSON gives; no second frame of a packet puts NULL there.     *)
THEOREM VectorsAreOfTheFrame == Spec => []VectorsOfTheFrame
<1>1. IInv => VectorsOfTheFrame
  BY DEF IInv
<1> QED
  BY <1>1, Invariant, PTL

(* efmvs.cpp:211, 352: between two methods no client ever gets a Mat whose *)
(* pixels are there; they are not made yet, or gone with the extraction.   *)
THEOREM PicturesAreGone == Spec => [](pc = "idle" => cv_mat # "live")
<1>1. IInv => (pc = "idle" => cv_mat # "live")
  BY DEF IInv, Pixels
<1> QED
  BY <1>1, Invariant, PTL

(* efmvs.cpp:285-357: no extraction uses what is missing, freed or handed  *)
(* over; only flush_cached_frames (369-373) and getMAT can.                *)
THEOREM ExtractionsDoNotFault == Spec => []FaultsOutsideExtractions
<1>1. IInv => FaultsOutsideExtractions
  BY DEF IInv
<1> QED
  BY <1>1, Invariant, PTL

(* Between two methods only the pictures held back are missing.            *)
THEOREM NothingLeftBehind == Spec => []OnlyHeldBackLost
<1>1. IInv => OnlyHeldBackLost
  BY DEF IInv, Contexts, Idle, Drained, OnlyHeldBackLost, Consistent, Undelivered,
     TypeOK, Codec
<1> QED
  BY <1>1, Invariant, PTL

--------------------------------------------------------------------------------
(* The loops are clients of the class: they add variables and an order.    *)
THEOREM MainIsAClient == MainSpec => Spec
<1>1. MainInit => Init
  BY DEF MainInit
<1>2. [MainNext]_mainVars => [Next]_vars
  BY DEF MainNext, AnyMethod, LoopNext, MainConnect, MainExtract, MainStep, MainAssign,
     MainShow, MainFree, Next, Step, mainVars, vars
<1> QED
  BY <1>1, <1>2, PTL DEF MainSpec, Spec

(* Where a loop is when it is in a method, and what the number it compares *)
(* can be.                                                                 *)
Order ==
  /\ client = "any" => at = "connect"
  /\ at = "connect" => frame_num = 0
  /\ at = "show" => client = "python"
  /\ at = "call" => method = "extract"
  /\ client \in Loops /\ at = "connect" => video_frame_count = 0
  /\ at \in {"while", "show"} => frame_num = video_frame_count \/ ended
  /\ at = "call" /\ pc = "idle" => ret = video_frame_count \/ ended

MainInv == MainTypeOK /\ Order /\ LoopsFaultOnlyInGetMAT

LEMMA MainInitInv == MainInit => MainInv
<1> SUFFICES ASSUME MainInit PROVE MainInv
  OBVIOUS
<1>1. Init /\ TypeOK
  BY InitIInv DEF MainInit, IInv
<1> QED
  BY <1>1, FMVAssumption
  DEF MainInit, Init, MainInv, MainTypeOK, Order, LoopsFaultOnlyInGetMAT, Loops

LEMMA StepReturns ==
  ASSUME IInv, Step, method # "flush"
  PROVE  pc' = "idle" => ret' = video_frame_count' \/ ended'
<1>1. CASE Read
  BY <1>1, Zenon DEF Read, AfterPacket
<1>2. CASE Send
  <2>1. SUFFICES ASSUME pc' = "idle" PROVE ret' = video_frame_count'
    OBVIOUS
  <2>2. Return(TRUE) /\ UNCHANGED video_frame_count
    BY <1>2, <2>1 DEF Send
  <2> QED
    BY <2>2, ReturnEnds DEF IInv
<1>3. CASE Receive
  <2>1. SUFFICES ASSUME pc' = "idle" PROVE ret' = video_frame_count'
    OBVIOUS
  <2>2. PICK o \in ReceiveFrame(dec) :
          Return(o.ret = "error") /\ UNCHANGED video_frame_count
    BY <1>3, <2>1 DEF Receive, Deliver
  <2> QED
    BY <2>2, ReturnEnds DEF IInv
<1> QED
  BY <1>1, <1>2, <1>3 DEF Step

LEMMA MainNextInv == MainInv /\ IInv /\ IInv' /\ [MainNext]_mainVars => MainInv'
<1> SUFFICES ASSUME MainInv, IInv, IInv', [MainNext]_mainVars PROVE MainInv'
  OBVIOUS
<1> USE DEF MainInv, MainTypeOK, Order, LoopsFaultOnlyInGetMAT, IInv, Loops
<1>1. CASE AnyMethod
  BY <1>1 DEF AnyMethod
<1>2. CASE MainConnect
  <2>1. /\ UNCHANGED <<method, video_frame_count, frame_num, client, ended>>
        /\ at = "connect" /\ client # "any" /\ at' = "while" /\ pc' \in {"exited", "idle"}
    BY <1>2 DEF MainConnect, Connect, ghosts
  <2> QED
    BY <2>1
<1>3. CASE MainExtract
  <2>1. /\ at = "while" /\ method' = "extract" /\ UNCHANGED <<frame_num, client>>
        /\ at' = "call" /\ pc' \in {"idle", "read"} /\ (pc' = "idle" => ended')
    BY <1>3, Zenon DEF MainExtract, Extract
  <2> QED
    BY <2>1
<1>4. CASE MainStep
  <2>1. UNCHANGED <<frame_num, client, at, method>> /\ at = "call"
    BY <1>4 DEF MainStep, Step, Read, Send, Receive
  <2>2. pc' = "idle" => ret' = video_frame_count' \/ ended'
    BY <1>4, StepReturns DEF MainStep
  <2>3. pc' # "crashed"
    BY <2>1 DEF FaultsOutsideExtractions
  <2> QED
    BY <2>1, <2>2, <2>3
<1>5. CASE MainAssign
  <2>1. /\ UNCHANGED <<method, video_frame_count, ended, pc, ret, client>>
        /\ at = "call" /\ pc = "idle" /\ frame_num' = ret
        /\ at' = IF client = "python" THEN "show" ELSE "while"
    BY <1>5 DEF MainAssign, vars, ghosts
  <2>2. ret \in -1 .. Wrap \cup {1}
    BY DEF TypeOK
  <2> QED
    BY <2>1, <2>2
<1>6. CASE MainShow
  <2>1. /\ UNCHANGED <<frame_num, client, video_frame_count, ended>>
        /\ at = "show" /\ at' = "while" /\ method' = "getMAT"
    BY <1>6 DEF MainShow, getMAT, ghosts
  <2> QED
    BY <2>1
<1>7. CASE MainFree
  <2>1. /\ UNCHANGED <<frame_num, client>>
        /\ at = "while" /\ at' = "return" /\ pc' = "freed"
    BY <1>7 DEF MainFree, freeStuff
  <2> QED
    BY <2>1
<1>8. CASE UNCHANGED mainVars
  BY <1>8 DEF mainVars, vars, ghosts
<1> QED
  BY <1>1, <1>2, <1>3, <1>4, <1>5, <1>6, <1>7, <1>8 DEF MainNext, LoopNext

THEOREM MainInvariant == MainSpec => [](MainInv /\ IInv)
BY MainIsAClient, Invariant, MainInitInv, MainNextInv, PTL DEF MainSpec

(* The loops keep their types.                                             *)
THEOREM MainTypes == MainSpec => []MainTypeOK
<1>1. MainInv => MainTypeOK
  BY DEF MainInv
<1> QED
  BY <1>1, MainInvariant, PTL

(* efmvs.cpp:423-449: in the order of main nothing faults; and in that of  *)
(* the Python loop only getMAT.                                            *)
THEOREM LoopsNeverFaultElsewhere == MainSpec => []LoopsFaultOnlyInGetMAT
<1>1. MainInv => LoopsFaultOnlyInGetMAT
  BY DEF MainInv
<1> QED
  BY <1>1, MainInvariant, PTL

(* efmvs.cpp:430-445: the loop ends only when packets or memory have.      *)
THEOREM MainStopsOnlyAtEnd == MainSpec => StopsOnlyAtEnd
<1>1. MainInv /\ [MainNext]_mainVars => [at = "while" /\ at' = "return" => ended]_mainVars
  <2> SUFFICES ASSUME MainInv, MainNext, at = "while", at' = "return" PROVE ended
    BY DEF mainVars
  <2>1. MainFree
    BY DEF MainNext, AnyMethod, LoopNext, MainConnect, MainExtract, MainStep, MainAssign,
       MainShow
  <2> QED
    BY <2>1 DEF MainFree, MainInv, Order
<1> QED
  BY <1>1, MainInvariant, PTL DEF MainSpec, StopsOnlyAtEnd

--------------------------------------------------------------------------------
(* What is left to do in a method: packets; the pictures that may come out *)
(* before the next packet; the way to that packet.                         *)
Pictures == Deliverable(dec) + (IF pc = "send" /\ pkt # "null" THEN 1 ELSE 0)

Way ==
  CASE pc = "send"    -> 3
    [] pc = "receive" -> 2
    [] pc = "read"    -> 1
    [] OTHER          -> 0

Left == <<MaxPackets - reads, Pictures, Way>>

(* The counters keep their bounds; a frame has a number that is not 0.     *)
Bounded ==
  reads <= MaxPackets /\ failures <= MaxFailures /\ (frames > 0 => video_frame_count > 0)

LEMMA BoundedStep == IInv /\ Bounded /\ [Next]_vars => Bounded'
<1> SUFFICES ASSUME IInv, Bounded, [Next]_vars PROVE Bounded'
  OBVIOUS
<1>1. /\ reads \in Nat /\ failures \in Nat /\ frames \in Nat
      /\ MaxPackets \in Nat /\ MaxFailures \in Nat /\ video_frame_count \in 0 .. Wrap
  BY FMVAssumption DEF IInv, TypeOK
<1>2. CASE Connect \/ Send \/ flush_cached_frames \/ getMAT \/ freeStuff \/ UNCHANGED vars
  <2>1. UNCHANGED <<reads, failures, frames, video_frame_count>>
    BY <1>2 DEF Connect, Send, flush_cached_frames, getMAT, freeStuff, vars, ghosts
  <2>. QED BY <2>1 DEF Bounded
<1>3. CASE Extract
  <2>1. UNCHANGED <<reads, frames, video_frame_count>>
    BY <1>3 DEF Extract
  <2>2. failures' <= MaxFailures
    BY <1>1, <1>3 DEF Extract, Bounded
  <2>. QED BY <2>1, <2>2 DEF Bounded
<1>4. CASE Read
  <2>1. UNCHANGED <<failures, frames, video_frame_count>>
    BY <1>4 DEF Read
  <2>2. reads' = reads \/ (reads < MaxPackets /\ reads' = reads + 1)
    BY <1>4, Zenon DEF Read
  <2>. QED BY <1>1, <2>1, <2>2 DEF Bounded
<1>5. CASE Receive
  <2>1. UNCHANGED <<reads, failures>>
    BY <1>5 DEF Receive
  <2>2. \/ UNCHANGED <<frames, video_frame_count>>
        \/ video_frame_count' = increase_current_frame_number(video_frame_count)
    BY <1>5 DEF Receive, Deliver
  <2>3. increase_current_frame_number(video_frame_count) > 0
    BY <1>1, NextNumber
  <2>. QED BY <2>1, <2>2, <2>3 DEF Bounded
<1>6. CASE Set
  <2>1. UNCHANGED <<reads, failures, frames>>
    BY <1>6 DEF Set, ghosts
  <2>2. increase_current_frame_number(video_frame_count) > 0
    BY <1>1, NextNumber
  <2>. QED BY <1>6, <2>1, <2>2 DEF Set, Bounded
<1>. QED BY <1>2, <1>3, <1>4, <1>5, <1>6 DEF Next, Step

LEMMA BoundedInductive == Spec => [](IInv /\ Bounded)
<1>1. Init => Bounded
  BY FMVAssumption DEF Init, Bounded
<1>. QED BY <1>1, BoundedStep, Invariant, PTL DEF Spec

LEMMA LeftType == IInv /\ Bounded => Left \in Counts
<1> SUFFICES ASSUME IInv, Bounded PROVE Left \in Counts
  OBVIOUS
<1>1. reads \in Nat /\ Deliverable(dec) \in Nat /\ MaxPackets \in Nat /\ reads <= MaxPackets
  BY DeliverableType, FMVAssumption DEF IInv, TypeOK, Bounded
<1>2. Pictures \in Nat
  BY <1>1 DEF Pictures
<1>3. Way \in Nat
  BY DEF Way
<1>. QED BY <1>1, <1>2, <1>3 DEF Left, Counts

LEMMA LeftTypeNext == (IInv /\ Bounded => Left \in Counts)'
  BY LeftType, PTL

(* A packet is sent and a frame received on the way; whether more than one *)
(* comes out is the codec's to say.                                        *)
LEMMA SendCounts ==
  ASSUME IInv, IInv', Send
  PROVE  /\ pc = "send" /\ UNCHANGED <<reads, failures, video_frame_count>>
         /\ Pictures' <= Pictures
         /\ \/ pc' \in {"crashed", "receive"}
            \/ pc' = "idle" /\ (method = "flush" \/ ret' = video_frame_count)
<1>1. /\ dec \in Codec /\ Deliverable(dec) \in Nat /\ Deliverable(dec') \in Nat
      /\ pkt \in Packets
  BY DeliverableType DEF IInv, TypeOK
<1>2. /\ pc = "send" /\ UNCHANGED <<reads, failures, video_frame_count, pkt>>
  BY DEF Send, ghosts
<1>3. CASE ~IsOpen(dec)
  <2>1. pc' = "crashed" /\ dec' = dec
    BY <1>3 DEF Send
  <2>. QED BY <1>1, <1>2, <2>1 DEF Pictures
<1>4. CASE IsOpen(dec)
  <2>1. PICK o \in SendPacket(dec, pkt) :
          dec' = o.dec /\ IF o.ret = "ok" THEN pc' = "receive" ELSE Return(TRUE)
    BY <1>4 DEF Send
  <2>2. Deliverable(dec') <= Deliverable(dec) + (IF pkt = "null" THEN 0 ELSE 1)
    BY <1>1, <2>1, DeliverableSent
  <2>3. pc' # "send" => Pictures' <= Pictures
    BY <1>1, <1>2, <2>1, <2>2 DEF Pictures
  <2>4. Return(TRUE) => pc' = "idle" /\ (method = "flush" \/ ret' = video_frame_count)
    BY DEF Return, AfterPacket
  <2>. QED BY <1>2, <2>1, <2>3, <2>4
<1>. QED BY <1>3, <1>4

LEMMA ReceiveCounts ==
  ASSUME IInv, IInv', Receive
  PROVE  /\ pc = "receive" /\ UNCHANGED <<reads, failures>>
         /\ Pictures' <= Pictures
         /\ \/ pc' = "receive" /\ Pictures' < Pictures
            \/ pc' = "crashed"
            \/ /\ pc' = "idle" /\ video_frame_count' = video_frame_count
               /\ method = "flush" \/ ret' = video_frame_count
<1>1. /\ dec \in Codec /\ Deliverable(dec) \in Nat /\ Deliverable(dec') \in Nat
  BY DeliverableType DEF IInv, TypeOK
<1>2. /\ pc = "receive" /\ UNCHANGED <<reads, failures, pkt, method>>
  BY DEF Receive
<1>3. CASE ~pFrame
  <2>1. pc' = "crashed" /\ dec' = dec
    BY <1>3 DEF Receive
  <2>. QED BY <1>1, <1>2, <2>1 DEF Pictures
<1>4. CASE pFrame
  <2>1. PICK o \in ReceiveFrame(dec) :
          /\ dec' = o.dec
          /\ IF o.ret = "ok" THEN pc' \in {"crashed", "receive"}
             ELSE Return(o.ret = "error") /\ video_frame_count' = video_frame_count
    BY <1>4 DEF Receive, Deliver
  <2>2. /\ Deliverable(dec') <= Deliverable(dec)
        /\ o.ret = "ok" => Deliverable(dec') < Deliverable(dec)
    BY <1>1, <2>1, DeliverableReceived
  <2>3. Return(o.ret = "error") => pc' = "idle" /\ (method = "flush" \/ ret' = video_frame_count)
    BY DEF Return, AfterPacket
  <2>4. pc' # "send"
    BY <2>1, <2>3
  <2>. QED BY <1>1, <1>2, <2>1, <2>2, <2>3, <2>4 DEF Pictures
<1>. QED BY <1>3, <1>4

LEMMA ReadCounts ==
  ASSUME IInv, Read
  PROVE  /\ pc = "read" /\ UNCHANGED <<dec, failures, video_frame_count>>
         /\ \/ pc' = "idle" /\ ret' = 0 /\ UNCHANGED <<pkt, reads>>
            \/ reads' = reads + 1
<1>1. pc = "read" /\ UNCHANGED <<dec, failures, video_frame_count>>
  BY DEF Read
<1>2. \/ pc' = "idle" /\ ret' = 0 /\ UNCHANGED <<pkt, reads>>
      \/ reads' = reads + 1
  BY Zenon DEF Read
<1>. QED BY <1>1, <1>2

LEMMA StepFalls == IInv /\ Bounded /\ IInv' /\ Bounded' /\ Step => Less(Left', Left)
<1> SUFFICES ASSUME IInv, Bounded, IInv', Bounded', Step PROVE Less(Left', Left)
  OBVIOUS
<1>1. /\ Left \in Counts /\ Left[1] = MaxPackets - reads /\ Left[2] = Pictures /\ Left[3] = Way
      /\ Left' \in Counts /\ Left'[1] = MaxPackets - reads' /\ Left'[2] = Pictures'
      /\ Left'[3] = Way'
  BY LeftType, LeftTypeNext DEF Left
<1>2. /\ MaxPackets \in Nat /\ reads \in Nat /\ reads' \in Nat
      /\ Pictures \in Nat /\ Pictures' \in Nat
  BY <1>1, FMVAssumption DEF IInv, TypeOK, Counts
<1>3. CASE Read
  <2>1. pc = "read" /\ UNCHANGED dec
    BY <1>3, ReadCounts
  <2>2. CASE pc' = "idle" /\ UNCHANGED <<pkt, reads>>
    <3>1. Pictures' <= Pictures /\ Way' < Way
      BY <1>2, <2>1, <2>2 DEF Pictures, Way
    <3>. QED BY <1>1, <1>2, <2>2, <3>1, LessByThird
  <2>3. CASE reads' = reads + 1
    <3>1. Left'[1] < Left[1]
      BY <1>1, <1>2, <2>3
    <3>. QED BY <1>1, <3>1, LessByFirst
  <2>. QED BY <1>3, <2>2, <2>3, ReadCounts
<1>4. CASE Send
  <2>1. Way' < Way
    BY <1>4, SendCounts DEF Way
  <2>. QED BY <1>1, <1>2, <1>4, <2>1, SendCounts, LessByThird
<1>5. CASE Receive
  <2>1. CASE Pictures' < Pictures
    BY <1>1, <1>2, <1>5, <2>1, ReceiveCounts, LessBySecond
  <2>2. CASE pc' \in {"crashed", "idle"}
    <3>1. Way' < Way
      BY <1>5, <2>2, ReceiveCounts DEF Way
    <3>. QED BY <1>1, <1>2, <1>5, <3>1, ReceiveCounts, LessByThird
  <2>. QED BY <1>5, <2>1, <2>2, ReceiveCounts
<1>. QED BY <1>3, <1>4, <1>5 DEF Step

(* Every statement of a method leaves less to do, in an order in which     *)
(* nothing goes down for ever: whatever a client called before, no packet  *)
(* keeps decode_packet in its loop, and the method returns.                *)
THEOREM MethodsRunOut == Spec => [](Left \in Counts) /\ [][Step => Less(Left', Left)]_vars
<1>1. /\ (IInv /\ Bounded) /\ (IInv /\ Bounded)' /\ [Next]_vars
      => [Step => Less(Left', Left)]_vars
  BY StepFalls
<1>. QED BY <1>1, LeftType, BoundedInductive, PTL DEF Spec

(* Where a loop is between a packet and the next.  It goes on after an     *)
(* extraction that returned the counter, and ends after one that returned  *)
(* another number, so the way divides there.                               *)
Again == frame_num = video_frame_count

MainWay ==
  CASE at = "call" /\ pc = "send"                             -> 9
    [] at = "call" /\ pc = "receive"                          -> 8
    [] at = "call" /\ pc = "idle" /\ ret = video_frame_count  -> 7
    [] at = "show" /\ Again                                   -> 6
    [] at = "while" /\ Again                                  -> 5
    [] at = "call" /\ pc = "read"                             -> 4
    [] at = "call" /\ pc = "idle" /\ ret # video_frame_count  -> 3
    [] at = "show" /\ ~Again                                  -> 2
    [] at = "while" /\ ~Again                                 -> 1
    [] OTHER                                                  -> 0

Supply == (MaxPackets - reads) + (MaxFailures - failures)

MainLeft == <<Supply, Pictures, MainWay>>

LEMMA MainLeftType == IInv /\ Bounded => MainLeft \in Counts
<1> SUFFICES ASSUME IInv, Bounded PROVE MainLeft \in Counts
  OBVIOUS
<1>1. Supply \in Nat
  BY FMVAssumption DEF Supply, IInv, TypeOK, Bounded
<1>2. Pictures \in Nat
  BY LeftType DEF Left, Counts
<1>3. MainWay \in Nat
  BY DEF MainWay
<1>. QED BY <1>1, <1>2, <1>3 DEF MainLeft, Counts

LEMMA MainLeftTypeNext == (IInv /\ Bounded => MainLeft \in Counts)'
  BY MainLeftType, PTL

LEMMA MainStepFalls ==
  ASSUME MainInv, IInv, Bounded, IInv', Bounded', LoopNext, frames > 0
  PROVE  Less(MainLeft', MainLeft)
<1>1. /\ MainLeft \in Counts /\ MainLeft[1] = Supply /\ MainLeft[2] = Pictures
      /\ MainLeft[3] = MainWay
      /\ MainLeft' \in Counts /\ MainLeft'[1] = Supply' /\ MainLeft'[2] = Pictures'
      /\ MainLeft'[3] = MainWay'
  BY MainLeftType, MainLeftTypeNext DEF MainLeft
<1>2. /\ MaxPackets \in Nat /\ MaxFailures \in Nat /\ reads \in Nat /\ failures \in Nat
      /\ video_frame_count \in Nat /\ video_frame_count # 0
      /\ Pictures \in Nat /\ Pictures' \in Nat /\ Supply \in Nat
  BY <1>1, FMVAssumption DEF Bounded, IInv, TypeOK, Counts
<1>3. CASE MainConnect
  BY <1>3 DEF MainConnect, Connect, IInv, Fresh
<1>4. CASE MainExtract
  <2>1. /\ at = "while" /\ frame_num = video_frame_count /\ at' = "call" /\ pc = "idle"
        /\ UNCHANGED <<dec, pkt, reads, video_frame_count>>
    BY <1>4 DEF MainExtract, Extract
  <2>2. \/ failures' = failures /\ pc' = "idle" /\ ret' = 0
        \/ failures' = failures + 1 /\ pc' = "idle"
        \/ failures' = failures /\ pc' = "read"
    BY <1>4, Zenon DEF MainExtract, Extract
  <2>3. Pictures' <= Pictures
    BY <1>2, <2>1, <2>2 DEF Pictures
  <2>4. CASE failures' = failures + 1
    <3>1. Supply' < Supply
      BY <1>2, <2>1, <2>4 DEF Supply
    <3>. QED BY <1>1, <3>1, LessByFirst
  <2>5. CASE failures' = failures /\ (pc' = "read" \/ (pc' = "idle" /\ ret' = 0))
    <3>1. Supply' <= Supply
      BY <1>2, <2>1, <2>5 DEF Supply
    <3>2. MainWay = 5 /\ MainWay' \in {3, 4}
      BY <1>2, <2>1, <2>5 DEF MainWay, Again
    <3>. QED BY <1>1, <2>3, <3>1, <3>2, LessByThird
  <2>. QED BY <2>2, <2>4, <2>5
<1>5. CASE MainStep
  <2>1. at = "call" /\ at' = "call" /\ Step /\ method = "extract"
    BY <1>5 DEF MainStep, MainInv, Order
  <2>2. CASE Read
    <3>1. pc = "read" /\ UNCHANGED <<dec, failures, video_frame_count>>
      BY <2>2, ReadCounts
    <3>2. CASE pc' = "idle" /\ ret' = 0 /\ UNCHANGED <<pkt, reads>>
      <4>1. Supply' <= Supply /\ Pictures' <= Pictures
        BY <1>2, <3>1, <3>2 DEF Supply, Pictures
      <4>2. MainWay = 4 /\ MainWay' = 3
        BY <1>2, <2>1, <3>1, <3>2 DEF MainWay
      <4>. QED BY <1>1, <4>1, <4>2, LessByThird
    <3>3. CASE reads' = reads + 1
      <4>1. Supply' < Supply
        BY <1>2, <3>1, <3>3 DEF Supply
      <4>. QED BY <1>1, <4>1, LessByFirst
    <3>. QED BY <2>2, <3>2, <3>3, ReadCounts
  <2>3. CASE Send
    <3>1. Supply' <= Supply /\ Pictures' <= Pictures
      BY <1>2, <2>3, SendCounts DEF Supply
    <3>2. MainWay = 9 /\ MainWay' < 9
      BY <2>1, <2>3, SendCounts DEF MainWay, Again
    <3>. QED BY <1>1, <3>1, <3>2, LessByThird
  <2>4. CASE Receive
    <3>1. Supply' <= Supply /\ Pictures' <= Pictures
      BY <1>2, <2>4, ReceiveCounts DEF Supply
    <3>2. CASE Pictures' < Pictures
      BY <1>1, <3>1, <3>2, LessBySecond
    <3>3. CASE pc' = "crashed" \/ (pc' = "idle" /\ ret' = video_frame_count')
      <4>1. MainWay = 8 /\ MainWay' < 8
        BY <2>1, <2>4, <3>3, ReceiveCounts DEF MainWay, Again
      <4>. QED BY <1>1, <3>1, <4>1, LessByThird
    <3>. QED BY <2>1, <2>4, <3>2, <3>3, ReceiveCounts
  <2>. QED BY <2>1, <2>2, <2>3, <2>4 DEF Step
<1>6. CASE MainAssign
  <2>1. /\ at = "call" /\ pc = "idle" /\ at' \in {"while", "show"} /\ frame_num' = ret
        /\ UNCHANGED <<dec, pkt, pc, reads, failures, video_frame_count>>
    BY <1>6 DEF MainAssign, vars, ghosts
  <2>2. Supply' <= Supply /\ Pictures' <= Pictures
    BY <1>2, <2>1 DEF Supply, Pictures
  <2>3. MainWay' < MainWay
    BY <2>1 DEF MainWay, Again
  <2>. QED BY <1>1, <2>2, <2>3, LessByThird
<1>7. CASE MainFree
  <2>1. /\ at = "while" /\ frame_num # video_frame_count /\ at' = "return" /\ pc' = "freed"
        /\ dec' = NoCodec /\ UNCHANGED <<reads, failures>>
    BY <1>7 DEF MainFree, freeStuff, ghosts
  <2>2. Deliverable(NoCodec) = 0 /\ Deliverable(dec) \in Nat
    BY DeliverableType DEF NoCodec, Context, Deliverable, Undelivered, IInv, TypeOK
  <2>3. Supply' <= Supply /\ Pictures' <= Pictures
    BY <1>2, <2>1, <2>2 DEF Supply, Pictures
  <2>4. MainWay = 1 /\ MainWay' = 0
    BY <2>1 DEF MainWay, Again
  <2>. QED BY <1>1, <2>3, <2>4, LessByThird
<1>8. CASE MainShow
  <2>1. /\ at = "show" /\ at' = "while" /\ pc = "idle" /\ pc' # "send"
        /\ UNCHANGED <<dec, frame_num, reads, failures, video_frame_count>>
    BY <1>8 DEF MainShow, getMAT, ghosts
  <2>2. Supply' <= Supply /\ Pictures' <= Pictures
    BY <1>2, <2>1 DEF Supply, Pictures
  <2>3. MainWay' < MainWay
    BY <2>1 DEF MainWay, Again
  <2>. QED BY <1>1, <2>2, <2>3, LessByThird
<1>. QED BY <1>3, <1>4, <1>5, <1>6, <1>7, <1>8 DEF LoopNext

(* efmvs.cpp:430-445: once a frame has come out, every step of a loop      *)
(* leaves less to do, in an order in which nothing goes down for ever: an  *)
(* error, or a packet without a frame, cannot keep it going.               *)
THEOREM MainRunsOut ==
  MainSpec => /\ [](MainLeft \in Counts)
              /\ [][LoopNext /\ frames > 0 => Less(MainLeft', MainLeft)]_mainVars
<1>1. /\ (MainInv /\ IInv) /\ Bounded /\ (MainInv /\ IInv)' /\ Bounded' /\ [MainNext]_mainVars
      => [LoopNext /\ frames > 0 => Less(MainLeft', MainLeft)]_mainVars
  BY MainStepFalls
<1>2. IInv /\ Bounded => MainLeft \in Counts
  BY MainLeftType
<1>. QED BY <1>1, <1>2, MainIsAClient, BoundedInductive, MainInvariant, PTL DEF MainSpec

--------------------------------------------------------------------------------
(* The frames received from the context, and the pictures that may still   *)
(* come, are those of the packets read, by whatever methods.               *)
FromPackets == frames + Pictures <= reads

LEMMA FramesReceived ==
  ASSUME IInv, IInv', Receive
  PROVE  frames' + Pictures' <= frames + Pictures
<1>1. /\ dec \in Codec /\ Deliverable(dec) \in Nat /\ Deliverable(dec') \in Nat
      /\ frames \in Nat
  BY DeliverableType DEF IInv, TypeOK
<1>2. pc = "receive" /\ pc' # "send"
  BY ReceiveCounts
<1>3. CASE ~pFrame
  <2>1. UNCHANGED <<dec, frames>>
    BY <1>3 DEF Receive
  <2>. QED BY <1>1, <1>2, <2>1 DEF Pictures
<1>4. CASE pFrame
  <2>1. PICK o \in ReceiveFrame(dec) :
          dec' = o.dec /\ frames' = IF o.ret = "ok" THEN frames + 1 ELSE frames
    BY <1>4 DEF Receive, Deliver
  <2>2. /\ Deliverable(dec') <= Deliverable(dec)
        /\ o.ret = "ok" => Deliverable(dec') < Deliverable(dec)
    BY <1>1, <2>1, DeliverableReceived
  <2>. QED BY <1>1, <1>2, <2>1, <2>2 DEF Pictures
<1>. QED BY <1>3, <1>4

LEMMA FromPacketsStep == IInv /\ IInv' /\ FromPackets /\ [Next]_vars => FromPackets'
<1> SUFFICES ASSUME IInv, IInv', FromPackets, [Next]_vars PROVE FromPackets'
  OBVIOUS
<1>1. /\ frames \in Nat /\ frames' \in Nat /\ reads \in Nat /\ reads' \in Nat
      /\ pkt \in Packets /\ Deliverable(dec) \in Nat /\ Deliverable(dec') \in Nat
  BY DeliverableType DEF IInv, TypeOK
<1>2. Deliverable(NoCodec) = 0 /\ Deliverable(Opened) = 0
  BY DEF NoCodec, Opened, Context, Deliverable, Undelivered
<1>3. CASE Connect \/ freeStuff
  <2>1. dec' \in {dec, NoCodec, Opened} /\ pc' # "send" /\ UNCHANGED <<frames, reads>>
    BY <1>3 DEF Connect, freeStuff, ghosts
  <2>. QED BY <1>1, <1>2, <2>1 DEF FromPackets, Pictures
<1>4. CASE Extract
  <2>1. UNCHANGED <<dec, frames, reads>> /\ pc = "idle"
    BY <1>4 DEF Extract
  <2>2. pc' # "send"
    BY <1>4, <2>1, Zenon DEF Extract
  <2>. QED BY <1>1, <2>1, <2>2 DEF FromPackets, Pictures
<1>5. CASE flush_cached_frames
  <2>1. UNCHANGED <<dec, frames, reads>> /\ pkt' = "null"
    BY <1>5 DEF flush_cached_frames
  <2>. QED BY <1>1, <2>1 DEF FromPackets, Pictures
<1>6. CASE Read
  <2>1. pc = "read" /\ UNCHANGED <<dec, frames>>
    BY <1>6 DEF Read
  <2>2. \/ pc' = "idle" /\ UNCHANGED reads
        \/ reads' = reads + 1
    BY <1>6, ReadCounts
  <2>. QED BY <1>1, <2>1, <2>2 DEF FromPackets, Pictures
<1>7. CASE Send
  <2>1. UNCHANGED <<reads, frames>> /\ Pictures' <= Pictures
    BY <1>7, SendCounts DEF Send, ghosts
  <2>. QED BY <1>1, <2>1 DEF FromPackets, Pictures
<1>8. CASE Receive
  <2>1. reads' = reads /\ frames' + Pictures' <= frames + Pictures
    BY <1>8, FramesReceived, ReceiveCounts
  <2>. QED BY <1>1, <2>1 DEF FromPackets, Pictures
<1>9. CASE UNCHANGED vars
  BY <1>9 DEF vars, ghosts, FromPackets, Pictures
<1>10. CASE getMAT \/ Set
  <2>1. UNCHANGED <<dec, frames, reads>> /\ pc' # "send"
    BY <1>10 DEF getMAT, Set, ghosts
  <2>. QED BY <1>1, <2>1 DEF FromPackets, Pictures
<1>. QED BY <1>3, <1>4, <1>5, <1>6, <1>7, <1>8, <1>9, <1>10 DEF Next, Step

(* The class never hands out more frames than it has read packets, however *)
(* a client mixes extractions and flushes: a picture left behind by one    *)
(* method is not delivered twice by others.                                *)
THEOREM NoFrameWithoutPacket == Spec => [](frames <= reads)
<1>1. Init => FromPackets
  BY DEF Init, FromPackets, Pictures, NoCodec, Context, Deliverable, Undelivered
<1>2. IInv /\ FromPackets => frames <= reads
  <2>. SUFFICES ASSUME IInv, FromPackets PROVE frames <= reads
    OBVIOUS
  <2>1. Deliverable(dec) \in Nat /\ frames \in Nat /\ reads \in Nat
    BY DeliverableType DEF IInv, TypeOK
  <2>. QED BY <2>1 DEF FromPackets, Pictures
<1>. QED BY <1>1, <1>2, FromPacketsStep, Invariant, PTL DEF Spec

================================================================================
