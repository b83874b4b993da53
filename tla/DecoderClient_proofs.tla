------------------------- MODULE DecoderClient_proofs --------------------------
(***************************************************************************)
(* Theorems about any client of the decoding interface.                    *)
(***************************************************************************)
EXTENDS DecoderClient, DecoderLemmas

(* The inductive invariant of a client.                                    *)
ClientInv ==
  /\ Consistent(dec)
  /\ sent \in 0 .. MaxPackets
  /\ last \in [op : {"none", "send", "receive"}, ret : Codes]
  /\ last = Last("receive", "eof") => dec.input = "done" /\ ~dec.out

LEMMA ClientInductive == Spec => []ClientInv
<1> USE ClientAssumption
<1>1. Init => ClientInv
  BY OpenedConsistent DEF Init, ClientInv, Last, Codes
<1>2. ClientInv /\ [Next]_vars => ClientInv'
  <2> SUFFICES ASSUME ClientInv, [Next]_vars PROVE ClientInv'
    OBVIOUS
  <2>1. CASE Receive
    BY <2>1, ReceiveFrameOutcome DEF Receive, ClientInv, Last
  <2>2. CASE \E pkt \in Packets : Send(pkt)
    BY <2>2, SendPacketOutcome DEF Send, ClientInv, Last
  <2>3. CASE UNCHANGED vars
    BY <2>3 DEF ClientInv, vars, Last
  <2>. QED BY <2>1, <2>2, <2>3 DEF Next
<1>. QED BY <1>1, <1>2, PTL DEF Spec

(* Whatever its client does, the context keeps its type.                   *)
THEOREM ClientTypeOK == Spec => []TypeOK
<1>1. ClientInv => TypeOK
  BY DEF ClientInv, Consistent, TypeOK
<1>. QED BY <1>1, ClientInductive, PTL

(* No order of calls makes the context lose a decoded picture.             *)
THEOREM ClientNoPictureLost == Spec => []NoPictureLost
<1>1. ClientInv => NoPictureLost
  BY DEF ClientInv, Consistent, NoPictureLost
<1>. QED BY <1>1, ClientInductive, PTL

(* The end of the stream, without an error on the way, means that every    *)
(* picture has been received.                                              *)
THEOREM ClientEofMeansDrained == Spec => []EofMeansDrained
<1>1. ClientInv => EofMeansDrained
  BY DEF ClientInv, Consistent, EofMeansDrained, Last, Undelivered, Codec
<1>. QED BY <1>1, ClientInductive, PTL

================================================================================
