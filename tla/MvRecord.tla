-------------------------------- MODULE MvRecord --------------------------------
(***************************************************************************)
(* What one motion vector becomes: libavcodec exports it relative to the   *)
(* frame it is decoded for (libavutil/motion_vector.h), the extractors     *)
(* write it as a JSON object that runs forward in time, and the overlay of *)
(* the Python package draws it as an arrow.  x and y are treated alike by  *)
(* all three, so one coordinate stands for both.                           *)
(***************************************************************************)
EXTENDS Integers

CONSTANTS Positions,    \* bound: coordinates of a block, also outside the frame
          Sources       \* the values of `source` that decoders set

ASSUME SourcesAssumption ==
  Positions \subseteq Int /\ Sources \subseteq Int \ {0}

VARIABLES stage,        \* "moved", "exported", "written", "drawn"
          earlier, later,           \* where the block is in the earlier and later frame
          vector,       \* the AVMotionVector
          obj,          \* the JSON object
          arrow         \* the ends of the drawn arrow

recordVars == <<stage, earlier, later, vector, obj, arrow>>

abs(a) == IF a < 0 THEN -a ELSE a

(* The division of C truncates towards zero.                               *)
Quotient(a, b) == IF a < 0 THEN -((-a) \div b) ELSE a \div b

RecordInit ==
  /\ stage = "moved"
  /\ earlier \in Positions /\ later \in Positions
  /\ vector = [source |-> 0, src |-> 0, dst |-> 0]
  /\ obj = [source |-> 0, src |-> 0, dst |-> 0, d |-> 0]
  /\ arrow = <<0, 0>>

(* The decoder exports the motion of a block: dst is its place in the      *)
(* frame decoded, src its place in the past (source < 0) or future frame.  *)
Export ==
  /\ stage = "moved" /\ stage' = "exported"
  /\ \E s \in Sources :
       vector' = IF s < 0 THEN [source |-> s, src |-> earlier, dst |-> later]
                      ELSE [source |-> s, src |-> later, dst |-> earlier]
  /\ UNCHANGED <<earlier, later, obj, arrow>>

(* Mutant: vectors into the future are written as they are.                *)
ObjectUnswapped(v) ==
  LET a == abs(v.source)
  IN [source |-> v.source, src |-> Quotient(v.src, a), dst |-> Quotient(v.dst, a),
      d |-> Quotient(v.dst - v.src, a)]

(* Mutant: the ends are swapped for the future, the displacement is not.   *)
ObjectBackwards(v) ==
  LET a == abs(v.source)
  IN IF v.source < 0
     THEN [source |-> v.source, src |-> Quotient(v.src, a),
           dst |-> Quotient(v.dst, a), d |-> Quotient(v.dst - v.src, a)]
     ELSE [source |-> v.source, src |-> Quotient(v.dst, a),
           dst |-> Quotient(v.src, a), d |-> Quotient(v.dst - v.src, a)]

(* The fields fprintf writes for a vector.                                 *)
Object(v) ==
  LET a == abs(v.source)
  IN IF v.source < 0
     THEN [source |-> v.source, src |-> Quotient(v.src, a),
           dst |-> Quotient(v.dst, a), d |-> Quotient(v.dst - v.src, a)]
     ELSE [source |-> v.source, src |-> Quotient(v.dst, a),
           dst |-> Quotient(v.src, a), d |-> Quotient(v.src - v.dst, a)]

Write ==
  /\ stage = "exported" /\ stage' = "written"
  /\ obj' = Object(vector)
  /\ UNCHANGED <<earlier, later, vector, arrow>>

(* The overlay at scale 1: from src, along the displacement.                *)
Draw ==
  /\ stage = "written" /\ stage' = "drawn"
  /\ arrow' = <<obj.src, obj.src + obj.d>>
  /\ UNCHANGED <<earlier, later, vector, obj>>

RecordNext == Export \/ Write \/ Draw

RecordSpec == RecordInit /\ [][RecordNext]_recordVars

--------------------------------------------------------------------------------
(* An object runs forward in time whichever frame the vector refers to:    *)
(* from the place in the earlier frame to the place in the later one, both *)
(* divided by the distance of the reference.                               *)
RunsForward ==
  stage \in {"written", "drawn"} =>
    LET a == abs(vector.source)
    IN obj.src = Quotient(earlier, a) /\ obj.dst = Quotient(later, a)

(* The three fields are rounded on their own.  The arrow still ends at dst *)
(* for the sources 1 and -1, and misses it by at most one pixel otherwise. *)
ArrowReachesDst ==
  stage = "drawn" =>
    LET miss == abs(arrow[2] - obj.dst)
    IN miss <= 1 /\ (abs(obj.source) = 1 => miss = 0 /\ arrow = <<earlier, later>>)

================================================================================
