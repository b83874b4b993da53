------------------------------ MODULE BoundedFifo -------------------------------
(***************************************************************************)
(* What a bounded queue of frames promises: items leave in the order they  *)
(* entered, each exactly once; an item offered to a full queue is dropped  *)
(* and changes nothing.                                                    *)
(***************************************************************************)
EXTENDS Naturals, Sequences

CONSTANTS Items, Capacity

VARIABLES fifo,     \* the items waiting
          out       \* the item handed out last

(* Nothing waits; what `out` holds before the first item left is open.     *)
Init == fifo = <<>>

Insert(x) ==
  /\ Len(fifo) < Capacity
  /\ fifo' = Append(fifo, x)
  /\ UNCHANGED out

Remove ==
  /\ fifo # <<>>
  /\ out' = Head(fifo)
  /\ fifo' = Tail(fifo)

Look ==
  /\ fifo # <<>>
  /\ out' = Head(fifo)
  /\ UNCHANGED fifo

Next == (\E x \in Items : Insert(x)) \/ Remove \/ Look

Spec == Init /\ [][Next]_<<fifo, out>>

================================================================================
