------------------------------- MODULE FrameQueue -------------------------------
(***************************************************************************)
(* include/custom/queue.c, the circular buffer that hands frames with      *)
(* their motion vectors from the extractor to its caller.  The client is   *)
(* the one of experiments/queue-2.c: it inserts whenever it likes, full or *)
(* not, and removes and peeks while the queue is not empty.                *)
(***************************************************************************)
EXTENDS Integers, Sequences

CONSTANTS MAX_FRAMES,       \* the size of the buffer, 250 in the code
          Items,            \* frames with their vectors
          Garbage           \* what malloc left in a slot never written

ASSUME CapacityAssumption == MAX_FRAMES \in Nat \ {0}

VARIABLES queue, front, rear, itemCount,
          data              \* what peek or dequeueFrameData returned last

vars == <<queue, front, rear, itemCount, data>>

Slots == 0 .. MAX_FRAMES - 1

Init ==
  /\ queue = [s \in Slots |-> Garbage]
  /\ front = 0 /\ rear = -1 /\ itemCount = 0
  /\ data = Garbage

isEmpty == itemCount = 0
isFull == itemCount = MAX_FRAMES

(* Mutant: no test for a full queue.                                       *)
enqueueUnguarded(x) ==
  /\ rear' = (IF rear = MAX_FRAMES - 1 THEN -1 ELSE rear) + 1
  /\ queue' = [queue EXCEPT ![rear'] = x]
  /\ itemCount' = itemCount + 1
  /\ UNCHANGED <<front, data>>

(* A full queue ignores the item.  rear wraps before it is advanced.       *)
enqueueFrameData(x) ==
  IF isFull THEN UNCHANGED vars
  ELSE /\ rear' = (IF rear = MAX_FRAMES - 1 THEN -1 ELSE rear) + 1
       /\ queue' = [queue EXCEPT ![rear'] = x]
       /\ itemCount' = itemCount + 1
       /\ UNCHANGED <<front, data>>

(* Mutant: front wraps one slot early.                                     *)
dequeueWrapsEarly ==
  /\ data' = queue[front]
  /\ front' = IF front + 1 >= MAX_FRAMES - 1 THEN 0 ELSE front + 1
  /\ itemCount' = itemCount - 1
  /\ UNCHANGED <<queue, rear>>

(* front is advanced and then wraps; an empty queue is not tested for.     *)
dequeueFrameData ==
  /\ data' = queue[front]
  /\ front' = IF front + 1 = MAX_FRAMES THEN 0 ELSE front + 1
  /\ itemCount' = itemCount - 1
  /\ UNCHANGED <<queue, rear>>

peek ==
  /\ data' = queue[front]
  /\ UNCHANGED <<queue, front, rear, itemCount>>

Next ==
  \/ \E x \in Items : enqueueFrameData(x)
  \/ ~isEmpty /\ dequeueFrameData
  \/ ~isEmpty /\ peek

Spec == Init /\ [][Next]_vars

--------------------------------------------------------------------------------
TypeOK ==
  /\ queue \in [Slots -> Items \cup {Garbage}]
  /\ front \in Slots /\ rear \in -1 .. MAX_FRAMES - 1
  /\ itemCount \in 0 .. MAX_FRAMES
  /\ data \in Items \cup {Garbage}

(* The slot of the k-th waiting item, counted from 1.                      *)
Slot(k) == IF front + k - 1 < MAX_FRAMES THEN front + k - 1
                                         ELSE front + k - 1 - MAX_FRAMES
Waiting == [k \in 1 .. itemCount |-> queue[Slot(k)]]

Fifo == INSTANCE BoundedFifo WITH Capacity <- MAX_FRAMES, fifo <- Waiting, out <- data

(* The three indices implement a bounded first-in first-out queue: no item *)
(* is lost, repeated, overtaken or overwritten at a wrap of the buffer.    *)
ImplementsFifo == Fifo!Spec

================================================================================
