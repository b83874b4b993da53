---------------------------- MODULE FrameQueue_proofs ----------------------------
(***************************************************************************)
(* The circular buffer is a first-in first-out queue for every capacity.   *)
(***************************************************************************)
EXTENDS FrameQueue, SequenceTheorems, TLAPS

(* The indices agree: rear is the slot of the item that entered last, one  *)
(* before the slot after itemCount items from front, around the buffer;    *)
(* the empty queue whose indices sit at either end of it counts too.       *)
Indices ==
  \/ rear + 1 = front + itemCount
  \/ rear + 1 = MAX_FRAMES /\ front = 0 /\ itemCount = 0
  \/ rear + 1 = front + itemCount - MAX_FRAMES

IInv == TypeOK /\ Indices

LEMMA InitIInv == Init => IInv
  BY CapacityAssumption DEF Init, IInv, TypeOK, Indices, Slots

(* The slot an item is written to is the one after the last waiting item.  *)
LEMMA NextSlot ==
  ASSUME IInv, itemCount # MAX_FRAMES
  PROVE  /\ (IF rear = MAX_FRAMES - 1 THEN -1 ELSE rear) + 1 = Slot(itemCount + 1)
         /\ Slot(itemCount + 1) \in Slots
  BY CapacityAssumption DEF IInv, TypeOK, Indices, Slot, Slots

(* Two places of the queue never share a slot.                             *)
LEMMA SlotsDiffer ==
  ASSUME IInv, NEW k \in 1 .. MAX_FRAMES, NEW l \in 1 .. MAX_FRAMES, k # l
  PROVE  Slot(k) # Slot(l) /\ Slot(k) \in Slots
  BY CapacityAssumption DEF IInv, TypeOK, Slot, Slots

LEMMA WaitingType ==
  ASSUME IInv
  PROVE  /\ Waiting \in Seq(Items \cup {Garbage})
         /\ Len(Waiting) = itemCount
         /\ \A k \in 1 .. itemCount : Waiting[k] = queue[Slot(k)]
<1>1. \A k \in 1 .. itemCount : Slot(k) \in Slots
  BY CapacityAssumption DEF IInv, TypeOK, Slot, Slots
<1>2. itemCount \in Nat /\ \A k \in 1 .. itemCount : queue[Slot(k)] \in Items \cup {Garbage}
  BY <1>1, CapacityAssumption DEF IInv, TypeOK
<1>. QED BY <1>2 DEF Waiting

LEMMA StepIInv == IInv /\ [Next]_vars => IInv'
<1> SUFFICES ASSUME IInv, [Next]_vars PROVE IInv'
  OBVIOUS
<1>1. ASSUME NEW x \in Items, enqueueFrameData(x) PROVE IInv'
  <2>1. CASE isFull
    BY <1>1, <2>1 DEF enqueueFrameData, vars, IInv, TypeOK, Indices
  <2>2. CASE ~isFull
    BY <1>1, <2>2, CapacityAssumption
       DEF enqueueFrameData, isFull, IInv, TypeOK, Indices, Slots
  <2>. QED BY <2>1, <2>2
<1>2. CASE ~isEmpty /\ dequeueFrameData
  <2>1. /\ itemCount' = itemCount - 1 /\ queue' = queue /\ rear' = rear
        /\ front' = IF front + 1 = MAX_FRAMES THEN 0 ELSE front + 1
        /\ itemCount # 0 /\ data' = queue[front]
    BY <1>2 DEF dequeueFrameData, isEmpty
  <2>2. /\ itemCount' \in 0 .. MAX_FRAMES /\ front' \in Slots
        /\ data' \in Items \cup {Garbage}
    BY <2>1, CapacityAssumption DEF IInv, TypeOK, Slots
  <2>3. Indices'
    BY <2>1, CapacityAssumption DEF IInv, TypeOK, Indices, Slots
  <2>. QED BY <2>1, <2>2, <2>3 DEF IInv, TypeOK, Slots
<1>3. CASE ~isEmpty /\ peek
  BY <1>3, CapacityAssumption DEF peek, isEmpty, IInv, TypeOK, Indices, Slots
<1>4. CASE UNCHANGED vars
  BY <1>4 DEF vars, IInv, TypeOK, Indices
<1>. QED BY <1>1, <1>2, <1>3, <1>4 DEF Next

(* The indices and the count stay inside the buffer: the code never writes *)
(* or reads beyond it, however many items are offered and taken.           *)
THEOREM QueueTypeOK == Spec => []TypeOK
<1>1. IInv => TypeOK
  BY DEF IInv
<1>. QED BY <1>1, InitIInv, StepIInv, PTL DEF Spec

LEMMA EnqueueRefines ==
  ASSUME IInv, IInv', NEW x \in Items, enqueueFrameData(x), ~isFull
  PROVE  Fifo!Insert(x)
<1>1. itemCount \in Nat /\ itemCount < MAX_FRAMES /\ itemCount' = itemCount + 1
  BY CapacityAssumption DEF enqueueFrameData, isFull, IInv, TypeOK
<1>2. queue' = [queue EXCEPT ![Slot(itemCount + 1)] = x] /\ front' = front /\ data' = data
  BY NextSlot DEF enqueueFrameData, isFull
<1>3. \A k \in 1 .. itemCount : Slot(k) \in Slots /\ Slot(k) # Slot(itemCount + 1)
  BY <1>1, SlotsDiffer, CapacityAssumption DEF IInv, TypeOK
<1>4. \A k \in Int : Slot(k)' = Slot(k)
  BY <1>2 DEF Slot
<1>5. \A k \in 1 .. itemCount : queue'[Slot(k)] = queue[Slot(k)]
  BY <1>2, <1>3 DEF IInv, TypeOK
<1>6. queue'[Slot(itemCount + 1)] = x
  BY <1>2, NextSlot DEF isFull, IInv, TypeOK
<1>7. Waiting' = [k \in 1 .. itemCount + 1 |-> IF k = itemCount + 1 THEN x ELSE queue[Slot(k)]]
  BY <1>1, <1>4, <1>5, <1>6 DEF Waiting
<1>8. Waiting' = Append(Waiting, x)
  <2> DEFINE S == Items \cup {Garbage}
  <2>1. x \in S /\ \A k \in 1 .. itemCount + 1 :
                    (IF k = itemCount + 1 THEN x ELSE queue[Slot(k)]) \in S
    BY <1>1, <1>3 DEF IInv, TypeOK
  <2>2. Waiting' \in Seq(S) /\ Len(Waiting') = itemCount + 1
    BY <1>1, <1>7, <2>1
  <2>3. /\ Waiting \in Seq(S) /\ Len(Waiting) = itemCount
        /\ \A k \in 1 .. itemCount : Waiting[k] = queue[Slot(k)]
    BY WaitingType
  <2>4. Append(Waiting, x) \in Seq(S) /\ Len(Append(Waiting, x)) = itemCount + 1
    BY <2>1, <2>3
  <2>5. ASSUME NEW k \in 1 .. itemCount + 1
        PROVE  Waiting'[k] = Append(Waiting, x)[k]
    BY <1>1, <1>7, <2>3, <2>5
  <2>. HIDE DEF S
  <2>. QED BY <2>2, <2>4, <2>5, SeqEqual
<1>. QED BY <1>1, <1>2, <1>8, WaitingType DEF Fifo!Insert

LEMMA DequeueRefines ==
  ASSUME IInv, IInv', ~isEmpty, dequeueFrameData
  PROVE  Fifo!Remove
<1>1. itemCount \in Nat /\ itemCount > 0 /\ itemCount' = itemCount - 1
  BY DEF dequeueFrameData, isEmpty, IInv, TypeOK
<1>2. front \in Slots /\ Slot(1) = front /\ queue' = queue /\ data' = queue[front]
  BY CapacityAssumption DEF dequeueFrameData, IInv, TypeOK, Slot, Slots
<1>3. \A k \in 1 .. itemCount - 1 : Slot(k)' = Slot(k + 1)
  BY CapacityAssumption DEF dequeueFrameData, IInv, TypeOK, Slot, Slots
<1>4. Waiting' = [k \in 1 .. itemCount - 1 |-> queue[Slot(k + 1)]]
  BY <1>1, <1>2, <1>3 DEF Waiting
<1>5. Waiting # <<>> /\ Head(Waiting) = data'
  BY <1>1, <1>2, WaitingType
<1>6. Tail(Waiting) = Waiting'
  <2> DEFINE S == Items \cup {Garbage}
  <2>1. /\ Waiting \in Seq(S) /\ Len(Waiting) = itemCount
        /\ \A k \in 1 .. itemCount : Waiting[k] = queue[Slot(k)]
    BY WaitingType
  <2>2. /\ Tail(Waiting) \in Seq(S) /\ Len(Tail(Waiting)) = itemCount - 1
        /\ \A k \in 1 .. itemCount - 1 : Tail(Waiting)[k] = Waiting[k + 1]
    <3> HIDE DEF S
    <3>. QED BY <1>5, <2>1, HeadTailProperties
  <2>3. \A k \in 1 .. itemCount - 1 : Waiting[k + 1] = queue[Slot(k + 1)]
    BY <1>1, <2>1
  <2>4. \A k \in 1 .. itemCount - 1 : queue[Slot(k + 1)] \in S
    BY <1>1, <1>2, <2>1, SlotsDiffer, CapacityAssumption DEF IInv, TypeOK, Slot, Slots
  <2>5. Waiting' \in Seq(S) /\ Len(Waiting') = itemCount - 1
    BY <1>1, <1>4, <2>4
  <2>6. \A k \in 1 .. itemCount - 1 : Waiting'[k] = Tail(Waiting)[k]
    BY <1>4, <2>2, <2>3
  <2>. HIDE DEF S
  <2>. QED BY <2>2, <2>5, <2>6, SeqEqual
<1>. QED BY <1>4, <1>5, <1>6 DEF Fifo!Remove

(* Every step of the buffer is a step of the abstract queue or none.       *)
LEMMA StepRefines == IInv /\ IInv' /\ [Next]_vars => [Fifo!Next]_<<Waiting, data>>
<1> SUFFICES ASSUME IInv, IInv', [Next]_vars
             PROVE  Fifo!Next \/ UNCHANGED <<Waiting, data>>
  OBVIOUS
<1>1. ASSUME NEW x \in Items, enqueueFrameData(x)
      PROVE  Fifo!Next \/ UNCHANGED <<Waiting, data>>
  <2>1. CASE isFull
    BY <1>1, <2>1 DEF enqueueFrameData, vars, Waiting, Slot
  <2>2. CASE ~isFull
    BY <1>1, <2>2, EnqueueRefines DEF Fifo!Next
  <2>. QED BY <2>1, <2>2
<1>2. CASE ~isEmpty /\ dequeueFrameData
  BY <1>2, DequeueRefines DEF Fifo!Next
<1>3. CASE ~isEmpty /\ peek
  <2>1. itemCount \in Nat /\ itemCount > 0 /\ Slot(1) = front /\ data' = queue[front]
    BY <1>3, CapacityAssumption DEF peek, isEmpty, IInv, TypeOK, Slot, Slots
  <2>2. Waiting # <<>> /\ Head(Waiting) = data'
    BY <2>1, WaitingType
  <2>3. Waiting' = Waiting
    BY <1>3 DEF peek, Waiting, Slot
  <2>. QED BY <2>2, <2>3 DEF Fifo!Next, Fifo!Look
<1>4. CASE UNCHANGED vars
  BY <1>4 DEF vars, Waiting, Slot
<1>. QED BY <1>1, <1>2, <1>3, <1>4 DEF Next

(* The circular buffer implements the bounded queue: items leave in the    *)
(* order they entered, exactly once; only a full queue drops an item.      *)
THEOREM QueueIsFifo == Spec => ImplementsFifo
<1>1. Init => Fifo!Init
  BY DEF Init, Fifo!Init, Waiting
<1>. QED BY <1>1, InitIInv, StepIInv, StepRefines, PTL DEF Spec, ImplementsFifo, Fifo!Spec

================================================================================
