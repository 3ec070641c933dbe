------------------------- MODULE SmartMsgqueue_proofs -------------------------
(* SmartMsgqueue implements BoundedFifo, for every capacity. *)
EXTENDS SmartMsgqueue, SequenceTheorems, TLAPS

(* The remainder of a position at most one capacity past a slot. *)
LEMMA SlotMod ==
    \A x \in Slots, y \in 0 .. Capacity :
        (x + y) % Capacity = IF x + y < Capacity THEN x + y ELSE x + y - Capacity
BY CapacityAssumption DEF Slots

(* A sequence one longer than q that continues it with m is Append(q, m). *)
LEMMA IsAppend ==
    ASSUME NEW S, NEW q \in Seq(S), NEW m \in S, NEW r \in Seq(S),
           Len(r) = Len(q) + 1, \A i \in 1 .. Len(q) : r[i] = q[i],
           r[Len(q) + 1] = m
    PROVE  r = Append(q, m)
<1> DEFINE a == Append(q, m)
<1>1. /\ a \in Seq(S) /\ Len(a) = Len(q) + 1
      /\ \A i \in 1 .. Len(q) : a[i] = q[i]
      /\ a[Len(q) + 1] = m
  BY AppendProperties
<1>2. Len(q) \in Nat
  OBVIOUS
<1> HIDE DEF a
<1>3. \A i \in 1 .. Len(r) : r[i] = a[i]
  BY <1>1, <1>2
<1>4. r = a
  BY <1>1, <1>3, SeqEqual
<1> QED BY <1>4 DEF a

(* A sequence one shorter than q, shifted by one, is Tail(q). *)
LEMMA IsTail ==
    ASSUME NEW S, NEW q \in Seq(S), q # <<>>, NEW r \in Seq(S),
           Len(r) = Len(q) - 1, \A i \in 1 .. Len(r) : r[i] = q[i + 1]
    PROVE  r = Tail(q)
<1> DEFINE a == Tail(q)
<1>1. a \in Seq(S) /\ Len(a) = Len(r) /\ \A i \in 1 .. Len(a) : a[i] = q[i + 1]
  BY HeadTailProperties
<1> HIDE DEF a
<1>2. r = a
  BY <1>1, SeqEqual
<1> QED BY <1>2 DEF a

RingInv == TypeOK /\ RingConsistent

(* The slot of the i-th message, without the remainder. *)
LEMMA SlotValue ==
    ASSUME TypeOK, NEW i \in 1 .. Capacity
    PROVE  /\ Slot(i) = IF head + i - 1 < Capacity THEN head + i - 1
                                                   ELSE head + i - 1 - Capacity
           /\ Slot(i) \in Slots
<1>1. head \in Slots /\ i - 1 \in 0 .. Capacity
  BY CapacityAssumption DEF TypeOK
<1>2. Slot(i) = IF head + (i - 1) < Capacity THEN head + (i - 1)
                                             ELSE head + (i - 1) - Capacity
  BY <1>1, SlotMod DEF Slot
<1> QED BY <1>1, <1>2, CapacityAssumption DEF Slots

LEMMA InitCase == Init => RingInv /\ Fifo!Init
<1> SUFFICES ASSUME Init PROVE RingInv /\ Fifo!Init
  OBVIOUS
<1>1. TypeOK /\ \A i \in 1 .. count : FALSE
  BY CapacityAssumption, WidthAssumption DEF Init, TypeOK, Slots
<1>2. tail = (head + count) % Capacity
  BY SlotMod, CapacityAssumption DEF Init
<1>3. Contents = <<>>
  BY DEF Init, Contents
<1> QED BY <1>1, <1>2, <1>3 DEF RingInv, RingConsistent, Fifo!Init, Init

LEMMA InitQueueCase == RingInv /\ InitQueue => RingInv' /\ Fifo!Clear
<1> SUFFICES ASSUME RingInv, InitQueue PROVE RingInv' /\ Fifo!Clear
  OBVIOUS
<1>1. TypeOK' /\ \A i \in 1 .. count' : FALSE
  BY CapacityAssumption, WidthAssumption DEF InitQueue, TypeOK, Slots, RingInv
<1>2. tail' = (head' + count') % Capacity
  BY SlotMod, CapacityAssumption DEF InitQueue
<1>3. Contents' = <<>>
  BY DEF InitQueue, Contents
<1> QED BY <1>1, <1>2, <1>3 DEF RingInv, RingConsistent, Fifo!Clear, InitQueue

LEMMA ContentsSeq ==
    ASSUME RingInv
    PROVE  /\ Contents \in Seq(Msg)
           /\ Len(Contents) = count
           /\ count \in Nat
<1>1. count \in Nat /\ Contents \in [1 .. count -> Msg]
  BY DEF RingInv, TypeOK, RingConsistent, Contents
<1> QED BY <1>1

LEMMA SendCase ==
    ASSUME RingInv, NEW m \in Msg, Send(m)
    PROVE  RingInv' /\ Fifo!Put(m)
<1> USE CapacityAssumption, WidthAssumption DEF RingInv
<1>1. CASE count >= Capacity
  <2>1. ~(Len(Contents) < Capacity)
    BY <1>1, ContentsSeq
  <2>2. Contents' = Contents
    BY <1>1 DEF Send, Contents, Slot
  <2>3. TypeOK'
    BY <1>1 DEF Send, TypeOK
  <2>4. RingConsistent'
    BY <1>1 DEF Send, RingConsistent, Slot
  <2> QED BY <1>1, <2>1, <2>2, <2>3, <2>4 DEF Send, Fifo!Put
<1>2. CASE ~(count >= Capacity)
  <2>1. /\ buffer' = [buffer EXCEPT ![tail] = m]
        /\ tail' = (tail + 1) % Capacity
        /\ count' = count + 1
        /\ UNCHANGED <<head, dropped, msg>>
    BY <1>2 DEF Send
  <2>2. count \in 0 .. Capacity - 1 /\ head \in Slots /\ tail \in Slots
    BY <1>2 DEF TypeOK
  <2>3. tail' = IF tail + 1 < Capacity THEN tail + 1 ELSE tail + 1 - Capacity
    BY <2>1, <2>2, SlotMod DEF Slots
  <2>4. TypeOK'
    BY <2>1, <2>2, <2>3 DEF TypeOK, Slots
  <2>5. tail = IF head + count < Capacity THEN head + count ELSE head + count - Capacity
    BY <2>2, SlotMod DEF RingConsistent, Slots
  <2>6. tail' = (head' + count') % Capacity
    <3>1. head \in Slots /\ count + 1 \in 0 .. Capacity
      BY <2>2
    <3>2. (head + (count + 1)) % Capacity = IF head + (count + 1) < Capacity
                        THEN head + (count + 1) ELSE head + (count + 1) - Capacity
      BY <3>1, SlotMod
    <3> QED BY <2>1, <2>2, <2>3, <2>5, <3>2 DEF Slots
  <2>7. /\ Slot(count + 1) = tail
        /\ \A i \in 1 .. count : Slot(i) # tail /\ Slot(i) \in Slots
    <3>1. \A i \in 1 .. count + 1 : i \in 1 .. Capacity
      BY <2>2
    <3>2. count + 1 \in 1 .. Capacity
      BY <2>2
    <3>3. Slot(count + 1) = tail
      BY <2>2, <2>5, <3>2, SlotValue DEF Slots
    <3>4. \A i \in 1 .. count : Slot(i) # tail /\ Slot(i) \in Slots
      BY <2>2, <2>5, <3>1, SlotValue DEF Slots
    <3> QED BY <3>3, <3>4
  <2>8. \A i \in 1 .. count + 1 :
           buffer'[Slot(i)] = IF i = count + 1 THEN m ELSE buffer[Slot(i)]
    BY <2>1, <2>2, <2>7 DEF TypeOK
  <2>9. \A i : Slot(i)' = Slot(i)
    BY <2>1 DEF Slot
  <2>10. RingConsistent'
    <3>1. \A i \in 1 .. count' : buffer'[Slot(i)'] \in Msg
      BY <2>1, <2>2, <2>8, <2>9 DEF RingConsistent
    <3> QED BY <2>6, <3>1 DEF RingConsistent
  <2>11. Contents' = [i \in 1 .. count + 1 |-> IF i = count + 1 THEN m ELSE buffer[Slot(i)]]
    BY <2>1, <2>8, <2>9 DEF Contents
  <2>12. Contents' = Append(Contents, m)
    <3>1. Contents \in Seq(Msg) /\ Len(Contents) = count /\ count \in Nat
      BY ContentsSeq
    <3>2. \A i \in 1 .. count : Contents[i] = buffer[Slot(i)] /\ buffer[Slot(i)] \in Msg
      BY DEF Contents, RingConsistent
    <3>3. Contents' \in [1 .. count + 1 -> Msg]
      BY <2>11, <3>1, <3>2
    <3>4. Contents' \in Seq(Msg) /\ Len(Contents') = count + 1
      BY <3>1, <3>3
    <3>5. (\A i \in 1 .. count : Contents'[i] = Contents[i]) /\ Contents'[count + 1] = m
      BY <2>11, <3>1, <3>2
    <3> QED BY <3>1, <3>4, <3>5, IsAppend
  <2>13. Len(Contents) < Capacity
    BY <2>2, ContentsSeq
  <2> QED BY <2>1, <2>4, <2>10, <2>12, <2>13 DEF Fifo!Put
<1> QED BY <1>1, <1>2

LEMMA ReceiveCase == ASSUME RingInv, Receive PROVE RingInv' /\ Fifo!Get
<1> USE CapacityAssumption, WidthAssumption DEF RingInv
<1>1. count \in 1 .. Capacity /\ head \in Slots /\ tail \in Slots
  BY DEF TypeOK, Receive
<1>2. head' = IF head + 1 < Capacity THEN head + 1 ELSE head + 1 - Capacity
  BY <1>1, SlotMod DEF Receive, Slots
<1>3. \A i \in 1 .. count - 1 : Slot(i)' = Slot(i + 1)
  <2> TAKE i \in 1 .. count - 1
  <2>1. head' \in Slots /\ i - 1 \in 0 .. Capacity /\ i \in 0 .. Capacity
    BY <1>1, <1>2 DEF Slots
  <2>2. /\ (head' + (i - 1)) % Capacity = IF head' + (i - 1) < Capacity
                            THEN head' + (i - 1) ELSE head' + (i - 1) - Capacity
        /\ (head + i) % Capacity = IF head + i < Capacity THEN head + i ELSE head + i - Capacity
    BY <1>1, <2>1, SlotMod
  <2>3. (head' + (i - 1)) % Capacity = (head + i) % Capacity
    BY <1>1, <1>2, <2>2 DEF Slots
  <2>4. head + ((i + 1) - 1) = head + i
    BY <1>1 DEF Slots
  <2> QED BY <2>3, <2>4 DEF Slot
<1>4. Slot(1) = head
  BY <1>1, SlotValue DEF Slots
<1>5. buffer' = buffer /\ count' = count - 1 /\ tail' = tail /\ dropped' = dropped
  BY DEF Receive
<1>6. \A i \in 1 .. count : buffer[Slot(i)] \in Msg
  BY DEF RingConsistent
<1>7. TypeOK'
  <2>1. buffer[head] \in Msg
    BY <1>1, <1>4, <1>6
  <2> QED BY <1>1, <1>2, <1>5, <2>1 DEF TypeOK, Receive, Slots
<1>8. RingConsistent'
  <2>1. tail = IF head + count < Capacity THEN head + count ELSE head + count - Capacity
    <3>1. head \in Slots /\ count \in 0 .. Capacity
      BY <1>1
    <3> QED BY <3>1, SlotMod DEF RingConsistent
  <2>2. head' \in Slots /\ count' \in 0 .. Capacity
    BY <1>1, <1>2, <1>5 DEF Slots
  <2>3. (head' + count') % Capacity = IF head' + count' < Capacity
                                      THEN head' + count' ELSE head' + count' - Capacity
    BY <2>2, SlotMod
  <2>4. tail' = (head' + count') % Capacity
    BY <1>1, <1>2, <1>5, <2>1, <2>3 DEF Slots
  <2>5. \A i \in 1 .. count' : buffer'[Slot(i)'] \in Msg
    BY <1>1, <1>3, <1>5, <1>6
  <2> QED BY <2>4, <2>5 DEF RingConsistent
<1>9. Contents' = Tail(Contents)
  <2>1. Contents' = [i \in 1 .. count - 1 |-> buffer[Slot(i + 1)]]
    BY <1>3, <1>5 DEF Contents
  <2>2. Len(Contents) = count /\ Contents \in Seq(Msg)
    BY ContentsSeq
  <2>3. \A i \in 1 .. count - 1 : /\ Contents[i + 1] = buffer[Slot(i + 1)]
                                  /\ buffer[Slot(i + 1)] \in Msg
    BY <1>1, <1>6 DEF Contents
  <2>4. Contents' \in [1 .. count - 1 -> Msg] /\ count - 1 \in Nat
    BY <1>1, <2>1, <2>3
  <2>5. Contents' \in Seq(Msg) /\ Len(Contents') = count - 1
    BY <2>4
  <2>6. \A i \in 1 .. count - 1 : Contents'[i] = Contents[i + 1]
    BY <2>1, <2>3
  <2>7. Contents # <<>>
    BY <1>1, <2>2
  <2> QED BY <2>2, <2>5, <2>6, <2>7, IsTail
<1>10. Contents # <<>> /\ Head(Contents) = buffer[head]
  <2>1. Len(Contents) = count /\ Contents \in Seq(Msg)
    BY ContentsSeq
  <2>2. Contents[1] = buffer[head]
    BY <1>1, <1>4 DEF Contents
  <2> QED BY <1>1, <2>1, <2>2
<1> QED BY <1>5, <1>7, <1>8, <1>9, <1>10 DEF Fifo!Get, Receive

LEMMA RingStep ==
    RingInv /\ [Next]_vars => RingInv' /\ [Fifo!Next]_(Fifo!fifoVars)
<1> SUFFICES ASSUME RingInv, [Next]_vars PROVE RingInv' /\ [Fifo!Next]_(Fifo!fifoVars)
  OBVIOUS
<1>1. CASE InitQueue
  BY <1>1, InitQueueCase DEF Fifo!Next
<1>2. ASSUME NEW m \in Msg, Send(m) PROVE RingInv' /\ [Fifo!Next]_(Fifo!fifoVars)
  BY <1>2, SendCase DEF Fifo!Next
<1>3. CASE Receive
  BY <1>3, ReceiveCase DEF Fifo!Next
<1>4. CASE UNCHANGED vars
  BY <1>4 DEF vars, RingInv, TypeOK, RingConsistent, Contents, Slot, Fifo!fifoVars
<1> QED BY <1>1, <1>2, <1>3, <1>4 DEF Next

(* The types and the agreement of head, tail and count are invariant. *)
THEOREM RingCorrect == Spec => [](TypeOK /\ RingConsistent)
<1>1. Init => RingInv
  BY InitCase
<1>2. RingInv /\ [Next]_vars => RingInv'
  BY RingStep
<1>3. RingInv => TypeOK /\ RingConsistent
  BY DEF RingInv
<1> QED BY <1>1, <1>2, <1>3, PTL DEF Spec

(***************************************************************************)
(* The ring buffer is a bounded FIFO queue: every step of                  *)
(* smart_msgqueue_send, _receive and _init is a step of BoundedFifo.       *)
(***************************************************************************)
THEOREM QueueIsFifo == Spec => FifoSpec
<1>1. Init => RingInv /\ Fifo!Init
  BY InitCase
<1>2. RingInv /\ [Next]_vars => RingInv' /\ [Fifo!Next]_(Fifo!fifoVars)
  BY RingStep
<1> QED BY <1>1, <1>2, PTL DEF Spec, FifoSpec, Fifo!Spec
=============================================================================
